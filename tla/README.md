# A TLA+ model of stream-signer

stream-signer signs parts of a video ("chunks") while it plays and writes the
signatures, with their time ranges, to a signature file; a player verifies them
against the video it shows. This directory holds TLA+ modules for the parts of
that program in which order, concurrency and arithmetic matter, the TLC
configurations that check them on small instances, and proofs checked by TLAPS.

Paths below are relative to `src/crates/core/src/` unless they start with
`crates/`; `spec.md` is `src/spec.md`.

    tlc -workers 2 -config Verifier.cfg MCVerifier      # a run
    tlapm DelayedStreamProofs.tla                       # the proofs of a module

`PROJECT.json` lists every run, the lines each definition stands for, a mutant
of the code's definitions per property (the property must notice it), the
hazards in the code and the theorems.

## 1. The system

| component | state it keeps | operations | interacts with |
|---|---|---|---|
| Pipeline construction, `video/pipeline/{builder,init,wrappers}.rs` | GStreamer elements, the offset, the bus | build, set state, seek, close, the pad-added callback | creates the frame iterator |
| Frame iterator, `video/iter.rs` | fused flag, index, the timestamp normalisation, the audio buffer | `next`, `get_sample_for`, drop | pulls from the video and audio appsinks; feeds both pipelines |
| Audio buffer and frame layout, `video/audio/`, `video/frame/wrappers.rs` | queued audio, a byte position in it | `add_sample`, `pop_until`, `cropped_buffer` | the bytes that are signed |
| Delay buffer, `utils/delayed_stream.rs` | the last items of the source | `poll_next` (`enqueue`, `dequeue`) | between the iterator and verification |
| Signing pipeline, `video/pipeline/sign_pipeline.rs`, `sign` in `video/manager.rs` | the buffer of recent frames, an unbounded channel | `sign_with`, the signing thread, one task per frame | asks the controller, calls signers, sends to the receiver |
| Controllers, `video/sign/control/`, `utils/time_range.rs` | `is_start`, user closures behind locks | `get_chunks` | asked by the signing thread for each frame |
| Signers and chunk builder, `video/sign/signer.rs` | a builder per request | `build`, `sign` | called by the signing tasks |
| Verification pipeline, `verify` in `sign_pipeline.rs`, `verification` in `manager.rs` | the cache of signature states | `verify`, `sigs_iter`, `verify_sig`, one task per chunk | reads the signature file and the delay buffer; tasks share the credential store |
| Credential store, `utils/credential.rs` | subject by presentation id | `normalise`, `validate_pres` | locked by the tasks; calls the DID resolver |
| Signature file, `file/signs.rs`, `file/time.rs`, `spec/` | the intervals, in milliseconds | push, extend, look up by time, read, write | written by the signer, read by the verifier |
| Chunk boundaries, `file/time.rs`, `video/frame/rate.rs`, parts of `manager.rs` | none | conversions between times and frame indexes | both pipelines, each on its own |
| Signer GUI, `crates/signer-gui` | view, chosen video and output, `SignController`, what the overlay shows | menu, Enter, Space, `watch_video`, idle callbacks | drives a signing session, writes the file |
| Verifier GUI, `crates/verifier-gui` | view, chosen video and file, the list of signatures | menu, `watch_video`, idle callbacks | drives verification, shows states |
| Common GUI, `crates/common-gui` | pause flag and waker, the current frame | spawn of the player, Space, `update_frame` | both players |

The two pipelines never meet: what joins them is the file, and that both turn
the same times into the same frames.

What is hard, and the property that would notice it going wrong:

* *Frame iterator.* GStreamer's threads fill two appsinks and a bus while the
  consumer pulls with a timeout; audio and video end at different moments; state
  changes may be refused. Correct: every frame once, in order, at the right time and
  with its own audio; an end that is never silent; a pipeline closed on every way
  out. (`FramesExact`, `AudioPartition`, `AudioUnderFrame`, `EndIsKnown`, `ClosedAtEnd`,
  `IteratorEnds`)
* *Bytes that are signed.* Areas, channels, padding of rows and audio end up in one
  buffer. Correct: the bytes `spec.md` says, for what exists. (`SignedBytes`,
  `LayoutAsSpecified`)
* *Delay buffer.* It fills, slides and drains; a window off by one makes every
  signature wrong. Correct: item i comes out with exactly the items that follow
  it, and all come out. (`WindowExact`, `NothingLost`, `ImplementsWindow`)
* *Chunk boundaries.* Times are floored to milliseconds, timestamps truncated to
  nanoseconds, quotients rounded up, on each side separately. Correct: verifier
  and signer use the same frames, and agree on which lengths are legal.
  (`SameFrames*`, `SpecFrames`, `SizeAgrees`)
* *Controllers.* An interval is found by rounding within a frame. Correct: the chunks
  meet, cover the video, are accepted by `sign`, and a reference follows its
  definition. (`ChunksMeet`, `RefusalsExplained`, `OwnChunkSigned`, `WholeVideoSigned`,
  `DefinedFirst`, `RangeIsSigned`)
* *Verification.* A task per chunk runs concurrently with the video and with
  every other; a task may panic with a lock held. Correct: one task per chunk,
  verdicts sound and final, no false alarm, `Loading` ends, the video never
  waits. (the properties of the run `verifier`)
* *Signing.* A task per frame works on a copy of the buffer and may wait long for
  its key; the receiver may stop early. Correct: each task has the right frames,
  each request is answered exactly once, the stream ends. (those of `signer`)
* *File and GUIs.* Answers arrive in any order; frames and signatures reach the
  UI thread as separate callbacks. Correct: the file has what was signed and reads
  back the same; what is shown beside a frame is what holds it. (`FileFaithful`,
  `OverlayTruth`, `LabelCurrent`, `OverlaySafe`, `ViewReturns`)

## 2. The modules

| module | models | notes |
|---|---|---|
| `SlidingWindow` | the promise of a delayed stream, with no buffer | abstract specification |
| `DelayedStream` | `utils/delayed_stream.rs` | implements `SlidingWindow` |
| `FrameTime` | the conversions of `file/time.rs` and `video/frame/rate.rs`, `spec/constants.rs` | operators |
| `SignRange` | which frames `sign` signs and when it refuses | operators, shared by `ChunkFrames`, `Signer`, `Session` |
| `ChunkFrames` | one chunk from `sign` through the file to `verify_sig` | sequential |
| `Signer` | the signing pipeline | thread, tasks, channel, receiver |
| `Verifier` | the verification pipeline and the credential store | composes `DelayedStream` |
| `Pipeline` | blocking state changes, pause, seek, play, close | operators: sets of outcomes |
| `AudioBuffer` | `video/audio/buffer.rs`, `video/audio/slice.rs` | operators |
| `FrameLayout` | the bytes that are signed, `video/frame/wrappers.rs` | operators |
| `FrameIter` | the iterator, its pipeline and GStreamer's threads | composes the three above |
| `Controllers` | `TimeRange`, the controllers, the chunk builder | operators |
| `SignFile` | the file, its intervals and subtitles | operators |
| `Positions` | what a filter leaves of a list, by position | operators, shared by the two above |
| `Session` | one signing session from the controllers to the file | composes the two above with `SignRange` |
| `SignerGui`, `VerifierGui` | the two programs around a session | |
| `Apps` | sign, write, read and show | composes the session and both programs |
| `FrameTimeProofs` | | lemmas on the conversions between times and frames |
| `DelayedStreamProofs`, `ChunkFramesProofs`, `SignerProofs`, `VerifierProofs`, `FrameIterProofs`, `AppsProofs`, `AppsSoundness` | | theorems |
| `MC*` | | the constants TLC uses |

A definition introduced by "Mutated form of" is not part of the model; it is what a
slip in the code would have made of the definition after it, and it is used to
show that a property notices.

**DelayedStream.** `buf` is `DelayBuffer.buf`; `source` and `full` are histories of
what went in and came out. `PollItem` is `poll_next` on an item (`enqueue`, and
`Delayed::Partial` or `Full`), `PollEnd` is `poll_next` after the end. A pending
source changes nothing. The source is fused, as `FrameIter` is.

**FrameTime, SignRange, ChunkFrames.** Times are naturals; a tick is the nanosecond
of the model, and `Tick` of them are a millisecond. `Sign` makes `sign`'s checks in
its order, computes its range of buffer indexes and writes the interval; `Verify`
takes the first frame at which the file shows the interval and gathers from there
what `verify_sig` does.

**Signer.** The thread goes through `peek`, `take`, `ask`, `done`: `Peek` is the look at the
first item, `TakeFrame`, `TakeError`, `TakeLast` and `TakeNone` are the ways an
iteration of the `for` loop can begin, up to and with `manage`; `Ask` is
`request_chunks` awaiting the controller and the spawn of the task with its copy of
the buffer. `Sign(j)` is the next chunk of task j with its `send`. `Receive` and
`ReceiveNone` are the caller: one who stops at the first error (`strict`, as
`try_collect` does, after which the receiver is dropped), or one who reads on.

**Verifier.** `NextFrame` is a poll of the delayed stream (`Delay!PollItem`,
`Delay!PollEnd`); `ReportSignature` is one step of `sigs_iter` under the cache's
lock; `TaskStart` is `verify_sig` up to the credentials' lock, which is a queue as
tokio's mutex is fair. `NormaliseRef`, `NormaliseDef` and `NormalisePanics` are what
happens while it is held: the lookup, or the validation with the resolver awaited,
and then `Judge`, the rest of `verify_sig`. `Publish` writes the cache. `seen` and `at`
are histories. Frames are told apart from replaced ones (`intact`), since a signature
matches if and only if all its bytes are those signed.

**Pipeline, FrameIter.** A state change is a set of outcomes: what the call returned, and
the state it leaves. `set_state_blocking` sets the pipeline to Null when a change fails,
and panics when that fails too. `pc` is where `next()` is: `NextFused`, `NextBusError` and
`NextBegin` are its start, `PullVideo` the sample of `get_sample_for` with the skip
of a frame that is not shown for a whole frame time, `CheckAudio` and `PullAudio` the
loop that gathers audio up to the end of the frame, `Yield` the frame with its slice and
`is_last`. `GiveUp` is `get_sample_for` without a sample: fuse, look for an error, close.
`OpenPipeline` and `PadAdded` run until the pipeline plays, `Drop` is the drop of
`PipeState`, at the end, after a panic, or early. `DeliverSample`, `DeliverEos` and
`PostMessage` are GStreamer's threads, at any moment in between. `out` is what `next()`
returned. `pc = "leaked"` is a `close` that failed in `drop`.

**AudioBuffer, FrameLayout.** A buffer is its time stamp, its duration and its bytes, each
byte numbered by its place in the stream, so that a slice shows what was lost, repeated or
swapped. `pop_until` is `CutAt`, `SliceUntil` and `RestAfter`. Bytes of the picture are
negative numbers, the bytes a row is padded with are `None`.

**Controllers, SignFile, Session.** A controller is a record with its `is_start` (as
`started`). `AskControllers` is a turn of the signing thread over the controllers of
`sign_with_all`, or over the function of the example in the documentation of
`SignPipeline::sign`; `Receive(k)` and `ReceiveError(k)` are the answer to the k-th chunk
reaching the collector: in the order asked within a frame, in any order between frames.
`Push` is the insertion of `rust_lapper`, `SignaturesAt` the lookup. A filter is the entries at a
set of positions, in their order (`Kept`), and not a recursion, so that it can be reasoned about. The buffer, the tasks
and the channel are not repeated here: what `Signer` shows of them (every request is
answered once, over the right frames) is what `Session` takes for granted.

**SignerGui, VerifierGui, Apps.** One action per menu command, key, turn of the
player's loop and idle callback, in the order in which the queue hands them to the UI
thread. In `Apps` the signer's window or a program on the library runs first, and the
verifier's window with what it wrote.

## 3. The runs

| run | states | asks |
|---|---|---|
| `delayed_stream` | 248 | is every window exact, does everything come out, and is the abstract `SlidingWindow` implemented, liveness included |
| `chunk_frames` | 93,831 | do signer and verifier use the same frames |
| `chunk_frames_evicted` | violation | ... once the first frame has left the signer's buffer |
| `verifier` | 92,107 | are verdicts sound, final, not false, and do they come |
| `verifier_early_chunk` | violation | is a chunk before the offset reported as out of range |
| `verifier_ref_first` | violation | does a reference always find the earlier definition |
| `signer` | 104,204 | right frames, exact accounting, an end to the stream |
| `frame_iter` | 38,760 | the right frames, times, audio and bytes, and a known end, whatever GStreamer does when |
| `frame_iter_layout` | violation | are the signed bytes the area's pixels and then the channels, as `spec.md` says |
| `apps` | 142,126 | is the whole video signed, the file right, and shown is what was signed |
| `gui_own_chunk` | violation | can the GUI's own chunk, at the maximum length, be signed |
| `session_range` | violation | are the frames of a controller's time range signed |

Bounds, and why they are enough:

* `delayed_stream`: a buffer of 2 and sources of 0 to 5 items over two values. The
  buffer fills, slides three times and drains, and sources shorter than the buffer
  occur; two values make a skipped, repeated or swapped item visible. The proofs
  remove these bounds.
* `chunk_frames`: 24, 25, 30, 60 and 30000/1001 frames a second, so that timestamps
  are exact, periodically exact, or almost never exact. Ten ticks to a millisecond,
  chunks of 50 ms to under 200 ms in place of 50 ms to under 10 s; at 24 frames, the
  buffer slides at every rate. Starts lie on frames of every rate and on multiples of
  10 ms, before the offset, within the video and beyond it. The limits and the tick are
  constants; the ratio of a millisecond to a tick only has to allow truncation.
* `verifier`: 20 frames a second and 200 ms make the stream hold back four of five
  frames, so it fills, slides and drains. One fault (`MaxFaults`: a replaced frame or a stream
  error) suffices to tell a chunk it touches from one it does not. Four files: a
  reference off the frame boundaries, an over-long definition overlapped by a
  reference, three chunks of two ids (one forged, one signed by a third party), and
  a credential that panics ahead of an area that does not fit and a reference to it.
  The offset is none or two frames.
* `signer`: four frames kept of five, two errors (`MaxErrs`), two requests in all
  (`MaxAsks`) from any frames, with a start before the offset and one between two frames,
  so that requests are too early, too long, too short, and right; one failure of the key
  storage (`MaxKeyFails`).
* `frame_iter`: a tick is a millisecond, with 7 frames and 12 samples a second, so that
  neither is a whole number of ticks and frames end within samples and within buffers.
  Appsinks hold `MaxBuffers` = 2 samples, so the streaming threads wait; two faults
  (`MaxFaults`: a message, a timeout, a refused state change) let one follow another, as a
  close that fails after a timeout. Eight inputs: audio that is longer, shorter or absent, a
  short last buffer, offsets on a frame boundary and within a frame, a frame a tick longer than
  the others, pads of another kind, twice video, twice audio. Two sizes (`Sizes`),
  with padded rows and without, and ten requests (`Areas`) that are whole, partial, empty, out
  of the frame, without channels, for channels in another order or for one that does not exist.
* `apps`: four ticks to a millisecond, chunks of 5 ms to under 30 ms (`MinChunk`,
  `MaxChunk`), so that a video is one to seven frames. Thirteen sessions of a library
  program: intervals that divide the frame time or do not, offsets on and off the
  interval, two controllers, an end that is seen or not (`last`), rounding that puts a
  crossing before the interval or lets a multiple cross twice, a first frame that crosses and is skipped, chunks too long and
  too short, a range, the documented example; readers that stop at an error and that do not. Three videos of
  the GUI: one in which a chunk takes exactly the maximum, one with frames shorter than the minimum
  and one with frames off the millisecond. One failure of a key (`MaxFails`), two callbacks waiting for a UI thread
  (`MaxIdle`), two videos one after the other (`MaxVideos`, what a second one inherits), two
  signatures that are judged to be something (`MaxJudged`, two are needed to mix them up).
* `session_range`: one controller with a range of six frames in a video of nine.

`CHECK_DEADLOCK FALSE` stands where a video, a chunk or a collection is over, or a program
has gone down.

## 4. Fairness

* `DelayedStream`: a reader that has seen the source end polls until `None`. Nothing
  makes the source deliver or end.
* `Verifier`: the viewer keeps polling (`NextFrame`, `ReportSignature`), tokio runs every
  spawned task (one weak fairness per task), and the resolver answers, if only with an
  error. No order between tasks is assumed.
* `Signer`: the thread and every task run, the controller and the key storage return,
  the receiver keeps receiving.
* `FrameIter`: GStreamer's threads go on while the pipeline plays and no element has
  failed, pads are added, and the thread that iterates runs (`try_pull_sample` returns: it has a
  timeout). The consumer asks for every item until there is none, and then drops the
  iterator; it may also drop it before, but need not.
* `Apps`: the threads and tasks of a session run, both UI threads serve their queues, the
  verifier's stream is polled. Users are free to do nothing.

These are what the runtime gives to a future that is awaited and to a task that is
spawned. A resolver or controller that never returns is outside the claims.

## 5. What is proved

For every value of the constants, by TLAPS (Z3, Zenon, LS4):

* `Inductive`, `WindowsAreExact`, `NothingIsLost` (`DelayedStreamProofs`). `WindowExact`
  alone is not inductive: it says nothing of what the buffer holds. `IInv` adds
  `Whole` (what came out and what is held back are together the source) and `HeldBack`
  (nothing comes out before the buffer is filled or the source has ended). With them, the
  item that leaves and the buffer it is paired with are a window of the source.
  Assumption: the length is at least 1 (`LenAssumption`). It is what the proof needs
  and what `verify` passes for a video with a frame.
* `RefinesWindow`: `Spec => Window!SafeSpec`. Each `PollItem` is a push of the abstract
  window, with the item that becomes due if there is one; each `PollEnd` emits the next
  pair or stutters.
* `ChunkFramesProofs`, on the arithmetic of `FrameTimeProofs`. All of it rests on one fact,
  `CeilIsFirst`: to round a time up to frames is to look for the first frame that starts no
  earlier. The invariant `ChunkInv` keeps what `sign` has checked and where entry and answer come
  from. From it follow `ChunkTypes` (the frames signed lie in the buffer), `LengthsAgree`
  (`SizeAgrees`: they accept the same lengths, but for a start off the millisecond),
  `SignedAsSpecified` (`SpecFrames`) and `SignedIsGathered`
  (`SameFramesExact`): at every rate, offset, start and length the verifier gathers the frames
  that were signed. Both sides are shown to start at the first frame presented at or after the
  start of the entry and to end at the frame the chunk was asked for at, although they count
  from different frames and floor where the other does not. Hypothesis of the last two:
  at most a frame a millisecond (`MillisecondRates`; at more, two frames share the
  milliseconds in the file). That the buffer begins at an exact timestamp is part of the
  properties; `chunk_frames_evicted` shows it is needed.
* `ContextIsRecent`, `BufferIsRecent`, `SignerTypes` (`SignerProofs`): every signing task
  works on exactly the last `Kept` frames up to its own. The task's copy is right only if the
  buffer was, so `RecentInv` adds `RecentBuffer`: the buffer is always a run of the latest
  frames, and it is as long as it should be, but for one case. An error pops a frame from a
  full buffer and pushes none, leaving one too few; further errors then pop nothing,
  and the next frame fills it again. `LastFramesProperties` and `PoppedProperties` are the
  facts about sequences each action needs; `TypeOK` needs besides that the cut `sign` makes
  lies within the buffer (`CutWithinBuffer`). That the buffer has a place for at least one
  frame is derived from the rate (`CapacityIsPositive`), not assumed.
* `EveryRequestAnswered` (`Accounted`): at the end each request has exactly one answer
  and each error was passed on. `AccountInv` follows every request from the list of its task
  (`TodoInv`) to what was sent and what was received, taken as one log (`LogInv`), in which it
  stands exactly once when it is no longer to be done; and the receiver has only finished when
  nothing is under way (`Over`).
* `SignaturesAreFaithful` (`FaithfulFile`): each signature is over exactly the frames from its
  start to the frame it was asked for at. It joins `ContextIsRecent` with
  `CeilIsFirst`. Hypothesis `ExactTimes`: at most a frame a millisecond, chunks that
  start on whole milliseconds, and buffers that begin at exact timestamps: true at any
  rate while the video is no longer than the buffer, and of a video of any length when
  timestamps are exact, as at 20 or 25 frames a second. The last cannot be dropped
  (`chunk_frames_evicted`); the run `signer` satisfies all three.
* `CacheIsExact`, `FinalVerdicts`, `DefinitionsAreSaved` (`VerifierProofs`), from one
  invariant, `TaskInv`. `CacheMirrorsTasks` ties the cache to the tasks and the queue at the
  lock to the tasks that wait, each once; it needs that a task that has judged has a
  verdict (`JudgedHasVerdict`). `VerdictsAreFinal` speaks of the viewer, so what he
  was told must be what is cached (`SeenIsCached`); `SavedFirst` needs that a definition
  that was judged has left a subject (`DefinitionsRecorded`), and that no step takes one back.
* `VerifiedMeansVerified`: a signature shown as Verified is over
  frames that were delivered as they were signed, of legal length, and its key is that of a
  valid presentation of its id in the file. The verdict is only as good as the window
  the task was given, whenever it runs, and the subject it met, so `SoundInv` adds where they
  come from: everything the delay buffer holds or has let out is from the source
  (`FromSource`), each task was given a window that has come out (`GivenWindow`), a valid
  subject is that of a presentation in the file (`ValidFromFile`). The counting argument is
  that a sequence of as many frames as were signed, equal to them, holds each of them.
* `NoAlarmIsFalse` (`NoFalseAlarm`): what was delivered as it was
  signed is never called unverified. `AlarmInv` adds to `SoundInv` that windows are runs of the
  stream with as many items as the stream holds back, or all that were left (`Windows`), that
  frames are numbered as they came (`Numbered`), that a chunk without a task has not been shown
  yet (`Unmet`), so that a task is given the first frame that shows its chunk
  (`FirstMet`), and why a verdict was Unverified: a frame differs, or a key does (`Cause`).
  What remains is arithmetic: the frame at which the file first shows the chunk is the
  frame at which the signer began, and the window is long enough. `VerifierTypes`
  adds the parameters, which no step changes.
* `PipelineIsClosed`, `EndIsFinal` (`FrameIterProofs`): the pipeline of an iterator that has
  ended or was dropped is in Null after every sequence of failures, no frame follows one that
  is last, and nothing follows a timeout. `IterInv` adds that the pipeline plays whenever
  `next()` is under way and is closed once the iterator is fused (`PlaysOrClosed`, or
  `is_last` would be true of a stopped sink), that a timeout has fused it
  (`TimeoutFuses`), and that after a last frame the sink is empty, the stream has ended
  and nothing will be delivered (`LastEmpties`). `CloseCloses` and `OpenPlays` say of every
  sequence of state changes where it ends when it succeeds.
* `FramesAreExact` (`FramesExact`): no frame is lost, doubled or swapped, and times are the
  video's. `PullInv` adds to `IterInv` that while the iterator is active what waits
  in the sink is the samples delivered last, one behind the other (`Waits`), that the frame
  at hand is the one pulled last (`HoldsPulled`), and that as many frames were returned as were
  pulled, but for the one at hand and those skipped at the start (`Progress`).
  `IterTypes` follows from it and `Bounded`.
* `SlicesFollow` (`SlicesMeet`, the part of `AudioPartition` about two slices at a time): in a
  regular video each slice of audio begins in the buffer, and at the byte, where the one before
  it ended, and the first where the audio does. `AudioInv` says of the audio what `PullInv` says
  of the video: what waits in the sink is what was delivered last (`AudioWaits`), the first
  buffer sets by how much times are moved (`AudioShifted`), `AudioBuffer` holds the buffers behind
  some p-th (`KeptFrom`), and that is where the last slice ended (`GoesOnAt`). The hard case is a
  frame whose end, by its rounding, cuts nothing off the first buffer: its slice is empty and
  resets the byte to start from, which would repeat audio if the slice before had ended within
  that buffer. It had not, as later frames end in it by more than the slack (`ReachesInto`). `PopIs`
  says what `pop_until` cuts. Hypothesis: `AudioGoesOn(source)`. The code measures by the length
  of the first buffer it holds, so buffers have to last, and none may begin or end as much as
  a frame later than the lengths of those before it say. A shorter last buffer is within it. TLC
  evaluates it on the sources of the run (`MCAudioGoesOn`).
* `IteratorEndIsKnown` (`EndIsKnown`): the iterator ends after the whole video, after an error, or
  when the audio has ended before the frame that is missing does. `EndInv` adds that only the pads
  of the source are linked, so that no audio is waited for in vain (`Linked`), that an end of
  stream comes behind all of it (`EosIsEnd`), and that a fused iterator that has not ended has just
  returned an error. That the audio has really ended follows from `AudioInv`: what is held are the
  last buffers, or, when none is held, the last frame has outlasted them (`Drained`). A video
  without audio needs no hypothesis, one with audio `AudioGoesOn(source)`.
* `ListIsCurrent` (`LabelCurrent`, in `AppsProofs`): states that count as the same have the same
  label (`SameLabel`), so a label that is not drawn again is still right.
* `OverlayIsSafe` (`OverlaySafe`): in the first video the overlay never subtracts a later time.
  `OverlayInv` says of the queue of callbacks what the paint needs: frames and signatures in
  the order of their times, each signature right behind its frame, and the last signature
  shown not later than the frame shown (`IdleInOrder`, `SignsBehindFrames`, `ShownInOrder`).
* `FileIsFaithful` (`FileFaithful`): the file is sorted, holds each answer as often as it was
  given, and reads back as it was written. Insertion and sorting are stated by rank (how many
  intervals come before), so that order and multiplicity can be proved without induction.
  `FileInv` counts every entry of the file among the answers; `SessionInv` gives the
  answers their form. `AppsTypes` adds the two programs (`WindowInv`, `VerifierInv`).
* `ReferencesStandBehind` (`DefinedFirst`, in `AppsSoundness`, as are the four below): a
  reference in a collected file stands behind its definition, or the chunk with that failed. `DefinedInv`
  adds to `FileInv` that a controller whose `is_start` is cleared has asked for a definition at
  an earlier frame (`StartedDefined`, `GuiDefined`), so that each reference has a definition
  to refer to (`ReferencesOK`), which starts and ends in an earlier millisecond, and that
  the reader is done only when every answer is in (`ReaderOK`). Hypothesis `WholeMillisJobs`: at
  most a frame a millisecond, intervals of whole milliseconds; otherwise two chunks may share
  both, and the file keeps no other order.
* `OverlayIsTrue` (`OverlayTruth`): the verifier shows with a frame exactly the signers whose
  answered chunks hold it, as often as they do. `FileInv` counts values and cannot tell two
  answers that are written alike; `PlacedInv` gives each answer a place of its own in the
  file and each place an answer. `AskedInv` says that the chunks asked for are those the
  settings of the controllers give, all of them starting on whole milliseconds, `DiskInv` that what
  is opened is what was collected, `ShowsInv` that what waits for the UI thread, or is shown,
  is the lookup for one frame. What remains is `HitCovers`: the lookup by milliseconds
  finds a chunk exactly for its frames. Hypothesis `MillisecondJobs`: at most a frame a millisecond.
* `ChunksLeaveNothingOut` (`ChunksMeet`): between two chunks of a signer there is no frame. By
  `AskedInv` no frame that crosses a multiple of the interval was passed over, and by
  `CoversBack` the chunk at a crossing goes back to the frame behind the crossing before,
  although where a multiple is crossed is rounded to a millisecond within each frame. `GuiMeets`
  is the same of Enter and the maximum length in the GUI, whose chunks start where the last
  one ended. Hypotheses: two ticks to a millisecond (the code has 10^6; with one, nothing is
  rounded and the halves of the proof are not apart) and `WholeIntervals`.
* `WholeVideoIsSigned` (`WholeVideoSigned`): nothing of a video whose end is seen is left
  unsigned in the file. `ChunksMeet` has the frames up to the last chunk of each signer; the
  thread ends only behind the last frame unless the reader has failed (`EndedInv`), every
  controller asks at a frame that is last (but for the documented example, which does not look),
  and `PlacedInv` and `HitCovers` find the answers in the file. Hypotheses: two ticks to a
  millisecond, `WholeMillisJobs`.
* `RefusalsAreExplained` (`RefusalsExplained`): a chunk of a controller that fits is not refused, and
  one of the GUI only if Enter or the end came too early for it, or if it has just reached the maximum,
  at which the GUI asks on its own. Rounding moves a chunk by a millisecond at most, at its
  start and in its length (`ChunkAtCrossing`, `FittingChunk`), which `Fits` leaves room for; and a
  chunk that starts before the oldest frame of the buffer has the maximum length or more
  (`OldestReaches`), so an allowed length is never out of range. `GuiStarts`: the chunks of the
  GUI start at `last_sign`, no later than their frame, and none of them, nor what was taken since
  the last, reached the maximum at an earlier frame (`BelowMaximum`). Hypothesis: the maximum is whole milliseconds, as 10 s is.

The constants are only assumed to be what they stand for: rates, times and sizes are naturals
with divisors above zero, files are sequences of chunks in whole milliseconds, the two streams
of a source are sequences of buffers none of which starts before the offset
(`IsSource`), a session has new controllers with a positive interval (`IsNewController`),
and `None` and `Err`, which stand for what is absent, are not a frame or the like. TLC
evaluates each assumption in the runs.

Only model-checked:

* liveness (`StreamEnds`, `LoadingEndsUnlessDoomed`, `VideoNeverWaits`,
  `IteratorEnds`, `ViewReturns`, and that of `ImplementsWindow`), which is out of the
  prover's reach;
* `AudioUnderFrame`, `SignedBytes`, and of `AudioPartition` the bytes that the slices have
  together and their bounds: what they say is the value of folds and flattenings over sequences
  of any length, which is induction over data.

## 6. What the violation runs show

1. `verifier_early_chunk`. `verify_sig` subtracts the offset from the chunk's start before
   it compares the two (`manager.rs:631`, `file/time.rs:145-151`); for an earlier
   start the subtraction of durations panics in the spawned task. The `OutOfRange`
   answer below it is unreachable, the chunk stays `Loading`, and the credential it
   defines is not saved, so references to it become unknown keys.
2. `verifier_ref_first`. References are judged in the order in which tasks reach the
   credentials' lock. `spec.md:251-254` only asks that a definition be earlier in the file.
3. `chunk_frames_evicted`. The signer measures from the truncated timestamp of its first
   buffered frame, the verifier from the offset. With the quotient rounded up, the two
   differ by a frame for some starts.
4. `session_range`. `convert_time` (`interval.rs:148`) takes the comparison of a `TimeRange`
   with a time for its opposite (`time_range.rs:138-148`): only a frame around the whole range
   passes for one in it. The file has no signature for the range and there is no
   error. The range in `tests/controller_options.rs:49` lies between the starts of two frames,
   so what the test says of frames in the range is never reached.
5. `gui_own_chunk`. The signer's GUI asks for a chunk on its own once its length is at least
   `MAX_CHUNK_LENGTH` (`crates/signer-gui/src/controller.rs:69-75`), and `sign` takes only what is
   shorter: `CHUNK_LENGTH_RANGE` is half-open (`constants.rs:5`), though `spec.md:328-329` only
   invalidates what is larger. Signing a video of ten seconds without Enter fails. At
   rates that do not divide the ten seconds the chunk is longer than the maximum.
6. `frame_iter_layout`. The channels are written over the first bytes of the cropped frame, and the
   room behind it stays zero (`video/frame/wrappers.rs:104`); `spec.md:412-428` appends them to its
   end. The pixels under the audio are not signed. In the same state, the crop of a video whose rows
   GStreamer pads to four bytes steps by the width (`video/frame/wrappers.rs:204-213`; `as_flat` in
   the same file takes the stride): an area below the top row is not its pixels, and padding is
   signed with it. Signer and verifier do the same, so signatures match all the same, unless the
   padding differs.

Properties that hold name the conditions under which they do; these are what the code
does outside of them:

* `ChunksMeet`, `WholeVideoSigned`: the first frame is never a reason to sign
  (`interval.rs:177`, `is_start`). When it ends on a multiple of the interval, as at 10 frames a second
  with an interval of 100 ms, the next chunk starts behind it, and no chunk holds it.
* `RefusalsExplained`, `Fits`: with an offset that is not a multiple of the interval, the
  first chunk starts before the offset and is refused as out of range; so is one for a
  frame that rounding counts as crossing early, and one that rounding moves a millisecond before
  the offset, which takes no more than a first crossing that ends in the upper half of a
  millisecond. A length may come out a millisecond short of the interval or
  a frame and a millisecond beyond it. An interval that with one more
  frame reaches the maximum is refused, and so is a video shorter than the minimum. The
  signer's GUI is refused what it asks for on its own (`AtMaximum`, shown by `gui_own_chunk`), and
  what Enter or the end of the video asks for within the minimum of the last signature
  (`AskedTooEarly`); its `expect` then fails and the view stays.
* `WholeVideoSigned` leaves out a panic: the example in the documentation of
  `SignPipeline::sign` (`sign_pipeline.rs:492-505`) subtracts the interval from a crossing that
  rounding may have put before it, at 30 and 60 frames a second among others; the signing
  thread dies and the stream ends as if all was well.
* `DefinedFirst` leaves out a first chunk that failed: `is_start` is cleared when a chunk is
  asked for (`interval.rs:197`). The collectors of this repository stop at the first error.
* `AudioUnderFrame` leaves out an offset within a frame: the frames are moved to the offset,
  the audio is not. `EndExplained`: when the audio ends first, the frame already
  pulled is dropped, and the rest of the video with it. `IteratorEnds`: a second audio pad
  aborts the process (`builder.rs:312`).
* `SignedBytes` says which areas and channels are taken, how many bytes are signed, that all of the
  audio is among them, and which they are when there is no audio and no padding. Where the audio is
  and what an area of padded rows holds is `LayoutAsSpecified`, above. It leaves out channels of a
  frame without audio: the code does not look at them (`video/frame/wrappers.rs:103`) and signs the
  picture alone, where `spec.md:315-316` makes a chunk with a channel that does not exist invalid.
* `SizeAgrees`: the signer floors only one end of the chunk for its length check (`manager.rs:445`), the
  file both. A chunk that starts off a millisecond, just below the maximum, is signed, and refused
  by the verifier as `InvalidChunkSize`; the run `chunk_frames` has such chunks.
* `Accounted`: an error as the very first item is returned by the peek (`sign_pipeline.rs:322`) from a
  task whose handle is dropped. The controller is never asked, and the receiver sees an empty stream
  that ends well, although `sign_pipeline.rs:221-223` speaks of a call for every frame; the run
  `signer` has that start.
* `OverlaySafe` is about the first video: `last_sign` survives it, and the overlay of
  the second one subtracts a later time from an earlier one.
* `ViewReturns`: without a chosen video, or after an error, the task panics and the view
  stays; without a chosen output the write fails on the UI thread; Space always takes the
  program down, as `Handle::block_on` panics within the runtime (`widget.rs:64`).

## 7. Abstractions and what they leave out

* In `ChunkFrames`, `Signer`, `Verifier`, `Session`, a frame lasts until the timestamp of the
  next one (a frame time in `Session`); timestamps are the truncated multiples of the frame
  time, moved so that the first frame lies on the offset. `FrameIter` shows which
  inputs give that.
* `f64` division is exact (see `FrameTime`).
* `VecDeque::capacity()` is what `reserve_exact` asked for, as the standard library
  gives it for a new deque of non-zero-sized items.
* Cryptography: a signature matches if the frames and the key do. `validate_pres`
  yields a subject, an invalid subject, a resolver failure, or panics at the `unwrap`
  of a credential that does not validate (`credential.rs:279`).
* GStreamer is an environment: it delivers the samples of a stream in order, ends a stream
  once, and may post messages, stall or refuse a state change, as often as the bound allows.
* The text of signatures, times and subtitles. A presentation is the object without a
  tag that serde writes and reads; a file that does not parse is a failure to open it. (The
  documentation of `spec/presentation.rs:19` and `spec.md:255` names its field `pres`; the code
  uses `jwt`, and would take an object with `pres` for a reference.)
* In `VerifierGui` a signature turns out to be one of `Outcomes` at some moment; how is
  `Verifier`'s part.
* Enter is one step: pressed between the load and the store of `sign_ctrl`
  (`crates/signer-gui/src/controller.rs:73-81`) it is lost in the code and not in the model. No
  property depends on it.
* Widgets, layout, the progress bar and the two seconds the overlay stays.
* The wait that keeps an unsynchronised clock at the frame rate, runtime shutdown,
  and a viewer that stops polling.
* An interval that covers no frame is never looked up, so `end_idx < start_idx` never
  reaches `verify_sig` and its early return has no action.

Not modelled: the pausing of a player (`PlayerCtrl`, `video/feed.rs`: no program reaches it,
as the key that would panics first); the setters of the pipeline builder, which pass
properties to GStreamer; `FnController` and the asynchronous function controllers, which
forward a call; the image traits of `Frame`, which are for users of the library;
conversions between error types; the parsing and printing of times; the identities for tests
in `crates/testlibs`. `PROJECT.json` has the reason for each part.

## 8. What is left

Everything planned is modelled, and every safety invariant of the runs is proved but for
`AudioUnderFrame`, `SignedBytes` and, of `AudioPartition`, what the slices are together.
