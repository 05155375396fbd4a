------------------------------ MODULE Session ------------------------------
(***************************************************************************)
(* One signing session from the controllers to the file: for every frame   *)
(* the controllers are asked for chunks (get_frame_state,                  *)
(* request_sign_info), each chunk is checked and signed, and               *)
(* try_collect::<SignFile> gathers what comes back, in any order.          *)
(*                                                                         *)
(* The frame buffer, the tasks and the channel have a module of their own, *)
(* Signer; here a chunk is asked for, and answered at some later moment.   *)
(***************************************************************************)
EXTENDS Controllers, SignRange, SignFile, FiniteSets

CONSTANTS Jobs,        \* the sessions to try, see IsJob
          MaxFails,    \* bound: chunks the signer's key fails for
          MaxIdle      \* bound: callbacks left for a UI thread before another frame

(* A session: the video, and who signs it.  last is whether is_last is seen *)
(* on the last frame (see FrameIter), tries whether the reader stops at the *)
(* first error, as try_collect does, or passes over errors, and app whether *)
(* the signer's GUI signs.                                                  *)
IsJob(j) ==
    /\ {j.rate.frames, j.rate.seconds, j.frames} \subseteq Nat \ {0}
    /\ j.offset \in Nat /\ j.offset % Tick = 0
    /\ {j.last, j.tries, j.app} \subseteq BOOLEAN
    /\ j.app => j.offset = 0
    /\ j.controllers \in Seq(ToSet(j.controllers))
    /\ \A k \in DOMAIN j.controllers :
          /\ IsNewController(j.controllers[k])
          /\ j.controllers[k].kind = "function" => Len(j.controllers) = 1

ASSUME SessionAssumption ==
    {MaxFails, MaxIdle} \subseteq Nat /\ \A j \in Jobs : IsJob(j)

VARIABLES
    job,       \* the session
    taken,     \* how many frames were taken from the video
    ctrls,     \* the controllers
    thread,    \* sign_with_thread: "idle", "running", "ended" or "panicked"
    asked,     \* the chunks asked for (history)
    pending,   \* those that are not answered yet
    failed,    \* those that were answered with an error (history)
    file,      \* the file that is collected
    reader,    \* "open", "collected" or "failed"
    disk       \* what was written last: subtitles, or None

sessionVars == <<job, taken, ctrls, thread, asked, pending, failed, file, reader, disk>>

FrameLength(j) == FloorDiv(SecondsOf(j.rate), j.rate.frames)

(* get_frame_state: the k-th frame, as a controller sees it.                *)
FrameState(j, k) ==
    [ time |-> Span(j.offset + Pts(j.rate, k - 1), FrameLength(j)),
      last |-> k = j.frames /\ j.last,
      offset |-> j.offset ]

(* The time of the oldest frame in the signer's buffer after k frames.      *)
Oldest(j, k) ==
    LET cap == Capacity(j.rate)
    IN  FrameState(j, IF k > cap THEN k - cap + 1 ELSE 1).time.start

-----------------------------------------------------------------------------

(* A session of the signer's GUI waits until it is started there.           *)
InitSession ==
    /\ job \in Jobs
    /\ taken = 0 /\ ctrls = job.controllers
    /\ thread = IF job.app THEN "idle" ELSE "running"
    /\ asked = <<>> /\ pending = {} /\ failed = {} /\ file = EmptyFile
    /\ reader = "open" /\ disk = None

(* sign_with on a video.                                                    *)
Start(j) ==
    /\ job' = j /\ taken' = 0 /\ ctrls' = j.controllers /\ thread' = "running"
    /\ asked' = <<>> /\ pending' = {} /\ failed' = {} /\ file' = EmptyFile
    /\ reader' = "open" /\ UNCHANGED disk

(* request_chunks: the chunks of frame k, to be signed in a task.           *)
AskFor(chunks, k) ==
    /\ asked' = asked \o [ i \in DOMAIN chunks |->
                              [chunk |-> Built(chunks[i]), frame |-> k] ]
    /\ pending' = pending \cup (Len(asked) + 1)..(Len(asked) + Len(chunks))

(* Mutated form of NextFrameReady: one frame too many.                      *)
NextFrameReadyPast == thread = "running" /\ reader # "failed" /\ taken <= job.frames

(* Is there a frame to take?  The thread ends when the receiver is gone.    *)
NextFrameReady == thread = "running" /\ reader # "failed" /\ taken < job.frames

(* One turn of sign_with_thread.  A controller that panics takes the thread *)
(* with it, and the stream just ends.                                       *)
AskControllers ==
    \E frame \in { FrameState(job, taken + 1) } :
        /\ ~ job.app /\ NextFrameReady
        /\ taken' = taken + 1
        /\ IF TurnPanics(ctrls, frame)
           THEN thread' = "panicked" /\ UNCHANGED <<ctrls, asked, pending>>
           ELSE /\ AskFor(Chunks(ctrls, frame), taken + 1)
                /\ ctrls' = AfterTurn(ctrls, frame)
                /\ UNCHANGED thread
        /\ UNCHANGED <<job, failed, file, reader, disk>>

ThreadEnds ==
    /\ thread = "running" /\ ~ NextFrameReady
    /\ thread' = "ended"
    /\ UNCHANGED <<job, taken, ctrls, asked, pending, failed, file, reader, disk>>

ChunkEnd(k) == FrameState(job, asked[k].frame).time.end

(* sign::FrameManager::sign.                                                *)
RefusalOf(k) ==
    Refusal(asked[k].chunk.start, ChunkEnd(k), job.offset, Oldest(job, asked[k].frame))

(* A task answers the chunks of its frame in their order.                   *)
NextOfFrame(k) ==
    k \in pending /\ \A i \in pending : asked[i].frame = asked[k].frame => k <= i

SignedAs(k) ==
    SignedInterval(asked[k].chunk.start, ChunkEnd(k), Signature(asked[k].chunk))

(* The reader gets a signed interval, and Extend pushes it.                 *)
Receive(k) ==
    /\ reader = "open" /\ NextOfFrame(k) /\ RefusalOf(k) = "none"
    /\ file' = Push(file, SignedAs(k))
    /\ pending' = pending \ {k}
    /\ UNCHANGED <<job, taken, ctrls, thread, asked, failed, reader, disk>>

KeyFailures == { i \in failed : RefusalOf(i) = "none" }

(* ChunkSigner::sign asks the signer for its presentation, unless it only   *)
(* refers to it, and for the signature: IotaSigner resolves the method and  *)
(* the key and has the storage sign, and any of that may fail.              *)
SignerMayFail == Cardinality(KeyFailures) < MaxFails

(* The reader gets an error: try_collect drops what it has, and the stream. *)
ReceiveError(k) ==
    /\ reader = "open" /\ NextOfFrame(k)
    /\ RefusalOf(k) # "none" \/ SignerMayFail
    /\ failed' = failed \cup {k}
    /\ IF job.tries
       THEN reader' = "failed" /\ file' = EmptyFile /\ pending' = {}
       ELSE pending' = pending \ {k} /\ UNCHANGED <<reader, file>>
    /\ UNCHANGED <<job, taken, ctrls, thread, asked, disk>>

(* Every sender is gone: the stream is over.                                *)
Collect ==
    /\ reader = "open" /\ thread \in {"ended", "panicked"} /\ pending = {}
    /\ reader' = "collected"
    /\ UNCHANGED <<job, taken, ctrls, thread, asked, pending, failed, file, disk>>

(* A program that uses the library writes the file it collected.            *)
WriteFile ==
    /\ ~ job.app /\ reader = "collected" /\ disk = None
    /\ disk' = Written(file)
    /\ UNCHANGED <<job, taken, ctrls, thread, asked, pending, failed, file, reader>>

Answer == \E k \in DOMAIN asked : Receive(k) \/ ReceiveError(k)

NextSession == AskControllers \/ ThreadEnds \/ Answer \/ Collect \/ WriteFile

SessionSpec == InitSession /\ [][NextSession]_sessionVars

-----------------------------------------------------------------------------
(* Properties.                                                             *)

(* The state of a session keeps its form.                                   *)
TypeOKSession ==
    /\ job \in Jobs /\ taken \in 0..job.frames
    /\ Len(ctrls) = Len(job.controllers)
    /\ thread \in {"idle", "running", "ended", "panicked"}
    /\ pending \cup failed \subseteq DOMAIN asked /\ pending \cap failed = {}
    /\ \A k \in DOMAIN asked : asked[k].frame \in 1..taken
    /\ reader \in {"open", "collected", "failed"}
    /\ Cardinality(KeyFailures) <= MaxFails

(* Is there a signature for the frame, as the verifier looks it up?         *)
IsSigned(k) == SignaturesAt(file, FrameState(job, k).time.start) # <<>>

(* interval.rs:97-98, "The given time range a signature should apply to":   *)
(* when the signatures of a session with a range are collected, the frames  *)
(* in the range are signed.  In the code only a frame around the whole      *)
(* range passes for one in it.                                              *)
RangeIsSigned ==
    reader = "collected" /\ failed = {} =>
        \A c \in DOMAIN ctrls : ctrls[c].range # None =>
            \A k \in 1..job.frames :
                LET t == FrameState(job, k).time
                IN  ctrls[c].range.start <= t.start /\ t.end <= ctrls[c].range.end
                        => IsSigned(k)
=============================================================================
