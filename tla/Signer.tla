------------------------------- MODULE Signer -------------------------------
(***************************************************************************)
(* Signing a video: SignPipeline::sign_with and sign_with_thread           *)
(* (pipeline/sign_pipeline.rs) with manage, request_chunks and sign of     *)
(* the signing half of video/manager.rs.                                   *)
(*                                                                         *)
(* The signing thread takes frame after frame, keeps the latest of them in *)
(* a buffer, asks the controller at each which chunks to sign there, and   *)
(* leaves the signing to a task per frame that works on a copy of the      *)
(* buffer.  Tasks and thread send their results into one channel, whose    *)
(* receiver collects a signature file.                                     *)
(***************************************************************************)
EXTENDS SignRange, Sequences, FiniteSets, SequencesExt

CONSTANTS Rate,        \* the frame rate of the video
          Offset,      \* PipeState.offset
          Starts,      \* the times at which a requested chunk may start
          VideoLen,    \* bound: the frames of the video
          MaxErrs,     \* bound: errors among the items
          MaxAsks,     \* bound: chunks the controller asks for in all
          MaxKeyFails  \* bound: signatures that the key storage fails to make

ASSUME SignerAssumption ==
    /\ Rate.frames \in Nat \ {0} /\ Rate.seconds \in Nat \ {0}
    /\ Offset \in Nat /\ Starts \subseteq Nat
    /\ VideoLen \in Nat \ {0} /\ MaxErrs \in Nat /\ MaxAsks \in Nat /\ MaxKeyFails \in Nat

VARIABLES
    taken,     \* how many frames FrameIter has delivered
    errs,      \* how many errors it has delivered
    thread,    \* "peek", "take", "ask" or "done"
    buffer,    \* frame_buffer: the frames kept, oldest first
    tasks,     \* the signing tasks, one per frame asked about
    channel,   \* the results sent and not yet received
    strict,    \* the receiver gives up at the first error (try_collect)
    receiver,  \* "open", "dropped" or "finished"
    received,  \* the results received, in order
    asked      \* every chunk the controller has asked for (history)

vars == <<taken, errs, thread, buffer, tasks, channel, strict, receiver, received, asked>>

Frames == 0..(VideoLen - 1)

(* A request: the k-th the controller makes at a frame.                     *)
Request == [frame : Frames, k : Nat, start : Starts]

(* A result: a SignedInterval, why there is none, or a stream error.        *)
Refused == {"OutOfRange", "InvalidChunkSize", "Jwk"}
Answer == [to : Request, outcome : {"signed"}, stop : Nat, frames : Seq(Frames)]
          \cup [to : Request, outcome : Refused]
StreamError == [outcome |-> "Stream"]
Result == Answer \cup {StreamError}

Task == [frame : Frames, context : Seq(Frames), todo : Seq(Request)]

-----------------------------------------------------------------------------
(* The video.                                                              *)

Timestamp(n) == Offset + Pts(Rate, n)
EndTime(n) == Timestamp(n + 1)

-----------------------------------------------------------------------------
(* The signing thread.                                                     *)

Init ==
    /\ taken = 0 /\ errs = 0
    /\ thread = "peek"
    /\ buffer = <<>>
    /\ tasks = <<>>
    /\ channel = <<>>
    /\ strict \in BOOLEAN
    /\ receiver = "open"
    /\ received = <<>>
    /\ asked = {}

(* An unbounded channel takes everything until its receiver is dropped.     *)
Sent(result) == IF receiver = "open" THEN Append(channel, result) ELSE channel

(* The first item tells the frame rate; if it is an error, the thread       *)
(* returns it to nobody (sign_pipeline.rs:300, the handle is dropped).      *)
Peek ==
    /\ thread = "peek"
    /\ \/ /\ thread' = "take"
          /\ UNCHANGED errs
       \/ /\ MaxErrs > 0
          /\ errs' = 1
          /\ thread' = "done"
    /\ UNCHANGED <<taken, buffer, tasks, channel, strict, receiver, received, asked>>

(* Mutated form of Popped: the buffer grows one too long.                   *)
PoppedLate == IF Len(buffer) > Capacity(Rate) THEN Tail(buffer) ELSE buffer

(* Mutated form of Popped: half a buffer counts as full.                    *)
PoppedEarly == IF 2 * Len(buffer) >= Capacity(Rate) THEN Tail(buffer) ELSE buffer

(* manage: a full buffer loses its oldest frame.                            *)
Popped == IF Len(buffer) = Capacity(Rate) THEN Tail(buffer) ELSE buffer

(* The for loop takes a frame, keeps it, and will ask the controller about  *)
(* it.                                                                      *)
TakeFrame ==
    /\ thread = "take" /\ receiver = "open"
    /\ taken < VideoLen
    /\ taken' = taken + 1
    /\ buffer' = Append(Popped, taken)
    /\ thread' = "ask"
    /\ UNCHANGED <<errs, tasks, channel, strict, receiver, received, asked>>

(* It takes an error, which takes no frame of the video with it but pushes  *)
(* one out of a full buffer, and sends it on.                               *)
TakeError ==
    /\ thread = "take" /\ receiver = "open"
    /\ taken > 0 /\ errs < MaxErrs
    /\ errs' = errs + 1
    /\ buffer' = Popped
    /\ channel' = Sent(StreamError)
    /\ UNCHANGED <<taken, thread, tasks, strict, receiver, received, asked>>

(* It takes a frame or an error and stops, since nobody receives any more.  *)
TakeLast ==
    /\ thread = "take" /\ receiver # "open"
    /\ \/ taken < VideoLen /\ taken' = taken + 1 /\ UNCHANGED errs
       \/ taken > 0 /\ errs < MaxErrs /\ errs' = errs + 1 /\ UNCHANGED taken
    /\ thread' = "done"
    /\ UNCHANGED <<buffer, tasks, channel, strict, receiver, received, asked>>

(* The video is over.                                                       *)
TakeNone ==
    /\ thread = "take"
    /\ taken = VideoLen
    /\ thread' = "done"
    /\ UNCHANGED <<taken, errs, buffer, tasks, channel, strict, receiver, received, asked>>

(* What the controller may ask for: nothing, a chunk, or two.               *)
Wishes == { <<>> } \cup { <<s>> : s \in Starts } \cup { <<s, t>> : s \in Starts, t \in Starts }

(* request_chunks: the controller is awaited, and a task gets its answer    *)
(* with the buffer as it was for this frame.                                *)
Ask ==
    /\ thread = "ask"
    /\ \E wish \in Wishes :
         LET n == taken - 1
             todo == [ k \in 1..Len(wish) |-> [frame |-> n, k |-> k, start |-> wish[k]] ]
         IN  /\ Cardinality(asked) + Len(wish) <= MaxAsks
             /\ asked' = asked \cup Range(todo)
             /\ tasks' = Append(tasks, [frame |-> n, context |-> buffer, todo |-> todo])
    /\ thread' = "take"
    /\ UNCHANGED <<taken, errs, buffer, channel, strict, receiver, received>>

-----------------------------------------------------------------------------
(* The signing tasks.                                                      *)

(* sign, up to the call of the signer.                                      *)
RefusalOf(t, req) ==
    Refusal(req.start, EndTime(t.frame), Offset, Timestamp(t.context[1]))

KeyFails ==
    Cardinality({ r \in Range(received) \cup Range(channel) : r.outcome = "Jwk" })

(* The SignedInterval: the start is kept, both ends floored to milliseconds.*)
SignedAs(t, req) ==
    [ to |-> req, outcome |-> "signed", stop |-> FloorMillis(EndTime(t.frame)),
      frames |-> SubSeq(t.context,
                   StartIdx(Rate, req.start, Timestamp(t.context[1])) + 1,
                   EndIdx(Rate, Len(t.context), EndTime(t.frame))) ]

(* What may come of a request: a refusal, a signature, or the failure of    *)
(* the key storage.                                                         *)
Answers(t, req) ==
    IF RefusalOf(t, req) # "none"
      THEN { [to |-> req, outcome |-> RefusalOf(t, req)] }
      ELSE { SignedAs(t, req) }
           \cup { a \in { [to |-> req, outcome |-> "Jwk"] } : KeyFails < MaxKeyFails }

(* The task signs its next chunk, one after the other, and sends the result.*)
Sign(j) ==
    /\ tasks[j].todo # <<>>
    /\ \E result \in Answers(tasks[j], Head(tasks[j].todo)) : channel' = Sent(result)
    /\ tasks' = [tasks EXCEPT ![j].todo = Tail(@)]
    /\ UNCHANGED <<taken, errs, thread, buffer, strict, receiver, received, asked>>

-----------------------------------------------------------------------------
(* The receiver.                                                           *)

(* Mutated form of SendersLeft: only the thread's own sender counts.        *)
SendersLeftThread == thread # "done"

(* Mutated form of SendersLeft: a task keeps its clone for good.            *)
SendersLeftForGood == thread # "done" \/ tasks # <<>>

(* The thread holds a sender, and each task a clone until it is through.    *)
SendersLeft == thread # "done" \/ \E j \in DOMAIN tasks : tasks[j].todo # <<>>

Receive ==
    /\ receiver = "open"
    /\ channel # <<>>
    /\ received' = Append(received, Head(channel))
    /\ IF strict /\ Head(channel).outcome # "signed"
         THEN receiver' = "dropped" /\ channel' = <<>>
         ELSE receiver' = receiver  /\ channel' = Tail(channel)
    /\ UNCHANGED <<taken, errs, thread, buffer, tasks, strict, asked>>

(* The stream is over when the channel is empty and every sender is gone.   *)
ReceiveNone ==
    /\ receiver = "open"
    /\ channel = <<>>
    /\ ~ SendersLeft
    /\ receiver' = "finished"
    /\ UNCHANGED <<taken, errs, thread, buffer, tasks, channel, strict, received, asked>>

-----------------------------------------------------------------------------
Next ==
    \/ Peek \/ TakeFrame \/ TakeError \/ TakeLast \/ TakeNone \/ Ask
    \/ \E j \in DOMAIN tasks : Sign(j)
    \/ Receive \/ ReceiveNone

Spec == Init /\ [][Next]_vars

(* The video goes on, the controller and the key storage answer, the        *)
(* runtime runs every spawned task and the receiver keeps receiving.        *)
FairSpec ==
    /\ Spec
    /\ WF_vars(Peek \/ TakeFrame \/ TakeError \/ TakeLast \/ TakeNone \/ Ask)
    /\ \A j \in 1..VideoLen : WF_vars(j \in DOMAIN tasks /\ Sign(j))
    /\ WF_vars(Receive \/ ReceiveNone)

-----------------------------------------------------------------------------
(* Properties.                                                             *)

TypeOK ==
    /\ taken \in 0..VideoLen /\ errs \in 0..MaxErrs
    /\ thread \in {"peek", "take", "ask", "done"}
    /\ buffer \in Seq(Frames) /\ Len(buffer) <= Capacity(Rate)
    /\ tasks \in Seq(Task)
    /\ channel \in Seq(Result) /\ received \in Seq(Result)
    /\ strict \in BOOLEAN
    /\ receiver \in {"open", "dropped", "finished"}
    /\ asked \subseteq Request

(* RecentContext: a task works on exactly the last frames up to its own, as *)
(* many as a chunk may need or the video has had: none skipped by the       *)
(* errors in between, none added by the frames that came while it waited.   *)
LastFrames(f, n) == [ i \in 1..n |-> f - n + i ]
Kept(f) == IF f + 1 < Capacity(Rate) THEN f + 1 ELSE Capacity(Rate)

RecentContext ==
    \A j \in DOMAIN tasks : tasks[j].context = LastFrames(tasks[j].frame, Kept(tasks[j].frame))

(* What makes it so: the buffer always holds the latest frames, and never   *)
(* lacks one that is due except for the frame that a string of errors has   *)
(* pushed out, which the next frame would have pushed out in any case.      *)
RecentBuffer ==
    thread # "done" =>
        /\ buffer = LastFrames(taken - 1, Len(buffer))
        /\ \/ Len(buffer) = Kept(taken - 1)
           \/ /\ thread # "ask"
              /\ Len(buffer) = Capacity(Rate) - 1
              /\ taken >= Capacity(Rate)
        /\ thread = "ask" => taken > 0

(* FaithfulFile: every signature received was asked for, at the frame it    *)
(* ends with, and was made over the frames presented from its start on, all *)
(* of them and in order.                                                    *)
FaithfulFile ==
    \A r \in Range(received) : r.outcome = "signed" =>
        LET within == { n \in 0..(r.to.frame) : r.to.start <= Timestamp(n) }
        IN  /\ r.to \in asked
            /\ Range(r.frames) = within
            /\ Len(r.frames) = Cardinality(within)
            /\ \A i, k \in DOMAIN r.frames : i < k => r.frames[i] < r.frames[k]

(* Accounted: when the stream is over every request has been answered       *)
(* exactly once, nothing else has been, and every error after the first     *)
(* frame has been passed on, so that collecting without an error means a    *)
(* complete file; unless the first item of all is an error, which the peek  *)
(* keeps to itself (sign_pipeline.rs:322).                                  *)
AnswersTo(req, results) ==
    { k \in DOMAIN results : results[k].outcome # "Stream" /\ results[k].to = req }
ErrorsIn(results) == { k \in DOMAIN results : results[k].outcome = "Stream" }

Accounted ==
    receiver = "finished" =>
        /\ \A req \in asked : \E k \in DOMAIN received : AnswersTo(req, received) = {k}
        /\ \A k \in DOMAIN received : k \in ErrorsIn(received) \/ received[k].to \in asked
        /\ taken > 0 => Cardinality(ErrorsIn(received)) = errs

(* StreamEnds: whoever keeps receiving sees the end of the stream or the    *)
(* error it stops at.                                                       *)
StreamEnds == <>(receiver # "open")
=============================================================================
