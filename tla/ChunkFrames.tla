---------------------------- MODULE ChunkFrames ----------------------------
(***************************************************************************)
(* One chunk from signer to verifier: which frames of the video go into    *)
(* the signature (manager.rs, sign::FrameManager::sign), what of the       *)
(* request reaches the signature file, and which frames the verifier       *)
(* gathers for it (manager.rs, sigs_iter, verify_sig and with_frames).     *)
(* Both sides convert between milliseconds and frame indexes on their own, *)
(* and a chunk verifies only if they arrive at the same frames.            *)
(*                                                                         *)
(* The video is untouched, both pipelines start at the same offset and     *)
(* deliver every frame from there.  Frames are numbered from 0, the first  *)
(* one delivered; FrameIter moves the timestamps so that it is presented   *)
(* at the offset.  `last` is the frame at which the controller asks for    *)
(* the chunk.                                                              *)
(***************************************************************************)
EXTENDS SignRange, FiniteSets, FiniteSetsExt

CONSTANTS Rates,     \* the frame rates to try
          Offsets,   \* the start offsets of the pipelines, in ticks
          Starts,    \* the times, in ticks, at which a requested chunk starts
          MaxFrame   \* bound: the number of the last frame of the video

ASSUME ChunkFramesAssumption ==
    /\ \A r \in Rates : r.frames \in Nat \ {0} /\ r.seconds \in Nat \ {0}
    /\ Offsets \subseteq Nat /\ Starts \subseteq Nat
    /\ MaxFrame \in Nat

VARIABLES rate,   \* the frame rate of the video
          offset, \* PipeState.offset
          last,   \* the frame being signed
          start,  \* ChunkSigner.start
          phase,  \* "asked", "signed", "refused" or "verified"
          signed, \* the frames that went into the signature
          entry,  \* the SignedInterval of the file: start and stop
          answer  \* what the verifier makes of the entry

vars == <<rate, offset, last, start, phase, signed, entry, answer>>

NoAnswer == [size_ok |-> FALSE, frames |-> {}]

(* Frame::get_timestamp.                                                    *)
Timestamp(n) == offset + Pts(rate, n)

-----------------------------------------------------------------------------
(* Signing.                                                                *)

(* The first frame still in the buffer: manage keeps the last Capacity.     *)
ContextStart == IF last + 1 > Capacity(rate) THEN last + 1 - Capacity(rate) ELSE 0
ContextLen == last + 1 - ContextStart

(* FrameManager.time.end(): the frame lasts until the next one.             *)
EndTime == Timestamp(last + 1)

(* The buffer indexes that are signed: from, and up to but without.         *)
From == StartIdx(rate, start, Timestamp(ContextStart))
UpTo == EndIdx(rate, ContextLen, EndTime)

(* Mutated form of EntryTime: to the nearest millisecond.                   *)
EntryTimeRounded(t) == FloorMillis(t + Tick \div 2)

(* SignedInterval::new: u32 milliseconds.                                   *)
EntryTime(t) == FloorMillis(t)

Sign ==
    /\ phase = "asked"
    /\ IF Refusal(start, EndTime, offset, Timestamp(ContextStart)) = "none"
         THEN /\ phase' = "signed"
              /\ signed' = { ContextStart + i : i \in From .. (UpTo - 1) }
              /\ entry' = [start |-> EntryTime(start), stop |-> EntryTime(EndTime)]
         ELSE /\ phase' = "refused"
              /\ UNCHANGED <<signed, entry>>
    /\ UNCHANGED <<rate, offset, last, start, answer>>

-----------------------------------------------------------------------------
(* Verifying.                                                              *)

(* The frames at which get_signatures_at finds the entry.                   *)
Showing ==
    { n \in 0..MaxFrame :
        entry.start <= FloorMillis(Timestamp(n)) /\ FloorMillis(Timestamp(n)) < entry.stop }

(* Mutated form of ChunkLen: the end rounded down.                          *)
ChunkLenFloored ==
    (((entry.stop - offset) * rate.frames) \div SecondsOf(rate))
        - FramesCeil(rate, entry.start - offset)

(* verify_sig: end_idx - start_idx frames, from the frame first shown.      *)
ChunkLen == FramesCeil(rate, entry.stop - offset) - FramesCeil(rate, entry.start - offset)

Verify ==
    /\ phase = "signed"
    /\ Showing # {}
    /\ phase' = "verified"
    /\ answer' = [ size_ok |-> LengthAllowed(entry.stop - entry.start),
                   frames |-> Min(Showing) .. (Min(Showing) + ChunkLen - 1) ]
    /\ UNCHANGED <<rate, offset, last, start, signed, entry>>

-----------------------------------------------------------------------------
Init ==
    /\ rate \in Rates
    /\ offset \in Offsets
    /\ last \in 0..(MaxFrame - 1)
    /\ start \in Starts
    /\ phase = "asked"
    /\ signed = {}
    /\ entry = [start |-> 0, stop |-> 0]
    /\ answer = NoAnswer

Next == Sign \/ Verify

Spec == Init /\ [][Next]_vars

-----------------------------------------------------------------------------
(* Properties.                                                             *)

TypeOK ==
    /\ rate \in Rates /\ offset \in Offsets /\ last \in 0..MaxFrame /\ start \in Starts
    /\ phase \in {"asked", "signed", "refused", "verified"}
    /\ signed \subseteq 0..last
    /\ entry \in [start : Nat, stop : Nat]
    /\ answer.size_ok \in BOOLEAN /\ answer.frames \subseteq 0..MaxFrame

(* The start of the buffer is a whole number of ticks (nanoseconds): true   *)
(* of every buffer that still begins with the first frame.                  *)
ExactContext == (ContextStart * SecondsOf(rate)) % rate.frames = 0

(* SameFrames: the frames the verifier gathers for a chunk are the frames   *)
(* that were signed.                                                        *)
SameFrames == phase = "verified" => answer.frames = signed

(* SameFramesExact: so they are whenever the buffer of the signer begins at *)
(* a frame whose timestamp was not truncated, as it does for the first ten  *)
(* seconds of a video.                                                      *)
SameFramesExact == ExactContext => SameFrames

(* SpecFrames: the signed frames are those the format names (spec.md:372):  *)
(* every frame presented from the start of the entry up to its end.         *)
SpecFrames ==
    phase = "signed" /\ ExactContext =>
        signed = { n \in 0..last :
                     (entry.start - offset) * rate.frames <= n * SecondsOf(rate) }

(* SizeAgrees: the verifier accepts the length of every chunk that was      *)
(* signed, unless the chunk starts off a millisecond, for then the start is *)
(* floored in the file and not in the check of the signer (manager.rs:445): *)
(* what the file has may reach the maximum, by less than a millisecond.     *)
SizeAgrees ==
    phase = "verified" =>
        \/ answer.size_ok
        \/ /\ start % Tick # 0
           /\ MaxChunk <= entry.stop - entry.start
           /\ entry.stop - entry.start < MaxChunk + Tick
=============================================================================
