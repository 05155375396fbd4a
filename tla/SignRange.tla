----------------------------- MODULE SignRange -----------------------------
(***************************************************************************)
(* Which frames of its buffer the signer signs for a chunk, and when it    *)
(* refuses: the checks and the index arithmetic of                         *)
(* sign::FrameManager::sign and get_chunk_start (video/manager.rs).        *)
(*                                                                         *)
(* A chunk asked for at a frame runs from `start` to the end of that       *)
(* frame; ctxTime is the timestamp of the first frame in the buffer and    *)
(* ctxLen how many frames it holds.                                        *)
(***************************************************************************)
EXTENDS FrameTime

(* What sign answers before it signs anything.                              *)
Refusal(start, endTime, offset, ctxTime) ==
    IF FloorMillis(endTime) < start THEN "OutOfRange"
    ELSE IF ~ LengthAllowed(FloorMillis(endTime) - start) THEN "InvalidChunkSize"
    ELSE IF start < offset \/ FloorMillis(start) < ctxTime THEN "OutOfRange"
    ELSE "none"

(* Mutated form of StartIdx: the fraction of a frame is dropped.            *)
StartIdxFloored(r, start, ctxTime) ==
    ((FloorMillis(start) - ctxTime) * r.frames) \div SecondsOf(r)

(* get_chunk_start: the index in the buffer of the first frame to sign.     *)
StartIdx(r, start, ctxTime) == FramesCeil(r, FloorMillis(start) - ctxTime)

(* Mutated form of EndIdx: the frame the chunk was asked for at is left out.*)
EndIdxExclusive(r, ctxLen, endTime) == ctxLen - 1 - ExcessFrames(r, endTime)

(* Mutated form of EndIdx: one past the buffer.                             *)
EndIdxPastBuffer(r, ctxLen, endTime) == ctxLen + 1 - ExcessFrames(r, endTime)

(* The index after the last frame to sign.                                  *)
EndIdx(r, ctxLen, endTime) == ctxLen - ExcessFrames(r, endTime)
=============================================================================
