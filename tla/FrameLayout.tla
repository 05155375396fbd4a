---------------------------- MODULE FrameLayout ----------------------------
(***************************************************************************)
(* The bytes that are signed: Frame::cropped_buffer and                    *)
(* FrameWithAudio::cropped_buffer (frame/wrappers.rs) and                  *)
(* FrameBuffer::get_cropped_buffer (manager.rs).                           *)
(*                                                                         *)
(* A frame is [w, h, raw]: rows of Depth bytes a pixel, each of which      *)
(* GStreamer pads to a multiple of RowAlign bytes.  A frame with its audio *)
(* is [frame, audio], audio being a slice or None.                         *)
(***************************************************************************)
EXTENDS AudioBuffer

CONSTANTS Depth,       \* Frame::DEPTH: bytes of a pixel, 3 in the code
          RowAlign     \* what GStreamer pads rows to, 4 for this format

ASSUME LayoutAssumption == {Depth, RowAlign} \subseteq Nat \ {0}

(* plane_stride: the bytes from one row to the next in the plane.           *)
PlaneStride(w) == CeilOf(Depth * w, RowAlign) * RowAlign

(* Result<Vec<u8>, SigOperationError>.                                      *)
Bytes(b)  == [ok |-> TRUE,  bytes |-> b,    err |-> None]
Failed(e) == [ok |-> FALSE, bytes |-> <<>>, err |-> e]

(* Frame::cropped_buffer: the area must lie in the frame, and not be empty. *)
CropFits(f, pos, size) ==
    /\ pos.x + size.x <= f.w /\ pos.y + size.y <= f.h
    /\ size.x # 0 /\ size.y # 0

CroppedFrameSize(size) == Depth * size.x * size.y

(* Mutated form of CropRows: a row is as wide as the area.                  *)
CropRowsNarrow(f, pos, size) ==
    LET row == Depth * size.x
        start == Depth * (pos.x + pos.y * f.w)
    IN  [ k \in 1..(row * size.y) |-> f.raw[start + k] ]

(* The rows, copied one after the other at steps of the frame's width, as   *)
(* if no row was padded.                                                    *)
CropRows(f, pos, size) ==
    LET row   == Depth * size.x
        start == Depth * (pos.x + pos.y * f.w)
    IN  [ k \in 1..(row * size.y) |->
            f.raw[start + ((k - 1) \div row) * (Depth * f.w) + ((k - 1) % row) + 1] ]

(* FrameWithAudio::cropped_buffer_size.                                     *)
CroppedSize(fa, size, channels) ==
    CroppedFrameSize(size) +
        (IF fa.audio = None THEN 0 ELSE CroppedAudioSize(fa.audio, channels))

(* What writing src at the front of dest leaves there.                      *)
Overwrite(dest, src) ==
    [ k \in DOMAIN dest |-> IF k <= Len(src) THEN src[k] ELSE dest[k] ]

Zeros(n) == [ k \in 1..n |-> 0 ]

(* FrameWithAudio::cropped_buffer: both the frame and the audio are written *)
(* from the start of dest, the audio last; what neither reaches stays zero. *)
CroppedBuffer(fa, pos, size, channels) ==
    LET dest  == Zeros(CroppedSize(fa, size, channels))
        frame == Overwrite(dest, CropRows(fa.frame, pos, size))
    IN  CASE ~ CropFits(fa.frame, pos, size) -> Failed("InvalidCrop")
          [] CropFits(fa.frame, pos, size) /\ fa.audio = None -> Bytes(frame)
          [] OTHER -> IF ChannelsExist(channels)
                      THEN Bytes(Overwrite(frame, CroppedAudio(fa.audio, channels)))
                      ELSE Failed("InvalidChannels")

(* get_cropped_buffer: frame by frame, and the first error ends it.         *)
GetCroppedBuffer(frames, pos, size, channels) ==
    LET parts == [ k \in DOMAIN frames |-> CroppedBuffer(frames[k], pos, size, channels) ]
        bad   == SelectInSeq(parts, LAMBDA r : ~ r.ok)
    IN  IF bad # 0 THEN parts[bad]
        ELSE Bytes(FlattenSeq([ k \in DOMAIN parts |-> parts[k].bytes ]))
=============================================================================
