------------------------------ MODULE SignFile ------------------------------
(***************************************************************************)
(* The signature file: SignedInterval and SignFile (file/signs.rs) over    *)
(* the interval list of rust_lapper, and the subtitles it is written as.   *)
(*                                                                         *)
(* Its times are whole milliseconds; an interval is [start, stop, val].    *)
(***************************************************************************)
EXTENDS FrameTime, Positions, Sequences, SequencesExt, FiniteSets

(* SignedInterval::new: as_millis_u32 of both ends.                         *)
SignedInterval(from, to, signature) ==
    [start |-> from \div Tick, stop |-> to \div Tick, val |-> signature]

(* start() and stop().                                                      *)
StartTime(i) == i.start * Tick
StopTime(i)  == i.stop * Tick

(* rust_lapper orders by start, then by stop.                               *)
Before(i, j) == i.start < j.start \/ (i.start = j.start /\ i.stop < j.stop)

EmptyFile == <<>>

(* Mutated form of Push: behind the last interval that starts before it.    *)
PushAfterStart(file, i) ==
    InsertAt(file, Cardinality({ k \in DOMAIN file : file[k].start <= i.start }) + 1, i)

(* push: where a binary search for the interval ends in the sorted list, in *)
(* front of those that equal it.                                            *)
Push(file, i) ==
    InsertAt(file, Cardinality({ k \in DOMAIN file : Before(file[k], i) }) + 1, i)

(* FromIterator, and what from_subtitles collects: sorted, and intervals    *)
(* that are equal stay in their order.                                      *)
FromIntervals(intervals) ==
    LET Ahead(j, k) == \/ Before(intervals[j], intervals[k])
                       \/ j < k /\ ~ Before(intervals[k], intervals[j])
        Place(k) == Cardinality({ j \in DOMAIN intervals : Ahead(j, k) }) + 1
    IN  [ p \in DOMAIN intervals |->
            intervals[CHOOSE k \in DOMAIN intervals : Place(k) = p] ]

(* Mutated form of SignaturesAt: the end belongs to the interval.           *)
SignaturesAtClosed(file, at) ==
    LET ms == at \div Tick
    IN  Kept(file, { k \in DOMAIN file : file[k].start < ms + 1 /\ file[k].stop >= ms })

(* get_signatures_at: those that overlap the millisecond.                   *)
SignaturesAt(file, at) ==
    LET ms == at \div Tick
    IN  Kept(file, { k \in DOMAIN file : file[k].start < ms + 1 /\ file[k].stop > ms })

-----------------------------------------------------------------------------
(* Subtitles: [from, to, text], in milliseconds.  The text is the signature *)
(* as JSON.  A presentation is an object without a tag: it is written with  *)
(* its credential when it is a definition, and read as one when there is a  *)
(* credential in it.                                                        *)

PresentationJson(p) ==
    IF p.kind = "def" THEN [id |-> p.id, jwt |-> p.id] ELSE [id |-> p.id]

PresentationFrom(o) ==
    [kind |-> IF "jwt" \in DOMAIN o THEN "def" ELSE "ref", id |-> o.id]

Json(sig) ==
    [sig EXCEPT !.presentation = PresentationJson(@)]

FromJson(o) ==
    [o EXCEPT !.presentation = PresentationFrom(@)]

AsSubtitle(i) == [from |-> i.start, to |-> i.stop, text |-> Json(i.val)]

Written(file) == [ k \in DOMAIN file |-> AsSubtitle(file[k]) ]

(* Timestamp from an SrtTimestamp.                                          *)
FromSrt(ms) == ms * Tick

FromSubtitle(s) == SignedInterval(FromSrt(s.from), FromSrt(s.to), FromJson(s.text))

(* from_file of a file that parses; one signature that does not, and there  *)
(* is no file.                                                              *)
Read(subtitles) ==
    FromIntervals([ k \in DOMAIN subtitles |-> FromSubtitle(subtitles[k]) ])
=============================================================================
