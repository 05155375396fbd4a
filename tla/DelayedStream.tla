--------------------------- MODULE DelayedStream ---------------------------
(***************************************************************************)
(* utils/delayed_stream.rs: a stream adaptor that holds back the last      *)
(* items of its source in a DelayBuffer, so that whoever reads it sees     *)
(* every item together with the items that follow.  Verification uses it   *)
(* to have the whole of a chunk at hand when the first frame of the chunk  *)
(* is shown.                                                               *)
(*                                                                         *)
(* One action is one call of poll_next on a source that is ready; a call   *)
(* on a pending source changes nothing and is a stuttering step.  The      *)
(* source is fused, as FrameIter is: after its end it stays ended.         *)
(***************************************************************************)
EXTENDS Naturals, Sequences

CONSTANTS Item,       \* the items of the source
          BufferLen,  \* the `len` of DelayBuffer::new
          MaxItems    \* bound: the items one behaviour takes from the source

(* verify passes ceil(fps * 10s), which is 0 only for an empty source.  A    *)
(* buffer of length 0 would never count as filled again after its first     *)
(* item and would hold everything back until the end.                       *)
ASSUME LenAssumption == BufferLen \in Nat \ {0}
ASSUME MaxItemsAssumption == MaxItems \in Nat

VARIABLES source,   \* every item taken from the source so far (history)
          ended,    \* the source has answered None
          buf,      \* DelayBuffer.buf, oldest item first
          full,     \* every Delayed::Full(latest, future) returned (history)
          done      \* poll_next has answered None

vars == <<source, ended, buf, full, done>>

Pair == [latest : Item, future : Seq(Item)]

-----------------------------------------------------------------------------
(* DelayBuffer.                                                            *)

IsFilled == Len(buf) = BufferLen

(* Mutated form of Enqueued: the popped item stays in the buffer.           *)
EnqueuedKeepsOldest(it) == Append(buf, it)

(* enqueue: the oldest item leaves a filled buffer, the new one joins it.   *)
Enqueued(it) == Append(IF IsFilled THEN Tail(buf) ELSE buf, it)

-----------------------------------------------------------------------------
Init ==
    /\ source = <<>>
    /\ ended = FALSE
    /\ buf = <<>>
    /\ full = <<>>
    /\ done = FALSE

(* Mutated form of PollItem: the future is copied before the push.          *)
PollItemStaleFuture(it) ==
    /\ ~ ended
    /\ Len(source) < MaxItems
    /\ source' = Append(source, it)
    /\ buf' = Enqueued(it)
    /\ full' = IF IsFilled
                 THEN Append(full, [latest |-> Head(buf), future |-> Tail(buf)])
                 ELSE full
    /\ UNCHANGED <<ended, done>>

(* poll_next, the source yields an item: Delayed::Partial while nothing is  *)
(* popped (the readers of this crate drop it), Delayed::Full otherwise.     *)
PollItem(it) ==
    /\ ~ended
    /\ Len(source) < MaxItems
    /\ source' = Append(source, it)
    /\ buf' = Enqueued(it)
    /\ full' = IF IsFilled
                 THEN Append(full, [latest |-> Head(buf), future |-> Enqueued(it)])
                 ELSE full
    /\ UNCHANGED <<ended, done>>

(* Mutated form of PollEnd: None at once, the buffer dropped.               *)
PollEndDropsBuffer ==
    /\ ended' = TRUE
    /\ buf' = <<>>
    /\ done' = TRUE
    /\ UNCHANGED <<source, full>>

(* Mutated form of PollEnd: the front is read but never popped.             *)
PollEndPeeks ==
    /\ ended' = TRUE
    /\ done' = (buf = <<>>)
    /\ UNCHANGED <<source, buf, full>>

(* poll_next, the source is at its end: what is left comes out, oldest      *)
(* first, each item with the rest of the buffer; then None.                 *)
PollEnd ==
    /\ ended' = TRUE
    /\ \/ /\ buf # <<>>
          /\ full' = Append(full, [latest |-> Head(buf), future |-> Tail(buf)])
          /\ buf' = Tail(buf)
          /\ UNCHANGED <<source, done>>
       \/ /\ buf = <<>>
          /\ done' = TRUE
          /\ UNCHANGED <<source, buf, full>>

Next == (\E it \in Item : PollItem(it)) \/ PollEnd

Spec == Init /\ [][Next]_vars

(* A reader that has seen the source end keeps polling until None, as the   *)
(* for_each over the verified frames does.                                  *)
FairSpec == Spec /\ WF_vars(ended /\ PollEnd)

-----------------------------------------------------------------------------
(* Properties.                                                             *)

TypeOK ==
    /\ source \in Seq(Item) /\ Len(source) <= MaxItems
    /\ ended \in BOOLEAN
    /\ buf \in Seq(Item)
    /\ full \in Seq(Pair)
    /\ done \in BOOLEAN

(* The future of the i-th pair is as long as the delay allows and the       *)
(* source provides.                                                         *)
FutureLen(i) == IF i + BufferLen < Len(source) THEN BufferLen ELSE Len(source) - i

IsWindow(i) ==
    /\ full[i].latest = source[i]
    /\ Len(full[i].future) = FutureLen(i)
    /\ \A j \in 1..FutureLen(i) : full[i].future[j] = source[i + j]

(* WindowExact: the i-th item that comes out is the i-th item of the        *)
(* source, with exactly the BufferLen items that follow it, or all of them  *)
(* near the end: none skipped, repeated or out of order.  This is what lets *)
(* verify_sig index its window by frame numbers.                            *)
WindowExact == \A i \in 1..Len(full) : IsWindow(i)

(* NothingLost: when the stream answers None every item of the source has   *)
(* come out (delayed_stream.rs:106, "all elements will be returned").       *)
NothingLost == done => ended /\ Len(full) = Len(source)

(* What makes the windows exact: together, what came out and what is held   *)
(* back are the whole source, and nothing comes out before the buffer has   *)
(* filled or the source has ended.                                          *)
Whole ==
    /\ Len(source) = Len(full) + Len(buf)
    /\ \A j \in 1..Len(buf) : buf[j] = source[Len(full) + j]

HeldBack ==
    /\ Len(buf) <= BufferLen
    /\ ~ ended /\ full # <<>> => IsFilled
    /\ done => ended /\ buf = <<>>

IInv == TypeOK /\ Whole /\ HeldBack /\ WindowExact

(* ImplementsWindow: the stream implements the bufferless SlidingWindow:    *)
(* items come out exactly when due, and once the source has ended a reader  *)
(* that keeps polling receives them all.                                    *)
Window == INSTANCE SlidingWindow WITH Len0 <- BufferLen, out <- full
ImplementsWindow == Window!Spec
=============================================================================
