--------------------------- MODULE SlidingWindow ---------------------------
(***************************************************************************)
(* What a delayed stream promises its reader, with no buffer in sight: the *)
(* items of a source come out one by one and in order, each with the (at   *)
(* most) Len items that follow it.  An item comes out only when its Len    *)
(* successors have arrived or the source has ended, and once the source    *)
(* has ended every item comes out.  DelayedStream implements this.         *)
(***************************************************************************)
EXTENDS Naturals, Sequences

CONSTANTS Item,     \* the items of the source
          Len0,     \* how many items each one is delayed by
          MaxItems  \* bound: the items one behaviour takes from the source

VARIABLES source,   \* every item the source has produced
          ended,    \* the source has reported its end
          out       \* the pairs [latest, future] given to the reader

vars == <<source, ended, out>>

WindowAt(s, i) ==
    [ latest |-> s[i],
      future |-> SubSeq(s, i + 1, IF i + Len0 < Len(s) THEN i + Len0 ELSE Len(s)) ]

Init == source = <<>> /\ ended = FALSE /\ out = <<>>

(* The next item may come out of s when all it waits for is known.          *)
Due(s, over) ==
    LET i == Len(out) + 1
    IN  i <= Len(s) /\ (over \/ i + Len0 <= Len(s))

Release(s) == out' = Append(out, WindowAt(s, Len(out) + 1))

Arrive ==
    /\ ~ended
    /\ Len(source) < MaxItems
    /\ \E it \in Item : source' = Append(source, it)
    /\ IF Due(source', FALSE) THEN Release(source') ELSE UNCHANGED out
    /\ UNCHANGED ended

Drain ==
    /\ ended' = TRUE
    /\ UNCHANGED source
    /\ IF Due(source, TRUE) THEN Release(source) ELSE UNCHANGED out

Next == Arrive \/ Drain

(* The safety part: what may come out; and with fairness, that it does.      *)
SafeSpec == Init /\ [][Next]_vars
Spec == SafeSpec /\ WF_vars(ended /\ Drain)
=============================================================================
