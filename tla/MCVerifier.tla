----------------------------- MODULE MCVerifier -----------------------------
(***************************************************************************)
(* Verifier for TLC: 20 frames a second, chunks of 50ms to under 200ms, so *)
(* that the stream holds back four items, and five frames at most.          *)
(***************************************************************************)
EXTENDS Verifier

MCRate == [frames |-> 20, seconds |-> 1]

Def(from, to, id, key, pres) ==
    [start |-> from, stop |-> to, id |-> id, key |-> key, pres |-> pres, fits |-> TRUE]
Ref(from, to, id, key) == Def(from, to, id, key, "ref")

(* A definition and references to it, one chunk off the frame boundaries.   *)
Ordinary == << Def(0, 100, "a", "k", "good"), Ref(120, 230, "a", "k") >>

(* The defining chunk is too long; a reference overlaps it.                 *)
TooLong == << Def(0, 200, "a", "k", "good"), Ref(100, 250, "a", "k") >>

(* Two signers at once, one forged; a reference by a third party.           *)
TwoSigners == << Def(50, 150, "a", "k", "forged"), Def(50, 150, "b", "k", "good"),
                 Ref(100, 200, "b", "m") >>

(* A presentation with a bad credential, an area beyond the frame.          *)
BadCredential == << Def(50, 150, "a", "k", "bad_credential"),
                    [Def(50, 150, "b", "k", "good") EXCEPT !.fits = FALSE],
                    Ref(150, 250, "b", "k") >>

MCFiles == { Ordinary, TooLong, TwoSigners, BadCredential }
OrdinaryOnly == { Ordinary }
=============================================================================
