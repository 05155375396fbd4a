----------------------------- MODULE MCSession -----------------------------
(***************************************************************************)
(* Session for TLC: 300 frames a second, of which a controller is to sign  *)
(* those from the third to the eighth.                                     *)
(***************************************************************************)
EXTENDS Session

MCJobs ==
    { [ rate |-> [frames |-> 300, seconds |-> 1], frames |-> 9, offset |-> 0,
        controllers |-> << [ IntervalController("alice", 40)
                               EXCEPT !.range = [start |-> 26, end |-> 106] ] >>,
        last |-> TRUE, tries |-> TRUE, app |-> FALSE ] }
=============================================================================
