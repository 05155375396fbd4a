------------------------------- MODULE MCApps -------------------------------
(***************************************************************************)
(* Apps for TLC: four ticks a millisecond, chunks of 5ms to under 30ms, so *)
(* that a handful of frames is a video and the limits are in reach.        *)
(***************************************************************************)
EXTENDS Apps

Fps(frames, seconds) == [frames |-> frames, seconds |-> seconds]

Library(rate, frames, offset, controllers, last, tries) ==
    [rate |-> rate, frames |-> frames, offset |-> offset,
     controllers |-> controllers, last |-> last, tries |-> tries, app |-> FALSE]

App(rate, frames, last) ==
    [Library(rate, frames, 0, <<>>, last, TRUE) EXCEPT !.app = TRUE]

Alice(interval) == IntervalController("alice", interval)
Bob(interval)   == [IntervalController("bob", interval) EXCEPT !.area = "left"]
Within(c, from, to) == [c EXCEPT !.range = [start |-> from, end |-> to]]

MCJobs ==
    { Library(Fps(300, 1), 7, 0, << Alice(40) >>, TRUE, TRUE),
      Library(Fps(240, 1), 5, 0, << Alice(40), Bob(40) >>, TRUE, FALSE),
      Library(Fps(250, 1), 5, 0, << Alice(40), Bob(60) >>, FALSE, FALSE),
      Library(Fps(250, 1), 5, 40, << Alice(40) >>, TRUE, FALSE),
      Library(Fps(2105, 10), 4, 0, << Alice(40) >>, TRUE, FALSE),     \* crosses twice
      Library(Fps(2105, 10), 4, 40, << Alice(40) >>, TRUE, FALSE),    \* starts before the offset
      Library(Fps(300, 1), 5, 20, << Alice(40) >>, TRUE, TRUE),       \* offset off the interval
      Library(Fps(120, 1), 4, 0, << Alice(104) >>, TRUE, FALSE),      \* too long
      Library(Fps(300, 1), 1, 0, << Alice(40) >>, TRUE, TRUE),        \* too short
      Library(Fps(100, 1), 3, 0, << Alice(40) >>, TRUE, TRUE),        \* skips the first
      Library(Fps(300, 1), 6, 0, << Within(Alice(40), 41, 50) >>, TRUE, TRUE),
      Library(Fps(250, 1), 6, 0, << FnMutController("alice", 40) >>, TRUE, FALSE),
      Library(Fps(300, 1), 6, 0, << FnMutController("alice", 40) >>, TRUE, FALSE),  \* panics
      App(Fps(200, 3), 3, FALSE), App(Fps(250, 1), 3, TRUE),
      App(Fps(67, 1), 3, FALSE) }                                     \* off the millisecond

MCOutcomes == {"Verified", "Unresolved"}
=============================================================================
