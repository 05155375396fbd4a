------------------------------ MODULE Pipeline ------------------------------
(***************************************************************************)
(* The states of a GStreamer pipeline and the blocking changes between     *)
(* them (pipeline/wrappers.rs), as sets of possible outcomes.              *)
(*                                                                         *)
(* An outcome says what the call returned and the state it leaves the      *)
(* pipeline in.  GStreamer may refuse or not finish a change in time; what *)
(* it does is external, what the code makes of it is modelled.             *)
(***************************************************************************)
EXTENDS Naturals

GstState == {"Null", "Ready", "Paused", "Playing"}

Outcome == [res : {"ok", "error", "panic"}, state : GstState]

Outcomes(res, states) == [res : {res}, state : states]

(* set_state_blocking: Success and NoPreroll at once or within the second   *)
(* are ok.  Otherwise the pipeline is set to Null before the error is       *)
(* returned, and when that fails too, the call panics; a change to Null     *)
(* itself just fails.                                                       *)
SetStateBlocking(from, target, mayFail) ==
    Outcomes("ok", {target}) \cup
    (IF ~ mayFail THEN {}
     ELSE IF target = "Null" THEN Outcomes("error", {from})
     ELSE Outcomes("error", {"Null"}) \cup Outcomes("panic", {from}))

(* call()? : the next call is only made when the one before returned Ok.    *)
AndThen(outcomes, target, mayFail) ==
    UNION { IF o.res = "ok" THEN SetStateBlocking(o.state, target, mayFail) ELSE {o}
            : o \in outcomes }

(* Mutated form of Close: a pipeline that is not playing is left alone.     *)
CloseIfPlaying(from, mayFail) ==
    IF from = "Playing" THEN SetStateBlocking(from, "Null", mayFail)
    ELSE Outcomes("ok", {from})

(* close: nothing when Null; from Playing by way of Paused and Ready.       *)
Close(from, mayFail) ==
    CASE from = "Null"    -> Outcomes("ok", {"Null"})
      [] from = "Playing" ->
            AndThen(AndThen(SetStateBlocking(from, "Paused", mayFail), "Ready", mayFail),
                    "Null", mayFail)
      [] OTHER            -> SetStateBlocking(from, "Null", mayFail)

(* seek_accurate: a flushing seek, refused or not.                          *)
SeekAccurate(from, mayFail) ==
    Outcomes("ok", {from}) \cup (IF mayFail THEN Outcomes("error", {from}) ELSE {})

(* PipeState::new and the play of try_into_iter: pause, seek when there is  *)
(* an offset, play.                                                         *)
Open(offset, mayFail) ==
    LET paused == SetStateBlocking("Null", "Paused", mayFail)
        sought == UNION { IF o.res = "ok" /\ offset > 0
                          THEN SeekAccurate(o.state, mayFail) ELSE {o} : o \in paused }
    IN  AndThen(sought, "Playing", mayFail)
=============================================================================
