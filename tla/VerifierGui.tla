---------------------------- MODULE VerifierGui ----------------------------
(***************************************************************************)
(* The verifier's GUI (verifier-gui): it opens the video of the session    *)
(* and the file that was written, and shows with every frame a list of its *)
(* signatures, one label and colour for each.                              *)
(*                                                                         *)
(* How a signature is judged is module Verifier's: here it is Loading, and *)
(* at some moment something else, for good.                                *)
(***************************************************************************)
EXTENDS Session

CONSTANTS Outcomes,    \* what a signature may turn out to be
          MaxJudged    \* bound: signatures that turn out to be something

VARIABLES
    vview,      \* AppData::view: "menu" or "video"
    chosen,     \* what of VideoOptions was chosen: "src", "signfile"
    opened,     \* the file that is verified, or None
    vplayer,    \* watch_video: "none", "running", "dead" or "done"
    seen,       \* how many frames it took from the stream
    verdicts,   \* what the signatures of the file turned out to be
    vidle,      \* the callbacks the UI thread has not run yet
    vshown,     \* VideoState::curr_frame, or 0
    sigs,       \* VideoOptions::sigs
    labels      \* what the list shows for each of them

verifierVars == <<vview, chosen, opened, vplayer, seen, verdicts, vidle, vshown, sigs, labels>>

ASSUME OutcomesAssumption == MaxJudged \in Nat /\ "Loading" \notin Outcomes

InitVerifierGui ==
    /\ vview = "menu" /\ chosen = {} /\ opened = None /\ vplayer = "none"
    /\ seen = 0 /\ verdicts = <<>> /\ vidle = <<>> /\ vshown = 0 /\ sigs = <<>> /\ labels = <<>>

-----------------------------------------------------------------------------
(* SigState and its label.                                                 *)

(* Mutated form of Same: the subject is left out.                           *)
SameOutcome(s, t) == s.state # "Loading" /\ s.state = t.state

(* Data::same for SigState: what Loading is compared with is never the same,*)
(* and the subject counts where there is one.                               *)
Same(s, t) ==
    /\ s.state # "Loading" /\ s.state = t.state
    /\ s.state \in {"Verified", "Unverified"} => s.who = t.who

(* The label: the name in the credential where there is one, and a colour.  *)
Label(s) ==
    [ text |-> IF s.state \in {"Verified", "Unverified"} THEN s.who ELSE s.state,
      colour |-> CASE s.state = "Loading" -> "purple"
                   [] s.state = "Verified" -> "green"
                   [] s.state \in {"Invalid", "Unverified"} -> "red"
                   [] s.state = "Unresolved" -> "yellow" ]

(* The list hands each child its new state; a child that takes it for the   *)
(* same as before does not look at it.                                      *)
Relabelled(new) ==
    [ i \in DOMAIN new |->
        IF i \in DOMAIN sigs /\ Same(sigs[i], new[i]) THEN labels[i] ELSE Label(new[i]) ]

-----------------------------------------------------------------------------

(* Delegate::command, OPEN_FILE.                                            *)
VChooseVideo ==
    /\ vview = "menu" /\ vplayer = "none"
    /\ chosen' = chosen \cup {"src"}
    /\ UNCHANGED <<vview, opened, vplayer, seen, verdicts, vidle, vshown, sigs, labels>>

(* Delegate::command, SAVE_FILE_AS: the menu asks for the file to verify    *)
(* with a panel for saving.                                                 *)
VChooseFile ==
    /\ vview = "menu" /\ vplayer = "none"
    /\ chosen' = chosen \cup {"signfile"}
    /\ UNCHANGED <<vview, opened, vplayer, seen, verdicts, vidle, vshown, sigs, labels>>

(* watch_video up to its for_each: it opens the client, the video and the   *)
(* file; any of them may fail, and does when it was not chosen.             *)
VWatchVideo ==
    \/ vplayer' = "dead" /\ UNCHANGED opened
    \/ /\ chosen = {"src", "signfile"}
       /\ vplayer' = "running" /\ opened' = Read(disk)

(* The view changes to the video, whose widget spawns watch_video; whatever *)
(* comes of it, the view stays.                                             *)
VGoToVideo ==
    /\ vview = "menu" /\ disk # None /\ vplayer = "none"
    /\ vview' = "video"
    /\ VWatchVideo
    /\ UNCHANGED <<chosen, seen, verdicts, vidle, vshown, sigs, labels>>

(* A signature's state as the stream hands it out with a frame.             *)
SigState(i) ==
    [ who |-> i.val.presentation.id,
      state |-> IF i \in DOMAIN verdicts THEN verdicts[i] ELSE "Loading" ]

SigsOf(k) ==
    LET showing == SignaturesAt(opened, FrameState(job, k).time.start)
    IN  [ n \in DOMAIN showing |-> SigState(showing[n]) ]

(* for_each over the stream: a frame is left for the UI thread with its     *)
(* signatures, an error is passed over.                                     *)
VNextFrame ==
    /\ vplayer = "running" /\ seen < job.frames /\ Len(vidle) < MaxIdle
    /\ seen' = seen + 1
    /\ \/ vidle' = Append(vidle, [frame |-> seen + 1, sigs |-> SigsOf(seen + 1)])
       \/ UNCHANGED vidle
    /\ UNCHANGED <<vview, chosen, opened, vplayer, verdicts, vshown, sigs, labels>>

(* A verification task ends for a signature of a frame that was taken.      *)
VJudge(i, outcome) ==
    /\ vplayer = "running" /\ i \notin DOMAIN verdicts
    /\ Cardinality(DOMAIN verdicts) < MaxJudged
    /\ \E k \in 1..seen : Contains(SignaturesAt(opened, FrameState(job, k).time.start), i)
    /\ verdicts' = [ j \in DOMAIN verdicts \cup {i} |->
                        IF j = i THEN outcome ELSE verdicts[j] ]
    /\ UNCHANGED <<vview, chosen, opened, vplayer, seen, vidle, vshown, sigs, labels>>

(* The stream is over: the menu comes back, as the last callback.           *)
VDone ==
    /\ vplayer = "running" /\ seen = job.frames
    /\ vplayer' = "done"
    /\ vidle' = Append(vidle, [frame |-> 0, sigs |-> <<>>])
    /\ UNCHANGED <<vview, chosen, opened, seen, verdicts, vshown, sigs, labels>>

(* The UI thread runs the oldest callback.                                  *)
VRunIdle ==
    /\ vidle # <<>>
    /\ vidle' = Tail(vidle)
    /\ LET next == Head(vidle)
       IN  \/ /\ next.frame = 0
              /\ vview' = "menu" /\ UNCHANGED <<vshown, sigs, labels>>
           \/ /\ next.frame # 0
              /\ vshown' = next.frame /\ sigs' = next.sigs
              /\ labels' = Relabelled(next.sigs)
              /\ UNCHANGED vview
    /\ UNCHANGED <<chosen, opened, vplayer, seen, verdicts>>

NextVerifierGui ==
    \/ VChooseVideo \/ VChooseFile \/ VGoToVideo
    \/ VNextFrame \/ VDone \/ VRunIdle
    \/ opened # None /\ \E i \in ToSet(opened), o \in Outcomes : VJudge(i, o)
=============================================================================
