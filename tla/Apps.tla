-------------------------------- MODULE Apps --------------------------------
(***************************************************************************)
(* From signing to showing: a session, run by a program that uses the      *)
(* library or by the signer's GUI, the file it writes, and the verifier's  *)
(* GUI that shows the same video with that file.  The programs are used    *)
(* one after the other.                                                    *)
(***************************************************************************)
EXTENDS SignerGui, VerifierGui

appVars == <<sessionVars, guiVars, verifierVars>>

Init == InitSession /\ InitGui /\ InitVerifierGui

Signing == vplayer = "none" /\ NextGui /\ UNCHANGED verifierVars

Verifying ==
    /\ view = "menu" /\ disk # None
    /\ NextVerifierGui
    /\ UNCHANGED <<sessionVars, guiVars>>

Next == Signing \/ Verifying

Spec == Init /\ [][Next]_appVars

(* Threads, tasks and the UI threads' queues are served; users are free.    *)
Fairness ==
    /\ WF_appVars(vplayer = "none" /\ GuiSession /\ UNCHANGED verifierVars)
    /\ WF_appVars(vplayer = "none" /\ RunIdle /\ UNCHANGED verifierVars)
    /\ WF_appVars(Verifying /\ (VNextFrame \/ VDone \/ VRunIdle))

FairSpec == Spec /\ Fairness

-----------------------------------------------------------------------------
(* Properties of the session.                                              *)

(* The states of all three keep their form.                                 *)
TypeOK ==
    /\ TypeOKSession /\ TypeOKGui
    /\ vview \in {"menu", "video"} /\ seen \in 0..job.frames /\ vshown \in 0..seen
    /\ vplayer \in {"none", "running", "dead", "done"}
    /\ chosen \subseteq {"src", "signfile"}
    /\ DOMAIN labels = DOMAIN sigs

Signers == { asked[n].chunk.who : n \in DOMAIN asked }

(* Is frame k in the n-th chunk?                                            *)
Covers(n, k) ==
    asked[n].chunk.start <= FrameState(job, k).time.start /\ k <= asked[n].frame

Unranged == \A c \in DOMAIN ctrls : ctrls[c].range = None
Panicked == thread = "panicked"

(* is_start: the first frame is never a reason to sign, not even when it    *)
(* crosses a multiple of the interval; the next chunk starts behind it then.*)
SkipsFirst(c) ==
    LET first == FrameState(job, 1)
        time == IF IsFunction(ctrls) THEN first.time ELSE Earlier(first.time, first.offset)
    IN  IsStart(time) /\ Crossing(first.time, c.interval) # None

Skipped(who, k) ==
    k = 1 /\ ~ job.app /\ \E c \in DOMAIN ctrls : ctrls[c].who = who /\ SkipsFirst(ctrls[c])

(* IntervalController::get_chunk and SignController::get_chunks: the chunks *)
(* a signer is asked for leave no frame out, from the first of the video,   *)
(* unless that is skipped, to the last that a chunk was asked for at.       *)
ChunksMeet ==
    Unranged =>
        \A n \in DOMAIN asked : \A k \in 1..asked[n].frame :
            \/ Skipped(asked[n].chunk.who, k)
            \/ \E m \in DOMAIN asked :
                  asked[m].chunk.who = asked[n].chunk.who /\ Covers(m, k)

(* A controller whose chunks sign can be expected to take.  The interval is *)
(* of whole milliseconds; there is a millisecond to spare above the minimum *)
(* and, with a frame more, below the maximum, as crossings are rounded.     *)
(* The offset is a multiple of the interval and, if there is one, no frame  *)
(* that crosses first behind it ends where it is rounded up, which moves    *)
(* the chunk before the offset.  And the video is long enough for a chunk.  *)
Fits(c) ==
    LET Time(k) == FrameState(job, k).time
        CrossesFirst(k) == /\ Time(k).start < job.offset + c.interval
                           /\ Crossing(Time(k), c.interval) # None
    IN  /\ c.range = None /\ c.interval % Tick = 0
        /\ MinChunk + Tick <= c.interval
        /\ c.interval + FrameLength(job) + Tick <= MaxChunk
        /\ job.offset % c.interval = 0
        /\ job.offset = 0 \/ \A k \in 1..job.frames :
               CrossesFirst(k) => 2 * (Time(k).end % Tick) < Tick
        /\ IF job.offset = 0 THEN MinChunk + Tick <= Time(job.frames).end
           ELSE job.offset + c.interval <= Time(job.frames).end

(* SignController: the frame of the chunk before the n-th, last_sign at the *)
(* n-th, and the length of the n-th as it is measured at frame k.           *)
FrameBefore(n) == IF n = 1 THEN 0 ELSE asked[n - 1].frame
LastSigned(n) == IF n = 1 THEN 0 ELSE FrameState(job, FrameBefore(n)).time.start
Measured(n, k) == FrameState(job, k).time.end - LastSigned(n)

(* Enter was pressed, or the video is over, within the minimum of the last  *)
(* signature, but for a millisecond of flooring.                            *)
AskedTooEarly(n) == Measured(n, asked[n].frame) < MinChunk + Tick

(* No frame behind the chunk before, up to the m-th, has taken the n-th     *)
(* chunk to the maximum length.                                             *)
BelowMaximum(n, m) == \A k \in (FrameBefore(n) + 1)..m : Measured(n, k) < MaxChunk

(* The chunk has the maximum length, at which the GUI signs on its own, or  *)
(* as good as has, and it had not at any frame before.                      *)
AtMaximum(n) ==
    /\ MaxChunk < Measured(n, asked[n].frame) + Tick
    /\ BelowMaximum(n, asked[n].frame - 1)

(* sign::FrameManager::sign against the controllers: chunks of a controller *)
(* that fits are never refused.  Of the GUI's, none is refused but those    *)
(* asked for too early and those the GUI asks for on its own; it never lets *)
(* the maximum pass, and the signer's buffer reaches back to their start.   *)
RefusalsExplained ==
    \A n \in DOMAIN asked :
        \/ RefusalOf(n) = "none"
        \/ job.app /\ RefusalOf(n) # "OutOfRange" /\ (AskedTooEarly(n) \/ AtMaximum(n))
        \/ \E c \in DOMAIN ctrls : ctrls[c].who = asked[n].chunk.who /\ ~ Fits(ctrls[c])

(* controller.rs:69-70, "We want to sign when requested, or if the next     *)
(* frame is going to be past the maximum chunk signing length": what the    *)
(* GUI asks for on its own can be signed.  In the code it is not: the chunk *)
(* has at least the maximum then, which is outside the half-open range.     *)
OwnChunkSigned ==
    \A n \in DOMAIN asked :
        job.app /\ MaxChunk <= Measured(n, asked[n].frame) => RefusalOf(n) = "none"

(* sign_with and try_collect: when the end of the video is seen, nothing    *)
(* fails and no controller has a range, every frame is signed by every      *)
(* signer in the file that is collected, unless it is the first and skipped;*)
(* the example of SignPipeline::sign does not look for the last frame, and  *)
(* signs up to the last interval, but for when it panics.                   *)
WholeVideoSigned ==
    reader = "collected" /\ job.last /\ failed = {} /\ Unranged /\ ~ Panicked =>
        /\ IsFunction(ctrls)
           \/ Signers = IF job.app THEN {"alice"} ELSE { ctrls[c].who : c \in DOMAIN ctrls }
        /\ \A k \in 1..job.frames, who \in Signers :
              LET found == SignaturesAt(file, FrameState(job, k).time.start)
              IN  \/ Skipped(who, k)
                  \/ IsFunction(ctrls) /\ \A n \in DOMAIN asked : asked[n].frame < k
                  \/ \E i \in DOMAIN found : found[i].val.presentation.id = who

FirstFailed(who) ==
    \E n \in failed : asked[n].chunk.who = who /\ ~ asked[n].chunk.ref

(* spec.md:251-253: in a file, a reference stands behind the definition it  *)
(* refers to, in whatever order the chunks were signed; unless the chunk    *)
(* with the definition failed and the reader passed over that, as is_start  *)
(* is cleared when a chunk is asked for (interval.rs:197).                  *)
DefinedFirst ==
    reader = "collected" =>
        \A i \in DOMAIN file :
            LET p == file[i].val.presentation
            IN  p.kind = "ref" =>
                    \/ FirstFailed(p.id)
                    \/ \E j \in 1..(i - 1) :
                          file[j].val.presentation = [kind |-> "def", id |-> p.id]

Answered == DOMAIN asked \ (pending \cup failed)

(* SignFile: whatever the order of the answers, the file holds each of them *)
(* once, sorted, and reads back as it was written.                          *)
FileFaithful ==
    reader # "failed" =>
        /\ Read(Written(file)) = file
        /\ \A i \in 1..(Len(file) - 1) : ~ Before(file[i + 1], file[i])
        /\ Len(file) = Cardinality(Answered)
        /\ \A n \in Answered :
              Cardinality({ i \in DOMAIN file : file[i] = SignedAs(n) }) =
              Cardinality({ m \in Answered : SignedAs(m) = SignedAs(n) })

-----------------------------------------------------------------------------
(* Properties of the programs with a window.                               *)

(* SigState::same in verifier-gui: what the list shows is what its data     *)
(* say, although a label is left alone when its state counts as the same.   *)
LabelCurrent == labels = [ i \in DOMAIN sigs |-> Label(sigs[i]) ]

(* From signing to showing: next to a frame stand exactly the signers whose *)
(* chunks that were signed hold the frame, each as often as there are such  *)
(* chunks, though all the file keeps of a chunk are two milliseconds.       *)
OverlayTruth ==
    vshown # 0 =>
        \A who \in Signers \cup { sigs[i].who : i \in DOMAIN sigs } :
            Cardinality({ i \in DOMAIN sigs : sigs[i].who = who }) =
            Cardinality({ n \in Answered :
                            asked[n].chunk.who = who /\ Covers(n, vshown) })

(* watch_video of both programs: the menu comes back when the video is      *)
(* over, unless a chunk failed or the program went down, and after a video  *)
(* that could be opened in the verifier.                                    *)
ViewReturns ==
    /\ view = "video" /\ src # None
            ~> view = "menu" \/ failed # {} \/ down # None
    /\ vview = "video" ~> vview = "menu" \/ vplayer = "dead"
=============================================================================
