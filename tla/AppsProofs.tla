----------------------------- MODULE AppsProofs -----------------------------
(***************************************************************************)
(* Proofs about Apps, for every set of jobs and every bound: what the      *)
(* verifier's list shows is current, the overlay of the signer's first     *)
(* video never computes a time before zero, the file holds each answer     *)
(* once, sorted, and reads back as it was written, and the state of both   *)
(* programs and of the session keeps its form.                             *)
(***************************************************************************)
EXTENDS Apps, FrameTimeProofs, SequenceTheorems, FiniteSetTheorems, TLAPS

-----------------------------------------------------------------------------
(* The verifier's list.                                                    *)

(* Data::same of verifier-gui: states it takes for the same have the same   *)
(* label.                                                                   *)
LEMMA SameLabel ==
  ASSUME NEW s, NEW t, Same(s, t)
  PROVE  Label(s) = Label(t)
<1>1. s.state = t.state /\ (s.state \in {"Verified", "Unverified"} => s.who = t.who)
  BY DEF Same
<1>2. QED
  BY <1>1 DEF Label

(* The list starts as it should.                                            *)
LEMMA LabelInit == Init => LabelCurrent
BY DEF Init, InitVerifierGui, LabelCurrent

(* A child that is left alone shows what a new one would.                   *)
LEMMA RelabelledIsCurrent ==
  ASSUME LabelCurrent, NEW new
  PROVE  Relabelled(new) = [ i \in DOMAIN new |-> Label(new[i]) ]
<1>1. ASSUME NEW i \in DOMAIN new
      PROVE  (IF i \in DOMAIN sigs /\ Same(sigs[i], new[i])
              THEN labels[i] ELSE Label(new[i])) = Label(new[i])
  <2>1. CASE i \in DOMAIN sigs /\ Same(sigs[i], new[i])
    <3>1. labels[i] = Label(sigs[i])
      BY <2>1 DEF LabelCurrent
    <3>2. QED
      BY <2>1, <3>1, SameLabel
  <2>2. CASE ~ (i \in DOMAIN sigs /\ Same(sigs[i], new[i]))
    BY <2>2
  <2>3. QED
    BY <2>1, <2>2
<1>2. QED
  BY <1>1 DEF Relabelled

(* Only VRunIdle writes the list.                                           *)
LEMMA LabelStep == LabelCurrent /\ [Next]_appVars => LabelCurrent'
<1> SUFFICES ASSUME LabelCurrent, [Next]_appVars
             PROVE  LabelCurrent'
  OBVIOUS
<1>1. CASE UNCHANGED <<sigs, labels>>
  BY <1>1 DEF LabelCurrent
<1>2. CASE VRunIdle
  <2>1. CASE UNCHANGED <<sigs, labels>>
    BY <2>1, <1>1
  <2>2. CASE sigs' = Head(vidle).sigs /\ labels' = Relabelled(Head(vidle).sigs)
    BY <2>2, RelabelledIsCurrent DEF LabelCurrent
  <2>3. QED
    BY <1>2, <2>1, <2>2 DEF VRunIdle
<1>3. CASE Signing
  BY <1>1, <1>3 DEF Signing, verifierVars
<1>4. CASE Verifying
  <2>1. CASE VChooseVideo \/ VChooseFile \/ VGoToVideo \/ VNextFrame \/ VDone
    BY <1>1, <2>1 DEF VChooseVideo, VChooseFile, VGoToVideo, VNextFrame, VDone
  <2>2. CASE \E i \in ToSet(opened), o \in Outcomes : VJudge(i, o)
    BY <1>1, <2>2 DEF VJudge
  <2>3. QED
    BY <1>4, <1>2, <2>1, <2>2 DEF Verifying, NextVerifierGui
<1>5. CASE UNCHANGED appVars
  BY <1>1, <1>5 DEF appVars, verifierVars
<1>6. QED
  BY <1>3, <1>4, <1>5 DEF Next

(* SigState::same and the list of verifier-gui: what the list shows is what *)
(* its data say.                                                            *)
THEOREM ListIsCurrent == Spec => []LabelCurrent
BY LabelInit, LabelStep, PTL DEF Spec

-----------------------------------------------------------------------------
(* The overlay of the signer's first video.                                *)

(* When the next frame starts.                                              *)
NextStart == FrameState(job, taken + 1).time.start

(* What is left for the UI thread: a frame or a signature at a time, or that*)
(* the video is over.                                                       *)
Callbacks == [do : {"frame", "sign"}, at : Nat] \cup { Callback("done", None) }

GuiTypes ==
    /\ job \in Jobs /\ taken \in Nat /\ src \in Jobs \cup {None}
    /\ videos \in Nat /\ lastShown \in Nat /\ shown \in Nat \cup {None}
    /\ idle \in Seq(Callbacks)

(* Before the first video nothing was shown.                                *)
BeforeVideos ==
    videos = 0 => /\ idle = <<>> /\ shown = None /\ lastShown = 0 /\ player = "none"
                  /\ job.app => thread = "idle"

(* The last signature shown is not behind the frame shown.                  *)
ShownInOrder ==
    /\ shown = None => lastShown = 0
    /\ shown # None => lastShown <= shown /\ shown <= NextStart

(* What is left to be shown comes in the order of time, behind what is      *)
(* shown.                                                                   *)
IdleInOrder ==
    /\ \A i \in DOMAIN idle : idle[i].do # "done" =>
          /\ idle[i].at <= NextStart
          /\ shown # None => shown <= idle[i].at
    /\ \A i, j \in DOMAIN idle :
          i < j /\ idle[i].do # "done" /\ idle[j].do # "done" => idle[i].at <= idle[j].at

(* A signature is shown right behind its frame.                             *)
SignsBehindFrames ==
    \A i \in DOMAIN idle : idle[i].do = "sign" =>
        \/ i = 1 /\ shown = idle[i].at
        \/ i # 1 /\ idle[i - 1] = Callback("frame", idle[i].at)

FirstVideo == ShownInOrder /\ IdleInOrder /\ SignsBehindFrames /\ down # "overlay"

OverlayInv == GuiTypes /\ BeforeVideos /\ (videos <= 1 => FirstVideo)

(* Sequences one behind the other.                                          *)
LEMMA Behind ==
  ASSUME NEW S, NEW s \in Seq(S), NEW u \in Seq(S)
  PROVE  /\ s \o u \in Seq(S) /\ Len(s) \in Nat /\ Len(u) \in Nat
         /\ DOMAIN (s \o u) = 1..(Len(s) + Len(u))
         /\ \A i \in 1..Len(s) : (s \o u)[i] = s[i]
         /\ \A i \in 1..Len(u) : (s \o u)[Len(s) + i] = u[i]
<1>1. /\ s \o u \in Seq(S) /\ Len(s) \in Nat /\ Len(u) \in Nat
      /\ Len(s \o u) = Len(s) + Len(u)
  OBVIOUS
<1>2. DOMAIN (s \o u) = 1..(Len(s) + Len(u))
  BY <1>1
<1>3. \A i \in 1..Len(s) : (s \o u)[i] = s[i]
  BY <1>1
<1>4. \A i \in 1..Len(u) : (s \o u)[Len(s) + i] = u[i]
  BY <1>1
<1>5. QED
  BY <1>1, <1>2, <1>3, <1>4

(* What a job's video is made of.                                           *)
LEMMA JobTypes ==
  ASSUME NEW j \in Jobs
  PROVE  /\ IsRate(j.rate) /\ j.frames \in Nat \ {0} /\ j.offset \in Nat
         /\ \A k \in Nat \ {0} :
               FrameState(j, k).time.start = j.offset + Pts(j.rate, k - 1)
<1>1. IsJob(j)
  BY SessionAssumption
<1>2. QED
  BY <1>1 DEF IsJob, IsRate, FrameState, Span

(* Frames start one after the other.                                        *)
LEMMA StartsAdvance ==
  ASSUME NEW j \in Jobs, NEW k \in Nat
  PROVE  /\ FrameState(j, k + 1).time.start \in Nat
         /\ FrameState(j, k + 1).time.start <= FrameState(j, k + 2).time.start
<1>1. /\ IsRate(j.rate) /\ j.offset \in Nat
      /\ FrameState(j, k + 1).time.start = j.offset + Pts(j.rate, k)
      /\ FrameState(j, k + 2).time.start = j.offset + Pts(j.rate, k + 1)
  <2>1. k + 1 \in Nat \ {0} /\ k + 2 \in Nat \ {0} /\ k + 1 - 1 = k /\ k + 2 - 1 = k + 1
    OBVIOUS
  <2>2. QED
    BY <2>1, JobTypes
<1>2. PICK p \in Nat : p = Pts(j.rate, k)
  BY <1>1, PtsAtLeast
<1>3. PICK q \in Nat : q = Pts(j.rate, k + 1)
  BY <1>1, PtsAtLeast
<1>4. p <= q
  BY <1>1, <1>2, <1>3, PtsMonotone
<1>5. QED
  BY <1>1, <1>2, <1>3, <1>4

(* It holds before anything happens.                                        *)
LEMMA OverlayInit == Init => OverlayInv
<1> SUFFICES ASSUME Init
             PROVE  OverlayInv
  OBVIOUS
<1>1. GuiTypes /\ BeforeVideos
  BY DEF Init, InitSession, InitGui, GuiTypes, BeforeVideos
<1>2. FirstVideo
  BY NoneAssumption, GuiAssumption DEF Init, InitGui, FirstVideo, ShownInOrder, IdleInOrder, SignsBehindFrames
<1>3. QED
  BY <1>1, <1>2 DEF OverlayInv

(* Steps that leave the window, the video and the position alone.           *)
LEMMA OverlayUnchanged ==
  ASSUME OverlayInv, UNCHANGED <<job, taken, videos, shown, lastShown, idle>>,
         src' \in Jobs \cup {None}, down' = "overlay" => down = "overlay",
         videos = 0 /\ job.app /\ thread = "idle" => thread' = "idle",
         videos = 0 => player' = player
  PROVE  OverlayInv'
<1>1. GuiTypes'
  BY DEF OverlayInv, GuiTypes
<1>2. BeforeVideos'
  BY DEF OverlayInv, BeforeVideos
<1>3. videos' <= 1 => FirstVideo'
  <2>1. NextStart' = NextStart
    BY DEF NextStart
  <2>2. QED
    BY <2>1 DEF OverlayInv, FirstVideo, ShownInOrder, IdleInOrder, SignsBehindFrames
<1>4. QED
  BY <1>1, <1>2, <1>3 DEF OverlayInv

(* A frame is taken without anything left for the UI thread.                *)
LEMMA OverlayAdvance ==
  ASSUME OverlayInv, taken' = taken + 1, down' = down,
         UNCHANGED <<job, src, videos, shown, lastShown, idle, player>>,
         thread' = thread \/ ~ job.app
  PROVE  OverlayInv'
<1>1. GuiTypes' /\ BeforeVideos'
  BY DEF OverlayInv, GuiTypes, BeforeVideos
<1>2. PICK a \in Nat : a = NextStart
  BY StartsAdvance DEF NextStart, OverlayInv, GuiTypes
<1>3. PICK b \in Nat : b = NextStart'
  <2>1. NextStart' = FrameState(job, taken + 2).time.start
    <3>1. taken + 1 + 1 = taken + 2
      BY DEF OverlayInv, GuiTypes
    <3>2. QED
      BY <3>1 DEF NextStart
  <2>2. taken + 2 = (taken + 1) + 1 /\ taken + 1 \in Nat
    BY DEF OverlayInv, GuiTypes
  <2>3. QED
    BY <2>1, <2>2, StartsAdvance DEF OverlayInv, GuiTypes
<1>4. a <= b
  <2>1. NextStart' = FrameState(job, taken + 2).time.start
    <3>1. taken + 1 + 1 = taken + 2
      BY DEF OverlayInv, GuiTypes
    <3>2. QED
      BY <3>1 DEF NextStart
  <2>2. QED
    BY <2>1, <1>2, <1>3, StartsAdvance DEF NextStart, OverlayInv, GuiTypes
<1>5. ASSUME videos <= 1
      PROVE  FirstVideo'
  <2>1. FirstVideo /\ shown \in Nat \cup {None} /\ idle \in Seq(Callbacks)
    BY <1>5 DEF OverlayInv, GuiTypes
  <2>2. ShownInOrder'
    BY <2>1, <1>2, <1>3, <1>4 DEF FirstVideo, ShownInOrder
  <2>3. IdleInOrder'
    <3>1. ASSUME NEW i \in DOMAIN idle, idle[i].do # "done"
          PROVE  idle[i].at <= b
      <4>1. idle[i].at \in Nat /\ idle[i].at <= a
        BY <2>1, <1>2, <3>1 DEF FirstVideo, IdleInOrder, Callbacks, Callback
      <4>2. QED
        BY <4>1, <1>4
    <3>2. QED
      BY <3>1, <2>1, <1>3 DEF FirstVideo, IdleInOrder
  <2>4. QED
    BY <2>1, <2>2, <2>3 DEF FirstVideo, SignsBehindFrames
<1>6. QED
  BY <1>1, <1>5 DEF OverlayInv

(* The callbacks are run in the order in which they were left.              *)
LEMMA OverlayRunIdle ==
  ASSUME OverlayInv, RunIdle
  PROVE  OverlayInv'
<1>1. /\ idle \in Seq(Callbacks) /\ idle # <<>> /\ idle' = Tail(idle)
      /\ Head(idle) = idle[1] /\ 1 \in DOMAIN idle
      /\ idle' \in Seq(Callbacks) /\ Len(idle) \in Nat \ {0}
      /\ DOMAIN idle' = 1..(Len(idle) - 1)
      /\ \A i \in 1..(Len(idle) - 1) : idle'[i] = idle[i + 1] /\ i + 1 \in DOMAIN idle
  BY DEF RunIdle, OverlayInv, GuiTypes
<1>2. UNCHANGED <<job, taken, src, videos, player>>
  BY DEF RunIdle, ShowFrame, ShowSign, Finish, GoDown, sessionVars
<1>3. idle[1] \in Callbacks
  BY <1>1
<1>4. \/ idle[1].do = "frame" /\ shown' = idle[1].at /\ UNCHANGED <<lastShown, down>>
      \/ idle[1].do = "sign" /\ lastShown' = idle[1].at /\ UNCHANGED <<shown, down>>
      \/ idle[1].do = "done" /\ UNCHANGED <<shown, lastShown>> /\ down' \in {down, "write"}
  BY <1>1 DEF RunIdle, ShowFrame, ShowSign, Finish, GoDown
<1>5. GuiTypes'
  BY <1>1, <1>2, <1>3, <1>4 DEF OverlayInv, GuiTypes, Callbacks, Callback
<1>6. BeforeVideos'
  BY <1>1, <1>2 DEF OverlayInv, BeforeVideos
<1>7. ASSUME videos <= 1
      PROVE  FirstVideo'
  <2>1. FirstVideo
    BY <1>7 DEF OverlayInv
  <2>2. NextStart' = NextStart
    BY <1>2 DEF NextStart
  <2>3. down' # "overlay"
    BY <1>4, <2>1 DEF FirstVideo
  <2>4. shown \in Nat \cup {None} /\ lastShown \in Nat /\ NextStart \in Nat
    BY StartsAdvance DEF NextStart, OverlayInv, GuiTypes
  <2>5. ShownInOrder'
    <3>1. CASE idle[1].do = "frame"
      <4>1. idle[1].at \in Nat
        BY <1>3, <3>1 DEF Callbacks, Callback
      <4>2. idle[1].at <= NextStart /\ (shown # None => shown <= idle[1].at)
        BY <3>1, <2>1, <1>1 DEF FirstVideo, IdleInOrder
      <4>3. lastShown <= idle[1].at
        BY <4>1, <4>2, <2>1, <2>4 DEF FirstVideo, ShownInOrder
      <4>4. shown' = idle[1].at /\ lastShown' = lastShown
        BY <3>1, <1>4
      <4>5. QED
        BY <4>1, <4>2, <4>3, <4>4, <2>2, NoneAssumption DEF ShownInOrder
    <3>2. CASE idle[1].do = "sign"
      <4>1. shown = idle[1].at /\ idle[1].at \in Nat
        <5>1. shown = idle[1].at
          BY <3>2, <2>1, <1>1 DEF FirstVideo, SignsBehindFrames
        <5>2. idle[1].at \in Nat
          BY <3>2, <1>3 DEF Callbacks, Callback
        <5>3. QED
          BY <5>1, <5>2
      <4>2. QED
        BY <4>1, <3>2, <1>4, <2>1, <2>2, NoneAssumption DEF FirstVideo, ShownInOrder
    <3>3. CASE idle[1].do = "done"
      BY <3>3, <1>4, <2>1, <2>2 DEF FirstVideo, ShownInOrder
    <3>4. QED
      BY <3>1, <3>2, <3>3, <1>4
  <2>6. IdleInOrder'
    <3>1. ASSUME NEW i \in 1..(Len(idle) - 1), idle[i + 1].do # "done"
          PROVE  /\ idle[i + 1].at <= NextStart
                 /\ shown' # None => shown' <= idle[i + 1].at
      <4>1. i + 1 \in DOMAIN idle /\ 1 < i + 1
        BY <1>1
      <4>2. idle[i + 1].at <= NextStart /\ (shown # None => shown <= idle[i + 1].at)
        BY <4>1, <3>1, <2>1 DEF FirstVideo, IdleInOrder
      <4>3. CASE idle[1].do = "frame"
        <5>1. idle[1].at <= idle[i + 1].at
          BY <4>1, <4>3, <3>1, <2>1, <1>1 DEF FirstVideo, IdleInOrder
        <5>2. QED
          BY <5>1, <4>2, <4>3, <1>4
      <4>4. CASE idle[1].do # "frame"
        BY <4>4, <4>2, <1>4
      <4>5. QED
        BY <4>3, <4>4
    <3>2. ASSUME NEW i \in 1..(Len(idle) - 1), NEW j \in 1..(Len(idle) - 1), i < j,
                 idle[i + 1].do # "done", idle[j + 1].do # "done"
          PROVE  idle[i + 1].at <= idle[j + 1].at
      <4>1. i + 1 \in DOMAIN idle /\ j + 1 \in DOMAIN idle /\ i + 1 < j + 1
        BY <3>2, <1>1
      <4>2. QED
        BY <4>1, <3>2, <2>1 DEF FirstVideo, IdleInOrder
    <3>3. QED
      BY <3>1, <3>2, <1>1, <2>2 DEF IdleInOrder
  <2>7. SignsBehindFrames'
    <3>1. ASSUME NEW i \in 1..(Len(idle) - 1), idle[i + 1].do = "sign"
          PROVE  \/ i = 1 /\ shown' = idle[i + 1].at
                 \/ i # 1 /\ idle'[i - 1] = Callback("frame", idle[i + 1].at)
      <4>1. i + 1 \in DOMAIN idle /\ i + 1 # 1 /\ i + 1 - 1 = i
        BY <1>1
      <4>2. idle[i] = Callback("frame", idle[i + 1].at)
        BY <4>1, <3>1, <2>1 DEF FirstVideo, SignsBehindFrames
      <4>3. CASE i = 1
        BY <4>3, <4>2, <1>4 DEF Callback
      <4>4. CASE i # 1
        <5>1. i - 1 \in 1..(Len(idle) - 1) /\ i - 1 + 1 = i
          BY <4>4, <1>1
        <5>2. QED
          BY <5>1, <4>4, <4>2, <1>1
      <4>5. QED
        BY <4>3, <4>4
    <3>2. QED
      BY <3>1, <1>1 DEF SignsBehindFrames
  <2>8. QED
    BY <2>3, <2>5, <2>6, <2>7 DEF FirstVideo
<1>8. QED
  BY <1>2, <1>5, <1>6, <1>7 DEF OverlayInv

(* A frame leaves its callbacks behind the others; they are not before its  *)
(* start, as frames start one after the other.                              *)
LEMMA OverlayGuiTurn ==
  ASSUME OverlayInv, GuiTurn
  PROVE  OverlayInv'
<1>1. PICK a \in Nat : a = NextStart
  BY StartsAdvance DEF NextStart, OverlayInv, GuiTypes
<1>2. PICK signs \in BOOLEAN : idle' = idle \o Left(a, signs)
  <2>1. GuiAsks(lastSign, signCtrl, FrameState(job, taken + 1)) \in BOOLEAN
    BY DEF GuiAsks
  <2>2. idle' = idle \o Left(a, GuiAsks(lastSign, signCtrl, FrameState(job, taken + 1)))
    BY <1>1 DEF GuiTurn, NextStart
  <2>3. QED
    BY <2>1, <2>2
<1>3. /\ taken' = taken + 1 /\ job.app /\ thread = "running"
      /\ UNCHANGED <<job, src, videos, shown, lastShown, down, thread, player>>
  BY DEF GuiTurn, Up, NextFrameReady
<1>4. PICK b \in Nat : b = NextStart' /\ a <= b
  <2>1. taken \in Nat /\ taken + 1 + 1 = taken + 2 /\ job \in Jobs /\ taken + 1 \in Nat
    BY DEF OverlayInv, GuiTypes
  <2>2. NextStart' = FrameState(job, taken + 2).time.start
    BY <2>1, <1>3 DEF NextStart
  <2>3. NextStart' \in Nat
    BY <2>1, <2>2, StartsAdvance
  <2>4. NextStart <= NextStart'
    BY <2>1, <2>2, StartsAdvance DEF NextStart
  <2>5. QED
    BY <2>3, <2>4, <1>1
<1> DEFINE n == Len(idle)
<1>5. /\ idle \in Seq(Callbacks) /\ n \in Nat /\ DOMAIN idle = 1..n
      /\ \A i \in 1..n : idle[i] \in Callbacks
  BY DEF OverlayInv, GuiTypes
<1>6. Left(a, signs) \in Seq(Callbacks)
  <2>1. Callback("frame", a) \in Callbacks /\ Callback("sign", a) \in Callbacks
    BY DEF Callbacks, Callback
  <2>2. QED
    BY <2>1 DEF Left
<1>7. /\ idle' \in Seq(Callbacks)
      /\ \A i \in 1..n : idle'[i] = idle[i]
      /\ idle'[n + 1] = Callback("frame", a)
      /\ IF signs THEN DOMAIN idle' = 1..(n + 2) /\ idle'[n + 2] = Callback("sign", a)
                  ELSE DOMAIN idle' = 1..(n + 1)
  <2>1. CASE signs
    <3>1. Left(a, signs) = << Callback("frame", a), Callback("sign", a) >>
      BY <2>1 DEF Left
    <3>2. PICK l \in Seq(Callbacks) : l = Left(a, signs)
      BY <1>6
    <3>3. Len(l) = 2 /\ l[1] = Callback("frame", a) /\ l[2] = Callback("sign", a)
      BY <3>1, <3>2
    <3>4. /\ idle \o l \in Seq(Callbacks) /\ DOMAIN (idle \o l) = 1..(n + 2)
          /\ \A i \in 1..n : (idle \o l)[i] = idle[i]
          /\ (idle \o l)[n + 1] = l[1] /\ (idle \o l)[n + 2] = l[2]
      <4>1. /\ idle \o l \in Seq(Callbacks) /\ DOMAIN (idle \o l) = 1..(n + Len(l))
            /\ \A i \in 1..n : (idle \o l)[i] = idle[i]
            /\ \A i \in 1..Len(l) : (idle \o l)[n + i] = l[i]
        BY <1>5, Behind
      <4>2. 1 \in 1..2 /\ 2 \in 1..2
        OBVIOUS
      <4>3. QED
        BY <4>1, <4>2, <3>3
    <3>5. QED
      BY <3>2, <3>3, <3>4, <2>1, <1>2
  <2>2. CASE ~ signs
    <3>1. Left(a, signs) = << Callback("frame", a) >>
      BY <2>2 DEF Left
    <3>2. PICK l \in Seq(Callbacks) : l = Left(a, signs)
      BY <1>6
    <3>3. Len(l) = 1 /\ l[1] = Callback("frame", a)
      BY <3>1, <3>2
    <3>4. /\ idle \o l \in Seq(Callbacks) /\ DOMAIN (idle \o l) = 1..(n + 1)
          /\ \A i \in 1..n : (idle \o l)[i] = idle[i]
          /\ (idle \o l)[n + 1] = l[1]
      <4>1. /\ idle \o l \in Seq(Callbacks) /\ DOMAIN (idle \o l) = 1..(n + Len(l))
            /\ \A i \in 1..n : (idle \o l)[i] = idle[i]
            /\ \A i \in 1..Len(l) : (idle \o l)[n + i] = l[i]
        BY <1>5, Behind
      <4>2. 1 \in 1..1 /\ 1 \in 1..1
        OBVIOUS
      <4>3. QED
        BY <4>1, <4>2, <3>3
    <3>5. QED
      BY <3>2, <3>3, <3>4, <2>2, <1>2
  <2>3. QED
    BY <2>1, <2>2
<1> HIDE DEF n
<1>8. GuiTypes'
  BY <1>3, <1>7 DEF OverlayInv, GuiTypes
<1>9. BeforeVideos'
  BY <1>3 DEF OverlayInv, BeforeVideos
<1>10. ASSUME videos <= 1
       PROVE  FirstVideo'
  <2>1. FirstVideo /\ shown \in Nat \cup {None} /\ lastShown \in Nat
    BY <1>10 DEF OverlayInv, GuiTypes
  <2>2. ShownInOrder'
    BY <2>1, <1>1, <1>3, <1>4 DEF FirstVideo, ShownInOrder
  <2>3. \A i \in 1..n : idle[i].do # "done" =>
           /\ idle[i].at \in Nat /\ idle[i].at <= a
           /\ shown # None => shown <= idle[i].at
    BY <2>1, <1>1, <1>5 DEF FirstVideo, IdleInOrder, Callbacks, Callback
  <2>4. shown # None => shown <= a
    BY <2>1, <1>1 DEF FirstVideo, ShownInOrder
  <2>5. \A i \in DOMAIN idle' : i \in 1..n \/ (i \in {n + 1, n + 2} /\ idle'[i].at = a)
    <3>1. Callback("frame", a).at = a /\ Callback("sign", a).at = a
      BY DEF Callback
    <3>2. \A i \in DOMAIN idle' : i \in 1..n \/ i = n + 1 \/ (signs /\ i = n + 2)
      BY <1>5, <1>7
    <3>3. QED
      BY <3>1, <3>2, <1>7
  <2>6. IdleInOrder'
    <3>1. ASSUME NEW i \in DOMAIN idle', idle'[i].do # "done"
          PROVE  idle'[i].at <= b /\ (shown # None => shown <= idle'[i].at)
      <4>1. CASE i \in 1..n
        BY <4>1, <3>1, <2>3, <1>7, <1>4
      <4>2. CASE idle'[i].at = a
        BY <4>2, <2>4, <1>4
      <4>3. QED
        BY <4>1, <4>2, <2>5
    <3>2. ASSUME NEW i \in DOMAIN idle', NEW j \in DOMAIN idle', i < j,
                 idle'[i].do # "done", idle'[j].do # "done"
          PROVE  idle'[i].at <= idle'[j].at
      <4>1. CASE i \in 1..n /\ j \in 1..n
        BY <4>1, <3>2, <2>1, <1>5, <1>7 DEF FirstVideo, IdleInOrder
      <4>2. CASE i \in 1..n /\ idle'[j].at = a
        BY <4>2, <3>2, <2>3, <1>7
      <4>3. CASE i \in {n + 1, n + 2} /\ j \in 1..n
        BY <4>3, <3>2, <1>5
      <4>4. CASE idle'[i].at = a /\ idle'[j].at = a
        BY <4>4, <1>1
      <4>5. QED
        BY <4>1, <4>2, <4>3, <4>4, <2>5
    <3>3. QED
      BY <3>1, <3>2, <1>3, <1>4 DEF IdleInOrder
  <2>7. SignsBehindFrames'
    <3>1. ASSUME NEW i \in DOMAIN idle', idle'[i].do = "sign"
          PROVE  \/ i = 1 /\ shown = idle'[i].at
                 \/ i # 1 /\ idle'[i - 1] = Callback("frame", idle'[i].at)
      <4>1. CASE i \in 1..n
        <5>1. idle'[i] = idle[i] /\ i \in DOMAIN idle
          BY <4>1, <1>5, <1>7
        <5>2. \/ i = 1 /\ shown = idle[i].at
              \/ i # 1 /\ idle[i - 1] = Callback("frame", idle[i].at)
          BY <5>1, <3>1, <2>1 DEF FirstVideo, SignsBehindFrames
        <5>3. i # 1 => i - 1 \in 1..n
          BY <4>1, <1>5
        <5>4. QED
          BY <5>1, <5>2, <5>3, <1>7
      <4>2. CASE i = n + 1
        BY <4>2, <3>1, <1>7 DEF Callback
      <4>3. CASE signs /\ i = n + 2
        <5>1. i - 1 = n + 1 /\ i # 1
          BY <4>3, <1>5
        <5>2. QED
          BY <5>1, <4>3, <1>7 DEF Callback
      <4>4. QED
        BY <4>1, <4>2, <4>3, <1>5, <1>7
    <3>2. QED
      BY <3>1, <1>3 DEF SignsBehindFrames
  <2>8. QED
    BY <2>1, <2>2, <2>6, <2>7, <1>3 DEF FirstVideo
<1>11. QED
  BY <1>3, <1>8, <1>9, <1>10 DEF OverlayInv

(* That the video is over is left behind everything else.                   *)
LEMMA OverlayWatchEnds ==
  ASSUME OverlayInv, WatchEnds
  PROVE  OverlayInv'
<1>1. UNCHANGED <<job, taken, thread, src, videos, shown, lastShown, down>>
  BY DEF WatchEnds, sessionVars
<1>2. videos # 0
  BY DEF WatchEnds, OverlayInv, BeforeVideos
<1>3. CASE UNCHANGED idle
  BY <1>1, <1>2, <1>3, OverlayUnchanged DEF OverlayInv, GuiTypes
<1>4. CASE idle' = Append(idle, Callback("done", None))
  <2>1. idle \in Seq(Callbacks) /\ Callback("done", None) \in Callbacks
    BY DEF OverlayInv, GuiTypes, Callbacks
  <2>2. PICK n \in Nat : n = Len(idle)
    BY <2>1
  <2>3. /\ idle' \in Seq(Callbacks) /\ DOMAIN idle = 1..n /\ DOMAIN idle' = 1..(n + 1)
        /\ \A i \in 1..n : idle'[i] = idle[i]
        /\ idle'[n + 1] = Callback("done", None)
    BY <1>4, <2>1, <2>2
  <2>4. idle'[n + 1].do = "done"
    BY <2>3 DEF Callback
  <2>5. \A i \in DOMAIN idle' : idle'[i].do # "done" => i \in 1..n /\ idle'[i] = idle[i]
    BY <2>2, <2>3, <2>4
  <2>6. GuiTypes'
    BY <1>1, <2>3 DEF OverlayInv, GuiTypes
  <2>7. BeforeVideos'
    BY <1>1, <1>2 DEF BeforeVideos
  <2>8. ASSUME videos <= 1
        PROVE  FirstVideo'
    <3>1. FirstVideo
      BY <2>8 DEF OverlayInv
    <3>2. ShownInOrder' /\ NextStart' = NextStart /\ down' # "overlay"
      BY <1>1, <3>1 DEF FirstVideo, ShownInOrder, NextStart
    <3>3. IdleInOrder'
      BY <3>1, <3>2, <1>1, <2>3, <2>5 DEF FirstVideo, IdleInOrder
    <3>4. SignsBehindFrames'
      <4>1. ASSUME NEW i \in DOMAIN idle', idle'[i].do = "sign"
            PROVE  \/ i = 1 /\ shown = idle'[i].at
                   \/ i # 1 /\ idle'[i - 1] = Callback("frame", idle'[i].at)
        <5>1. i \in 1..n /\ idle'[i] = idle[i]
          BY <4>1, <2>5
        <5>2. \/ i = 1 /\ shown = idle[i].at
              \/ i # 1 /\ idle[i - 1] = Callback("frame", idle[i].at)
          BY <5>1, <4>1, <3>1, <2>3 DEF FirstVideo, SignsBehindFrames
        <5>3. i # 1 => i - 1 \in 1..n
          BY <5>1, <2>2
        <5>4. QED
          BY <5>1, <5>2, <5>3, <2>3
      <4>2. QED
        BY <4>1, <1>1 DEF SignsBehindFrames
    <3>5. QED
      BY <3>1, <3>2, <3>3, <3>4 DEF FirstVideo
  <2>9. QED
    BY <1>1, <2>6, <2>7, <2>8 DEF OverlayInv
<1>5. QED
  BY <1>3, <1>4 DEF WatchEnds

(* A video starts over; the first with nothing shown.                       *)
LEMMA OverlayGoToVideo ==
  ASSUME OverlayInv, GoToVideo
  PROVE  OverlayInv'
<1>1. /\ videos' = videos + 1 /\ down = None /\ videos \in Nat
      /\ UNCHANGED <<src, shown, lastShown, idle, down>>
  BY DEF GoToVideo, SpawnPlayer, Up, OverlayInv, GuiTypes
<1>2. \/ UNCHANGED <<job, taken>>
      \/ src # None /\ job' = src /\ taken' = 0
  BY DEF GoToVideo, SpawnPlayer, WatchVideo, Start, sessionVars
<1>3. GuiTypes'
  BY <1>1, <1>2 DEF OverlayInv, GuiTypes
<1>4. BeforeVideos'
  BY <1>1 DEF BeforeVideos
<1>5. ASSUME videos' <= 1
      PROVE  FirstVideo'
  <2>1. videos = 0
    BY <1>1, <1>5
  <2>2. idle = <<>> /\ shown = None /\ lastShown = 0
    BY <2>1 DEF OverlayInv, BeforeVideos
  <2>3. QED
    BY <1>1, <2>2, GuiAssumption
       DEF FirstVideo, ShownInOrder, IdleInOrder, SignsBehindFrames
<1>6. QED
  BY <1>3, <1>4, <1>5 DEF OverlayInv

(* What is painted is what the first video's overlay can paint.             *)
LEMMA OverlayPaint ==
  ASSUME OverlayInv, PaintOverlay
  PROVE  OverlayInv'
<1>1. /\ UNCHANGED <<job, taken, thread, src, videos, shown, lastShown, idle, player>>
      /\ shown # None /\ shown < lastShown
  BY DEF PaintOverlay, GoDown, sessionVars
<1>2. ~ (videos <= 1)
  <2>1. lastShown \in Nat /\ (shown # None => shown \in Nat)
    BY DEF OverlayInv, GuiTypes
  <2>2. QED
    BY <1>1, <2>1 DEF OverlayInv, FirstVideo, ShownInOrder
<1>3. QED
  BY <1>1, <1>2 DEF OverlayInv, GuiTypes, BeforeVideos

(* Every step of the programs keeps the overlay in order.                   *)
LEMMA OverlayStep == OverlayInv /\ [Next]_appVars => OverlayInv'
<1> SUFFICES ASSUME OverlayInv, [Next]_appVars
             PROVE  OverlayInv'
  OBVIOUS
<1>1. src \in Jobs \cup {None}
  BY DEF OverlayInv, GuiTypes
<1>2. CASE UNCHANGED <<sessionVars, guiVars>>
  BY <1>1, <1>2, OverlayUnchanged DEF sessionVars, guiVars
<1>3. CASE Menu
  <2>1. CASE \E j \in Jobs : ChooseVideo(j)
    BY <1>1, <2>1, OverlayUnchanged DEF ChooseVideo, sessionVars
  <2>2. CASE ChooseOutput
    BY <1>1, <2>2, OverlayUnchanged DEF ChooseOutput, sessionVars
  <2>3. CASE GoToVideo
    BY <2>3, OverlayGoToVideo
  <2>4. QED
    BY <1>3, <2>1, <2>2, <2>3 DEF Menu
<1>4. CASE VideoView
  <2>1. CASE PressEnter
    BY <1>1, <2>1, OverlayUnchanged DEF PressEnter, sessionVars
  <2>2. CASE PressSpace
    BY <1>1, <2>2, OverlayUnchanged DEF PressSpace, GoDown, sessionVars
  <2>3. CASE PaintOverlay
    BY <2>3, OverlayPaint
  <2>4. CASE RunIdle
    BY <2>4, OverlayRunIdle
  <2>5. QED
    BY <1>4, <2>1, <2>2, <2>3, <2>4 DEF VideoView
<1>5. CASE NextSession /\ UNCHANGED guiVars
  <2>1. UNCHANGED <<src, videos, shown, lastShown, idle, player, down>>
    BY <1>5 DEF guiVars
  <2>2. CASE AskControllers
    <3>1. taken' = taken + 1 /\ UNCHANGED job /\ ~ job.app
      BY <2>2 DEF AskControllers
    <3>2. QED
      BY <2>1, <3>1, OverlayAdvance
  <2>3. CASE ThreadEnds
    BY <1>1, <2>1, <2>3, OverlayUnchanged DEF ThreadEnds
  <2>4. CASE Answer
    BY <1>1, <2>1, <2>4, OverlayUnchanged DEF Answer, Receive, ReceiveError
  <2>5. CASE Collect
    BY <1>1, <2>1, <2>5, OverlayUnchanged DEF Collect
  <2>6. CASE WriteFile
    BY <1>1, <2>1, <2>6, OverlayUnchanged DEF WriteFile
  <2>7. QED
    BY <1>5, <2>2, <2>3, <2>4, <2>5, <2>6 DEF NextSession
<1>6. CASE Signing
  BY <1>3, <1>4, <1>5, <1>6, OverlayGuiTurn, OverlayWatchEnds DEF Signing, NextGui, GuiSession
<1>7. QED
  BY <1>2, <1>6 DEF Next, Verifying, appVars

(* SignOverlay::paint, signer-gui/src/video.rs:92: however frames are       *)
(* shown, signed and painted, the overlay of the first video never computes *)
(* a time before zero.                                                      *)
THEOREM OverlayIsSafe == Spec => []OverlaySafe
<1>1. OverlayInv => OverlaySafe
  BY DEF OverlayInv, GuiTypes, FirstVideo, OverlaySafe
<1>2. QED
  BY <1>1, OverlayInit, OverlayStep, PTL DEF Spec

-----------------------------------------------------------------------------
(* Ranks and sequences.                                                    *)

(* A set of positions that goes down to the first is an interval.           *)
LEMMA DownToFirst ==
  ASSUME NEW n \in Nat, NEW D \in SUBSET (1..n),
         \A k \in D : \A j \in 1..k : j \in D
  PROVE  Cardinality(D) \in 0..n /\ D = 1..Cardinality(D)
<1> DEFINE Out == (1..(n + 1)) \ D
<1>1. Out \in SUBSET Nat /\ n + 1 \in Out
  OBVIOUS
<1>2. PICK m \in Out : \A k \in Out : m <= k
  BY <1>1, MinIsLeast
<1>3. m \in 1..(n + 1) /\ D = 1..(m - 1)
  <2>1. m \in 1..(n + 1) /\ m \notin D
    BY <1>2
  <2>2. ASSUME NEW k \in D
        PROVE  k \in 1..(m - 1)
    <3>1. k \in 1..n /\ (m \in 1..k => m \in D)
      BY <2>2
    <3>2. QED
      BY <2>1, <3>1
  <2>3. ASSUME NEW k \in 1..(m - 1)
        PROVE  k \in D
    <3>1. k \in 1..(n + 1) /\ ~ (m <= k)
      BY <2>1, <2>3
    <3>2. k \notin Out
      BY <3>1, <1>2
    <3>3. QED
      BY <3>1, <3>2
  <2>4. QED
    BY <2>1, <2>2, <2>3
<1>4. PICK c \in 0..n : c = m - 1
  BY <1>3
<1>5. Cardinality(1..c) = c
  BY <1>4, FS_Interval
<1>6. QED
  BY <1>3, <1>4, <1>5

(* How many of a set of positions are no further than i.                    *)
LEMMA RankTypes ==
  ASSUME NEW n \in Nat, NEW A \in SUBSET (1..n), NEW i \in Nat
  PROVE  /\ IsFiniteSet(A) /\ IsFiniteSet({ j \in A : j <= i })
         /\ Cardinality(A) \in Nat /\ Cardinality({ j \in A : j <= i }) \in Nat
<1>1. IsFiniteSet(1..n)
  BY FS_Interval
<1>2. IsFiniteSet(A)
  BY <1>1, FS_Subset
<1>3. IsFiniteSet({ j \in A : j <= i })
  BY <1>2, FS_Subset
<1>4. QED
  BY <1>2, <1>3, FS_CardinalityType

(* A set of positions has a k-th smallest for every k up to its size.       *)
LEMMA HasKth ==
  ASSUME NEW n \in Nat, NEW A \in SUBSET (1..n), NEW k \in 1..Cardinality(A)
  PROVE  \E i \in A : Cardinality({ j \in A : j <= i }) = k
<1> DEFINE UpTo(i) == { j \in A : j <= i }
           Enough == { i \in Nat : k <= Cardinality(UpTo(i)) }
<1>0. \A j \in A : j \in 1..n /\ j \in Nat \ {0} /\ j <= n
  OBVIOUS
<1>1. Enough # {}
  <2>1. UpTo(n) = A /\ Cardinality(A) \in Nat /\ k <= Cardinality(A)
    <3>1. UpTo(n) = A
      BY <1>0
    <3>2. Cardinality(A) \in Nat
      BY RankTypes
    <3>3. QED
      BY <3>1, <3>2
  <2>2. n \in Enough
    BY <2>1
  <2>3. QED
    BY <2>2
<1>2. PICK i \in Enough : \A m \in Enough : i <= m
  BY <1>1, MinIsLeast
<1>3. i \in Nat /\ k <= Cardinality(UpTo(i)) /\ k \in Nat \ {0}
  <2>1. Cardinality(A) \in Nat
    BY RankTypes
  <2>2. QED
    BY <2>1
<1>4. i # 0
  <2>1. UpTo(0) = {}
    <3>1. \A j \in A : ~ (j <= 0)
      BY <1>0
    <3>2. QED
      BY <3>1
  <2>2. Cardinality(UpTo(0)) = 0
    BY <2>1, FS_EmptySet
  <2>3. QED
    BY <2>2, <1>3
<1>5. PICK h \in Nat : h = i - 1
  BY <1>3, <1>4
<1>6. ~ (k <= Cardinality(UpTo(h)))
  <2>1. ~ (i <= h)
    BY <1>3, <1>5
  <2>2. h \notin Enough
    BY <2>1, <1>2
  <2>3. QED
    BY <2>2, <1>5
<1>7. /\ IsFiniteSet(UpTo(h)) /\ Cardinality(UpTo(h)) \in Nat /\ Cardinality(UpTo(i)) \in Nat
  BY <1>3, <1>5, RankTypes
<1>8. i \in A
  <2>1. CASE i \notin A
    <3>1. \A j \in A : j <= i <=> j <= h
      BY <2>1, <1>0, <1>3, <1>5
    <3>2. UpTo(i) = UpTo(h)
      BY <3>1
    <3>3. QED
      BY <3>2, <1>3, <1>6
  <2>2. QED
    BY <2>1
<1>9. UpTo(i) = UpTo(h) \cup {i} /\ i \notin UpTo(h)
  <2>1. \A j \in A : j <= i <=> (j <= h \/ j = i)
    BY <1>0, <1>3, <1>5
  <2>2. ~ (i <= h) /\ i <= i
    BY <1>3, <1>5
  <2>3. QED
    BY <2>1, <2>2, <1>8
<1>10. Cardinality(UpTo(i)) = Cardinality(UpTo(h)) + 1
  BY <1>7, <1>9, FS_AddElement
<1>11. \A x, y \in Nat : k <= x /\ ~ (k <= y) /\ x = y + 1 => x = k
  BY <1>3
<1>12. Cardinality(UpTo(i)) = k
  BY <1>3, <1>6, <1>7, <1>10, <1>11
<1>13. QED
  BY <1>8, <1>12

(* How many of a set of positions are no further than i.                    *)
Rank(A, i) == Cardinality({ j \in A : j <= i })

(* A rank is between the first and the last, and grows with the position.   *)
LEMMA Ranks ==
  ASSUME NEW n \in Nat, NEW A \in SUBSET (1..n), NEW i \in A
  PROVE  /\ Rank(A, i) \in 1..Cardinality(A)
         /\ \A h \in A : h < i => Rank(A, h) < Rank(A, i)
<1> DEFINE UpTo(x) == { j \in A : j <= x }
<1>1. i \in Nat /\ \A j \in A : j \in Nat
  OBVIOUS
<1>2. /\ IsFiniteSet(A) /\ IsFiniteSet(UpTo(i))
      /\ Cardinality(A) \in Nat /\ Cardinality(UpTo(i)) \in Nat
  BY <1>1, RankTypes
<1>3. Cardinality(UpTo(i)) <= Cardinality(A)
  <2>1. UpTo(i) \subseteq A
    OBVIOUS
  <2>2. QED
    BY <2>1, <1>2, FS_Subset
<1>4. Cardinality(UpTo(i)) # 0
  <2>1. i \in UpTo(i)
    BY <1>1
  <2>2. QED
    BY <2>1, <1>2, FS_EmptySet
<1>5. ASSUME NEW h \in A, h < i
      PROVE  Cardinality(UpTo(h)) < Cardinality(UpTo(i))
  <2>1. h \in Nat /\ IsFiniteSet(UpTo(h)) /\ Cardinality(UpTo(h)) \in Nat
    BY <1>1, RankTypes
  <2>2. UpTo(h) \cup {i} \subseteq UpTo(i) /\ i \notin UpTo(h)
    <3>1. \A j \in A : j <= h => j <= i
      BY <1>1, <1>5, <2>1
    <3>2. i <= i /\ ~ (i <= h)
      BY <1>1, <1>5, <2>1
    <3>3. QED
      BY <3>1, <3>2
  <2>3. Cardinality(UpTo(h) \cup {i}) = Cardinality(UpTo(h)) + 1
    BY <2>1, <2>2, FS_AddElement
  <2>4. Cardinality(UpTo(h) \cup {i}) <= Cardinality(UpTo(i))
    BY <1>2, <2>2, FS_Subset
  <2>5. QED
    BY <2>1, <2>3, <2>4, <1>2
<1>6. QED
  BY <1>2, <1>3, <1>4, <1>5 DEF Rank

(* So no two positions have the same rank.                                  *)
LEMMA RanksDiffer ==
  ASSUME NEW n \in Nat, NEW A \in SUBSET (1..n), NEW i \in A, NEW h \in A,
         Rank(A, h) = Rank(A, i)
  PROVE  h = i
<1>1. i \in Nat /\ h \in Nat
  OBVIOUS
<1>2. Rank(A, i) \in Nat /\ Rank(A, h) \in Nat
  BY <1>1, RankTypes DEF Rank
<1>3. ~ (h < i) /\ ~ (i < h)
  <2>1. h < i => Rank(A, h) < Rank(A, i)
    BY Ranks
  <2>2. i < h => Rank(A, i) < Rank(A, h)
    BY Ranks
  <2>3. QED
    BY <2>1, <2>2, <1>2
<1>4. QED
  BY <1>1, <1>3

(* The k-th of some positions is one of them, and each is the k-th for one  *)
(* k.                                                                       *)
LEMMA NthIs ==
  ASSUME NEW n \in Nat, NEW A \in SUBSET (1..n)
  PROVE  /\ Cardinality(A) \in Nat
         /\ \A k \in 1..Cardinality(A) : Nth(A, k) \in A
         /\ \A i \in A : \E k \in 1..Cardinality(A) : Nth(A, k) = i
         /\ \A k, l \in 1..Cardinality(A) : Nth(A, k) = Nth(A, l) => k = l
<1>1. PICK m \in Nat : m = Cardinality(A)
  BY RankTypes
<1>2. ASSUME NEW k \in 1..m
      PROVE  Nth(A, k) \in A /\ Rank(A, Nth(A, k)) = k
  <2>1. \E i \in A : Cardinality({ j \in A : j <= i }) = k
    <3>1. k \in 1..Cardinality(A)
      BY <1>1
    <3>2. QED
      BY <3>1, HasKth
  <2>2. QED
    BY <2>1 DEF Nth, Rank
<1>3. ASSUME NEW i \in A
      PROVE  \E k \in 1..m : Nth(A, k) = i
  <2>1. PICK k \in 1..m : k = Rank(A, i)
    BY <1>1, Ranks
  <2>2. PICK h \in A : h = Nth(A, k) /\ Rank(A, h) = k
    BY <1>2
  <2>3. h = i
    BY <2>1, <2>2, RanksDiffer
  <2>4. QED
    BY <2>2, <2>3
<1>4. \A k \in 1..m : Nth(A, k) \in A
  BY <1>2
<1>5. ASSUME NEW k \in 1..m, NEW l \in 1..m, Nth(A, k) = Nth(A, l)
      PROVE  k = l
  <2>1. Rank(A, Nth(A, k)) = k /\ Rank(A, Nth(A, l)) = l
    BY <1>2
  <2>2. QED
    BY <2>1, <1>5
<1>6. QED
  BY <1>1, <1>3, <1>4, <1>5

(* Kept: what is left stands at the positions in their order.               *)
LEMMA KeptIs ==
  ASSUME NEW n \in Nat, NEW A \in SUBSET (1..n), NEW s
  PROVE  /\ Cardinality(A) \in Nat /\ DOMAIN Kept(s, A) = 1..Cardinality(A)
         /\ \A k \in 1..Cardinality(A) : Kept(s, A)[k] = s[Nth(A, k)]
<1>1. PICK m \in Nat : m = Cardinality(A)
  BY RankTypes
<1>2. PICK g : g = Kept(s, A) /\ g = [ k \in 1..m |-> s[Nth(A, k)] ]
  BY <1>1 DEF Kept
<1>3. DOMAIN g = 1..m /\ \A k \in 1..m : g[k] = s[Nth(A, k)]
  BY <1>2
<1>4. QED
  BY <1>1, <1>2, <1>3

(* A sequence of whatever it holds stays one when another is put behind it. *)
LEMMA BehindAny ==
  ASSUME NEW s, s \in Seq(ToSet(s)), NEW u, u \in Seq(ToSet(u))
  PROVE  /\ s \o u \in Seq(ToSet(s \o u)) /\ Len(s) \in Nat /\ Len(u) \in Nat
         /\ DOMAIN s = 1..Len(s) /\ DOMAIN u = 1..Len(u)
         /\ DOMAIN (s \o u) = 1..(Len(s) + Len(u))
         /\ \A i \in 1..Len(s) : (s \o u)[i] = s[i]
         /\ \A i \in 1..Len(u) : (s \o u)[Len(s) + i] = u[i]
<1> DEFINE S == ToSet(s) \cup ToSet(u)
<1>1. s \in Seq(S) /\ u \in Seq(S)
  OBVIOUS
<1>2. /\ s \o u \in Seq(S) /\ Len(s) \in Nat /\ Len(u) \in Nat
      /\ DOMAIN (s \o u) = 1..(Len(s) + Len(u))
      /\ \A i \in 1..Len(s) : (s \o u)[i] = s[i]
      /\ \A i \in 1..Len(u) : (s \o u)[Len(s) + i] = u[i]
  BY <1>1, Behind
<1>3. PICK t \in Seq(S) : t = s \o u
  BY <1>2
<1>4. t \in Seq(ToSet(t))
  BY DEF ToSet
<1>5. QED
  BY <1>2, <1>3, <1>4

(* InsertAt: what is behind the place moves on by one.                      *)
LEMMA Inserted ==
  ASSUME NEW S, NEW s \in Seq(S), NEW e \in S, NEW p \in 1..(Len(s) + 1)
  PROVE  /\ InsertAt(s, p, e) \in Seq(S)
         /\ Len(InsertAt(s, p, e)) = Len(s) + 1
         /\ DOMAIN InsertAt(s, p, e) = 1..(Len(s) + 1)
         /\ InsertAt(s, p, e)[p] = e
         /\ \A i \in 1..(p - 1) : InsertAt(s, p, e)[i] = s[i]
         /\ \A i \in p..Len(s) : InsertAt(s, p, e)[i + 1] = s[i]
<1> DEFINE a == SubSeq(s, 1, p - 1)
           b == SubSeq(s, p, Len(s))
<1>1. PICK n \in Nat : n = Len(s)
  OBVIOUS
<1>2. /\ a \in Seq(S) /\ Len(a) = p - 1 /\ \A i \in 1..(p - 1) : a[i] = s[i]
  BY <1>1
<1>3. /\ b \in Seq(S) /\ Len(b) = n - p + 1 /\ \A i \in 1..(n - p + 1) : b[i] = s[p + i - 1]
  BY <1>1
<1> HIDE DEF a, b
<1>4. PICK c \in Seq(S) : c = a \o <<e>>
  <2>1. <<e>> \in Seq(S)
    OBVIOUS
  <2>2. QED
    BY <1>2, <2>1, ConcatProperties
<1>5. Len(c) = p /\ c[p] = e /\ \A i \in 1..(p - 1) : c[i] = s[i]
  BY <1>2, <1>4
<1>6. PICK r \in Seq(S) : r = c \o b
  BY <1>3, <1>4, ConcatProperties
<1>7. /\ Len(r) = n + 1
      /\ \A i \in 1..p : r[i] = c[i]
      /\ \A i \in 1..(n - p + 1) : r[p + i] = b[i]
  BY <1>1, <1>3, <1>5, <1>6
<1>8. \A i \in p..n : r[i + 1] = s[i]
  <2>1. ASSUME NEW i \in p..n
        PROVE  r[i + 1] = s[i]
    <3>1. PICK k \in 1..(n - p + 1) : k = i - p + 1
      BY <1>1
    <3>2. r[p + k] = b[k] /\ b[k] = s[p + k - 1] /\ p + k = i + 1 /\ p + k - 1 = i
      BY <3>1, <1>1, <1>3, <1>7
    <3>3. QED
      BY <3>2
  <2>2. QED
    BY <2>1
<1>9. r = InsertAt(s, p, e)
  BY <1>4, <1>6 DEF InsertAt, a, b
<1>10. QED
  BY <1>1, <1>5, <1>7, <1>8, <1>9

-----------------------------------------------------------------------------
(* The signature file.                                                     *)

Timed(s) == \A i \in DOMAIN s : s[i].start \in Int /\ s[i].stop \in Int

Sorted(s) == \A i, j \in DOMAIN s : i < j => ~ Before(s[j], s[i])

(* How often a file holds an interval.                                      *)
CountOf(s, v) == Cardinality({ i \in DOMAIN s : s[i] = v })

(* rust_lapper's order is a weak order.                                     *)
LEMMA BeforeIsWeakOrder ==
  ASSUME NEW a, a.start \in Int /\ a.stop \in Int, NEW b, b.start \in Int /\ b.stop \in Int,
         NEW c, c.start \in Int /\ c.stop \in Int
  PROVE  /\ ~ Before(a, a)
         /\ Before(a, b) => ~ Before(b, a)
         /\ Before(a, b) => Before(a, c) \/ Before(c, b)
BY DEF Before

(* The intervals in front of another are the first of a sorted file.        *)
LEMMA PushPlace ==
  ASSUME NEW S, NEW s \in Seq(S), Timed(s), Sorted(s),
         NEW e, e.start \in Int /\ e.stop \in Int
  PROVE  LET D == { k \in DOMAIN s : Before(s[k], e) }
         IN  Cardinality(D) \in 0..Len(s) /\ D = 1..Cardinality(D)
<1> DEFINE D == { k \in DOMAIN s : Before(s[k], e) }
<1>1. PICK n \in Nat : n = Len(s) /\ DOMAIN s = 1..n
  OBVIOUS
<1>2. D \in SUBSET (1..n)
  BY <1>1
<1>3. ASSUME NEW k \in D, NEW j \in 1..k
      PROVE  j \in D
  <2>1. k \in 1..n /\ j \in 1..n /\ Before(s[k], e)
    BY <1>1, <1>3
  <2>2. CASE j = k
    BY <2>2
  <2>3. CASE j # k
    <3>1. j < k
      BY <2>1, <2>3
    <3>2. ~ Before(s[k], s[j])
      BY <3>1, <2>1, <1>1 DEF Sorted
    <3>3. Before(s[j], e)
      <4>1. s[k].start \in Int /\ s[k].stop \in Int /\ s[j].start \in Int /\ s[j].stop \in Int
        BY <2>1, <1>1 DEF Timed
      <4>2. QED
        BY <4>1, <3>2, <2>1, BeforeIsWeakOrder
    <3>4. QED
      BY <3>3, <2>1, <1>1
  <2>4. QED
    BY <2>2, <2>3
<1> HIDE DEF D
<1>4. Cardinality(D) \in 0..n /\ D = 1..Cardinality(D)
  BY <1>2, <1>3, DownToFirst
<1>5. QED
  BY <1>1, <1>4 DEF D

(* Push is an insertion behind what is in front of the interval.            *)
LEMMA PushInserts ==
  ASSUME NEW S, NEW s \in Seq(S), Timed(s), Sorted(s),
         NEW e \in S, e.start \in Int /\ e.stop \in Int
  PROVE  \E p \in 1..(Len(s) + 1) :
            /\ Push(s, e) = InsertAt(s, p, e)
            /\ \A k \in DOMAIN s : Before(s[k], e) <=> k < p
<1> DEFINE D == { k \in DOMAIN s : Before(s[k], e) }
<1>1. Cardinality(D) \in 0..Len(s) /\ D = 1..Cardinality(D)
  BY PushPlace
<1>2. PICK n \in Nat : n = Len(s) /\ DOMAIN s = 1..n
  OBVIOUS
<1>3. PICK c \in 0..n : c = Cardinality(D)
  BY <1>1, <1>2
<1>4. Push(s, e) = InsertAt(s, c + 1, e)
  BY <1>3 DEF Push
<1>5. \A k \in DOMAIN s : Before(s[k], e) <=> k < c + 1
  <2>1. D = 1..c
    BY <1>1, <1>3
  <2>2. \A k \in 1..n : k \in 1..c <=> k < c + 1
    BY <1>2, <1>3
  <2>3. QED
    BY <2>1, <2>2, <1>2
<1>6. c + 1 \in 1..(n + 1)
  BY <1>2, <1>3
<1>7. QED
  BY <1>2, <1>4, <1>5, <1>6

(* Push keeps a file sorted.                                                *)
LEMMA PushSorts ==
  ASSUME NEW S, NEW s \in Seq(S), Timed(s), Sorted(s),
         NEW e \in S, e.start \in Int /\ e.stop \in Int
  PROVE  /\ Push(s, e) \in Seq(S) /\ Len(Push(s, e)) = Len(s) + 1
         /\ Timed(Push(s, e)) /\ Sorted(Push(s, e))
         /\ \A i \in DOMAIN Push(s, e) :
               Push(s, e)[i] = e \/ \E j \in DOMAIN s : Push(s, e)[i] = s[j]
<1>1. PICK p \in 1..(Len(s) + 1) :
            /\ Push(s, e) = InsertAt(s, p, e)
            /\ \A k \in DOMAIN s : Before(s[k], e) <=> k < p
  BY PushInserts
<1>2. PICK n \in Nat : n = Len(s) /\ DOMAIN s = 1..n
  OBVIOUS
<1>3. PICK r : r = Push(s, e)
  OBVIOUS
<1>4. /\ r \in Seq(S) /\ Len(r) = n + 1 /\ DOMAIN r = 1..(n + 1) /\ r[p] = e
      /\ \A i \in 1..(p - 1) : r[i] = s[i]
      /\ \A i \in p..n : r[i + 1] = s[i]
  <2>1. r = InsertAt(s, p, e)
    BY <1>1, <1>3
  <2>2. /\ InsertAt(s, p, e) \in Seq(S)
        /\ Len(InsertAt(s, p, e)) = Len(s) + 1
        /\ DOMAIN InsertAt(s, p, e) = 1..(Len(s) + 1)
        /\ InsertAt(s, p, e)[p] = e
        /\ \A i \in 1..(p - 1) : InsertAt(s, p, e)[i] = s[i]
        /\ \A i \in p..Len(s) : InsertAt(s, p, e)[i + 1] = s[i]
    BY Inserted
  <2>3. QED
    BY <2>1, <2>2, <1>2
<1>5. p \in 1..(n + 1)
  BY <1>1, <1>2
<1>6. \A i \in DOMAIN r : \/ i = p /\ r[i] = e
                          \/ i < p /\ i \in 1..n /\ r[i] = s[i]
                          \/ p < i /\ i - 1 \in p..n /\ r[i] = s[i - 1]
  <2>1. ASSUME NEW i \in 1..(n + 1), p < i
        PROVE  i - 1 \in p..n /\ r[i] = s[i - 1]
    <3>1. i - 1 \in p..n /\ (i - 1) + 1 = i
      BY <2>1, <1>2, <1>5
    <3>2. QED
      BY <3>1, <1>4
  <2>2. ASSUME NEW i \in 1..(n + 1), i < p
        PROVE  i \in 1..n /\ i \in 1..(p - 1)
    BY <2>2, <1>2, <1>5
  <2>3. \A i \in 1..(n + 1) : i = p \/ i < p \/ p < i
    BY <1>2, <1>5
  <2>4. QED
    BY <2>1, <2>2, <2>3, <1>4
<1>7. Timed(r)
  <2>1. ASSUME NEW i \in DOMAIN r
        PROVE  r[i].start \in Int /\ r[i].stop \in Int
    <3>1. CASE p < i /\ i - 1 \in p..n /\ r[i] = s[i - 1]
      <4>1. i - 1 \in 1..n
        BY <3>1, <1>2, <1>5
      <4>2. QED
        BY <4>1, <3>1, <1>2 DEF Timed
    <3>2. QED
      BY <3>1, <1>2, <1>6 DEF Timed
  <2>2. QED
    BY <2>1 DEF Timed
<1>8. Sorted(r)
  <2>1. ASSUME NEW i \in DOMAIN r, NEW j \in DOMAIN r, i < j
        PROVE  ~ Before(r[j], r[i])
    <3>1. i \in 1..(n + 1) /\ j \in 1..(n + 1)
      BY <1>4
    <3>2. CASE j < p
      <4>1. i < p /\ i # p /\ j # p /\ ~ (p < i) /\ ~ (p < j)
        BY <3>1, <3>2, <2>1, <1>5
      <4>2. r[i] = s[i] /\ r[j] = s[j] /\ i \in 1..n /\ j \in 1..n
        BY <4>1, <1>6
      <4>3. QED
        BY <4>2, <2>1, <1>2 DEF Sorted
    <3>3. CASE j = p
      <4>1. i < p /\ i # p /\ ~ (p < i)
        BY <3>3, <2>1, <3>1, <1>5
      <4>2. r[i] = s[i] /\ r[j] = e /\ i \in 1..n
        BY <4>1, <3>3, <1>6, <1>4
      <4>3. Before(s[i], e)
        BY <4>1, <4>2, <1>1, <1>2
      <4>4. s[i].start \in Int /\ s[i].stop \in Int
        BY <4>2, <1>2 DEF Timed
      <4>5. QED
        BY <4>2, <4>3, <4>4, BeforeIsWeakOrder
    <3>4. CASE p < j
      <4>1. j # p /\ ~ (j < p)
        BY <3>4, <3>1, <1>5
      <4>2. r[j] = s[j - 1] /\ j - 1 \in p..n
        BY <4>1, <1>6
      <4>3. PICK h \in 1..n : h = j - 1 /\ p <= h
        BY <4>2, <1>2, <1>5
      <4>4. s[h].start \in Int /\ s[h].stop \in Int /\ r[j] = s[h] /\ ~ Before(s[h], e)
        <5>1. ~ (h < p)
          BY <4>3, <1>5
        <5>2. QED
          BY <5>1, <4>2, <4>3, <1>1, <1>2 DEF Timed
      <4>5. CASE i = p
        BY <4>5, <4>4, <1>4
      <4>6. CASE i < p
        <5>1. i # p /\ ~ (p < i)
          BY <4>6, <3>1, <1>5
        <5>2. r[i] = s[i] /\ i \in 1..n
          BY <5>1, <1>6
        <5>3. i < h
          BY <4>6, <4>3, <3>1, <1>5
        <5>4. QED
          BY <5>2, <5>3, <4>3, <4>4, <1>2 DEF Sorted
      <4>7. CASE p < i
        <5>1. i # p /\ ~ (i < p)
          BY <4>7, <3>1, <1>5
        <5>2. r[i] = s[i - 1] /\ i - 1 \in p..n
          BY <5>1, <1>6
        <5>3. PICK g \in 1..n : g = i - 1
          BY <5>2, <1>2, <1>5
        <5>4. g < h /\ r[i] = s[g]
          BY <5>2, <5>3, <4>3, <2>1, <3>1
        <5>5. QED
          BY <5>4, <4>4, <1>2 DEF Sorted
      <4>8. QED
        BY <4>5, <4>6, <4>7, <3>1, <1>5
    <3>5. QED
      BY <3>2, <3>3, <3>4, <3>1, <1>5
  <2>2. QED
    BY <2>1 DEF Sorted
<1>9. ASSUME NEW i \in DOMAIN r
      PROVE  r[i] = e \/ \E j \in DOMAIN s : r[i] = s[j]
  <2>1. \A j \in p..n : j \in 1..n
    BY <1>2, <1>5
  <2>2. QED
    BY <2>1, <1>2, <1>6
<1>10. QED
  BY <1>2, <1>3, <1>4, <1>7, <1>8, <1>9

(* Push adds one interval, and no other is lost or doubled.                 *)
LEMMA PushCounts ==
  ASSUME NEW S, NEW s \in Seq(S), Timed(s), Sorted(s),
         NEW e \in S, e.start \in Int /\ e.stop \in Int, NEW v
  PROVE  CountOf(Push(s, e), v) = CountOf(s, v) + (IF v = e THEN 1 ELSE 0)
<1>1. PICK p \in 1..(Len(s) + 1) : Push(s, e) = InsertAt(s, p, e)
  BY PushInserts
<1>2. PICK n \in Nat : n = Len(s) /\ DOMAIN s = 1..n
  OBVIOUS
<1>3. PICK r : r = Push(s, e)
  OBVIOUS
<1>4. /\ DOMAIN r = 1..(n + 1) /\ r[p] = e /\ p \in 1..(n + 1)
      /\ \A i \in 1..(p - 1) : r[i] = s[i]
      /\ \A i \in p..n : r[i + 1] = s[i]
  <2>1. r = InsertAt(s, p, e)
    BY <1>1, <1>3
  <2>2. /\ InsertAt(s, p, e) \in Seq(S)
        /\ Len(InsertAt(s, p, e)) = Len(s) + 1
        /\ DOMAIN InsertAt(s, p, e) = 1..(Len(s) + 1)
        /\ InsertAt(s, p, e)[p] = e
        /\ \A i \in 1..(p - 1) : InsertAt(s, p, e)[i] = s[i]
        /\ \A i \in p..Len(s) : InsertAt(s, p, e)[i + 1] = s[i]
    BY Inserted
  <2>3. QED
    BY <2>1, <2>2, <1>2
<1> DEFINE Old == { i \in 1..n : s[i] = v }
           New == { i \in 1..(n + 1) : r[i] = v }
           Moved == New \ {p}
           f == [ i \in Old |-> IF i < p THEN i ELSE i + 1 ]
<1>5. \A i \in 1..n : r[IF i < p THEN i ELSE i + 1] = s[i]
  <2>1. ASSUME NEW i \in 1..n
        PROVE  r[IF i < p THEN i ELSE i + 1] = s[i]
    <3>1. CASE i < p
      <4>1. i \in 1..(p - 1)
        BY <3>1, <1>4
      <4>2. QED
        BY <4>1, <3>1, <1>4
    <3>2. CASE ~ (i < p)
      <4>1. i \in p..n
        BY <3>2, <1>4
      <4>2. QED
        BY <4>1, <3>2, <1>4
    <3>3. QED
      BY <3>1, <3>2
  <2>2. QED
    BY <2>1
<1>6. IsFiniteSet(Old) /\ IsFiniteSet(New) /\ IsFiniteSet(Moved)
  <2>1. IsFiniteSet(1..n) /\ IsFiniteSet(1..(n + 1))
    BY <1>2, FS_Interval
  <2>2. QED
    BY <2>1, FS_Subset
<1>7. f \in Bijection(Old, Moved)
  <2>1. ASSUME NEW i \in Old
        PROVE  f[i] \in Moved
    <3>1. i \in 1..n /\ s[i] = v /\ f[i] = IF i < p THEN i ELSE i + 1
      OBVIOUS
    <3>2. r[f[i]] = v
      BY <3>1, <1>5
    <3>3. f[i] \in 1..(n + 1) /\ f[i] # p
      BY <3>1, <1>2, <1>4
    <3>4. QED
      BY <3>2, <3>3
  <2>2. ASSUME NEW i \in Old, NEW j \in Old, f[i] = f[j]
        PROVE  i = j
    <3>1. /\ i \in 1..n /\ f[i] = IF i < p THEN i ELSE i + 1
          /\ j \in 1..n /\ f[j] = IF j < p THEN j ELSE j + 1
      OBVIOUS
    <3>2. QED
      BY <3>1, <2>2, <1>2, <1>4
  <2>3. ASSUME NEW j \in Moved
        PROVE  \E i \in Old : f[i] = j
    <3>1. j \in 1..(n + 1) /\ r[j] = v /\ j # p
      OBVIOUS
    <3>2. PICK i \in Int : i = IF j < p THEN j ELSE j - 1
      BY <3>1
    <3>3. i \in 1..n /\ j = IF i < p THEN i ELSE i + 1
      BY <3>1, <3>2, <1>2, <1>4
    <3>4. i \in Old
      BY <3>1, <3>3, <1>5
    <3>5. QED
      BY <3>3, <3>4
  <2>4. f \in [Old -> Moved]
    BY <2>1
  <2>5. QED
    BY <2>2, <2>3, <2>4 DEF Bijection, Injection, Surjection, IsInjective
<1>8. Cardinality(Moved) = Cardinality(Old)
  BY <1>6, <1>7, FS_Bijection DEF ExistsBijection
<1>9. Cardinality(Old) \in Nat
  BY <1>6, FS_CardinalityType
<1>10. ASSUME v = e
       PROVE  Cardinality(New) = Cardinality(Old) + 1
  <2>1. New = Moved \cup {p} /\ p \notin Moved
    BY <1>10, <1>4
  <2>2. Cardinality(New) = Cardinality(Moved) + 1
    BY <2>1, <1>6, FS_AddElement
  <2>3. QED
    BY <2>2, <1>8
<1>11. ASSUME v # e
       PROVE  New = Moved
  BY <1>11, <1>4
<1>12. /\ { i \in DOMAIN s : s[i] = v } = Old
       /\ { i \in DOMAIN Push(s, e) : Push(s, e)[i] = v } = New
  BY <1>2, <1>3, <1>4
<1> HIDE DEF Old, New, Moved
<1>13. Cardinality(New) = Cardinality(Old) + (IF v = e THEN 1 ELSE 0)
  BY <1>8, <1>9, <1>10, <1>11
<1>14. QED
  BY <1>12, <1>13 DEF CountOf

(* FromIntervals of a sorted list is the list.                              *)
LEMMA SortedStays ==
  ASSUME NEW S, NEW s \in Seq(S), Timed(s), Sorted(s)
  PROVE  FromIntervals(s) = s
<1> DEFINE Ahead(j, k) == Before(s[j], s[k]) \/ (j < k /\ ~ Before(s[k], s[j]))
           Place(k) == Cardinality({ j \in DOMAIN s : Ahead(j, k) }) + 1
<1>1. PICK n \in Nat : n = Len(s) /\ DOMAIN s = 1..n
  OBVIOUS
<1>2. ASSUME NEW k \in 1..n
      PROVE  Place(k) = k
  <2>1. ASSUME NEW j \in 1..n
        PROVE  Ahead(j, k) <=> j < k
    <3>1. /\ s[j].start \in Int /\ s[j].stop \in Int
          /\ s[k].start \in Int /\ s[k].stop \in Int
      BY <1>1 DEF Timed
    <3>2. CASE j < k
      BY <3>2, <1>1 DEF Sorted
    <3>3. CASE j = k
      BY <3>1, <3>3, BeforeIsWeakOrder
    <3>4. CASE k < j
      <4>1. ~ (j < k)
        BY <3>4
      <4>2. ~ Before(s[j], s[k])
        BY <3>4, <1>1 DEF Sorted
      <4>3. QED
        BY <4>1, <4>2
    <3>5. QED
      BY <3>2, <3>3, <3>4
  <2>2. { j \in DOMAIN s : Ahead(j, k) } = 1..(k - 1)
    <3>1. \A j \in 1..n : j < k <=> j \in 1..(k - 1)
      BY <1>1
    <3>2. \A j \in 1..(k - 1) : j \in 1..n
      BY <1>1
    <3>3. \A j : j \in { i \in DOMAIN s : Ahead(i, k) } <=> j \in 1..n /\ Ahead(j, k)
      BY <1>1
    <3>4. \A j : j \in { i \in DOMAIN s : Ahead(i, k) } <=> j \in 1..(k - 1)
      BY <2>1, <3>1, <3>2, <3>3
    <3>5. QED
      BY <3>4
  <2>3. k \in Nat /\ 1 <= k /\ k - 1 \in Nat
    BY <1>1
  <2>4. Cardinality(1..(k - 1)) = k - 1
    BY <2>3, FS_Interval
  <2>5. Place(k) = (k - 1) + 1
    BY <2>2, <2>4
  <2>6. QED
    BY <2>3, <2>5
<1> HIDE DEF Place
<1>3. ASSUME NEW p \in DOMAIN s
      PROVE  s[CHOOSE k \in DOMAIN s : Place(k) = p] = s[p]
  BY <1>1, <1>2, <1>3
<1>4. [ p \in DOMAIN s |-> s[CHOOSE k \in DOMAIN s : Place(k) = p] ] = [ p \in DOMAIN s |-> s[p] ]
  BY <1>3, Zenon
<1>5. s = [ p \in DOMAIN s |-> s[p] ]
  OBVIOUS
<1>6. FromIntervals(s) = [ p \in DOMAIN s |-> s[CHOOSE k \in DOMAIN s : Place(k) = p] ]
  BY DEF FromIntervals, Place
<1>7. QED
  BY <1>4, <1>5, <1>6

(* Milliseconds as SRT has them come back as they were.                     *)
LEMMA MillisReturn ==
  ASSUME NEW x \in Int
  PROVE  x \div Tick \in Int /\ (FromSrt(x \div Tick) \div Tick) = x \div Tick
<1>1. Tick \in Nat \ {0}
  BY TimeAssumption
<1>2. PICK k \in Int : k = x \div Tick
  BY <1>1
<1>3. (k * Tick) \div Tick = k
  BY <1>1
<1>4. QED
  BY <1>2, <1>3 DEF FromSrt

(* A signed interval reads back as it was written: a definition with its    *)
(* credential, and a reference without.                                     *)
LEMMA RoundTrip ==
  ASSUME NEW from \in Int, NEW to \in Int, NEW q
  PROVE  LET v == SignedInterval(from, to, Signature(q))
         IN  v.start \in Int /\ v.stop \in Int /\ FromSubtitle(AsSubtitle(v)) = v
<1> DEFINE sig == Signature(q)
           v == SignedInterval(from, to, sig)
<1>1. v.start = from \div Tick /\ v.stop = to \div Tick /\ v.val = sig
  BY DEF SignedInterval
<1>2. FromJson(Json(sig)) = sig
  <2>1. PICK p : p = sig.presentation /\ p = [kind |-> IF q.ref THEN "ref" ELSE "def", id |-> q.who]
    BY DEF Signature
  <2>2. PresentationFrom(PresentationJson(p)) = p
    <3>1. CASE q.ref
      BY <2>1, <3>1 DEF PresentationFrom, PresentationJson
    <3>2. CASE ~ q.ref
      BY <2>1, <3>2 DEF PresentationFrom, PresentationJson
    <3>3. QED
      BY <3>1, <3>2
  <2>3. sig = [presentation |-> p, area |-> q.area, channels |-> q.channels]
    BY <2>1 DEF Signature
  <2>4. Json(sig) = [presentation |-> PresentationJson(p), area |-> q.area, channels |-> q.channels]
    BY <2>3 DEF Json
  <2>5. FromJson(Json(sig)) = [presentation |-> PresentationFrom(PresentationJson(p)),
                               area |-> q.area, channels |-> q.channels]
    BY <2>4 DEF FromJson
  <2>6. QED
    BY <2>2, <2>3, <2>5
<1>3. /\ v.start \in Int /\ v.stop \in Int
      /\ FromSrt(v.start) \div Tick = v.start /\ FromSrt(v.stop) \div Tick = v.stop
  BY <1>1, MillisReturn
<1>4. FromSubtitle(AsSubtitle(v)) =
        [start |-> FromSrt(v.start) \div Tick, stop |-> FromSrt(v.stop) \div Tick,
         val |-> FromJson(Json(sig))]
  BY <1>1 DEF FromSubtitle, AsSubtitle, SignedInterval
<1>5. v = [start |-> v.start, stop |-> v.stop, val |-> sig]
  BY DEF SignedInterval
<1>6. QED
  BY <1>2, <1>3, <1>4, <1>5

-----------------------------------------------------------------------------
(* What the controllers ask for.                                           *)

(* A controller, whatever it has asked for so far.                          *)
IsController(c) ==
    /\ {"kind", "who", "interval", "range", "started"} \subseteq DOMAIN c
    /\ c.interval \in Nat \ {0}
    /\ c.range = None \/ {c.range.start, c.range.end} \subseteq Nat

(* A controller is one from its constructor on.                             *)
LEMMA NewIsController ==
  ASSUME NEW c, IsNewController(c)
  PROVE  IsController(c)
<1>1. c.interval \in Nat \ {0} /\ (c.range = None \/ {c.range.start, c.range.end} \subseteq Nat)
  BY DEF IsNewController
<1>2. {"kind", "who", "interval", "range", "started"} \subseteq DOMAIN c
  <2>1. CASE c = FnMutController(c.who, c.interval)
    <3>1. PICK w, i : w = c.who /\ i = c.interval
      OBVIOUS
    <3>2. c = FnMutController(w, i)
      BY <2>1, <3>1
    <3>3. {"kind", "who", "interval", "range", "started"} \subseteq DOMAIN FnMutController(w, i)
      BY DEF FnMutController
    <3>4. QED
      BY <3>2, <3>3
  <2>2. CASE c = [IntervalController(c.who, c.interval) EXCEPT
                    !.range = c.range, !.area = c.area, !.channels = c.channels]
    <3>1. PICK w, i, r, a, h : /\ w = c.who /\ i = c.interval /\ r = c.range
                               /\ a = c.area /\ h = c.channels
      OBVIOUS
    <3>2. c = [IntervalController(w, i) EXCEPT !.range = r, !.area = a, !.channels = h]
      BY <2>2, <3>1
    <3>3. {"kind", "who", "interval", "range", "started"} \subseteq DOMAIN IntervalController(w, i)
      BY DEF IntervalController
    <3>4. DOMAIN c = DOMAIN IntervalController(w, i)
      BY <3>2
    <3>5. QED
      BY <3>3, <3>4
  <2>3. QED
    BY <2>1, <2>2 DEF IsNewController
<1>3. QED
  BY <1>1, <1>2 DEF IsController

(* It stays one when it has asked.                                          *)
LEMMA StaysController ==
  ASSUME NEW c, IsController(c), NEW b
  PROVE  IsController([c EXCEPT !.started = b])
<1>1. PICK d : d = [c EXCEPT !.started = b]
  OBVIOUS
<1>2. DOMAIN d = DOMAIN c /\ d.interval = c.interval /\ d.range = c.range
  BY <1>1 DEF IsController
<1>3. QED
  BY <1>1, <1>2 DEF IsController

(* The times of a frame.                                                    *)
LEMMA FrameTimes ==
  ASSUME NEW j \in Jobs, NEW k \in Nat \ {0}
  PROVE  /\ FrameState(j, k).time.start \in Nat /\ FrameState(j, k).time.end \in Nat
         /\ FrameState(j, k).time.start <= FrameState(j, k).time.end
<1>1. IsRate(j.rate) /\ j.offset \in Nat /\ k - 1 \in Nat
  BY JobTypes
<1>2. PICK p \in Nat : p = Pts(j.rate, k - 1)
  BY <1>1, PtsAtLeast
<1>3. PICK l \in Nat : l = FrameLength(j)
  <2>1. SecondsOf(j.rate) \in Nat /\ j.rate.frames \in Nat \ {0}
    BY <1>1, SecondsOfType
  <2>2. QED
    BY <2>1, Division DEF FrameLength, FloorDiv
<1>4. FrameState(j, k).time = [start |-> j.offset + p, end |-> j.offset + p + l]
  BY <1>2, <1>3 DEF FrameState, Span
<1>5. QED
  BY <1>1, <1>4

(* Where a frame crosses is a time, if it crosses.                          *)
LEMMA CrossingType ==
  ASSUME NEW t, t.start \in Int /\ t.end \in Int, NEW d \in Nat \ {0}
  PROVE  Crossing(t, d) = None \/ Crossing(t, d) \in Int
<1>1. Tick \in Nat \ {0}
  BY TimeAssumption
<1>2. PICK a \in Int : a = (t.start % d) + Duration(t)
  BY DEF Duration
<1>3. PICK e \in Int : e = RoundMillis(a)
  <2>1. PICK x \in Int : x = 2 * a + Tick
    BY <1>1
  <2>2. PICK y \in Nat \ {0} : y = 2 * Tick
    BY <1>1
  <2>3. x \div y \in Int
    OBVIOUS
  <2>4. RoundMillis(a) = (x \div y) * Tick
    BY <2>1, <2>2 DEF RoundMillis
  <2>5. QED
    BY <2>3, <2>4, <1>1
<1>4. Crossing(t, d) = IF e < d THEN None ELSE t.end - (e - d)
  BY <1>2, <1>3 DEF Crossing
<1>5. QED
  BY <1>4

(* Flooring a time gives a time.                                            *)
LEMMA FloorType ==
  ASSUME NEW x \in Int
  PROVE  FloorMillis(x) \in Int
BY TimeAssumption DEF FloorMillis

(* The start of a chunk is a time.                                          *)
LEMMA ChunkStartType ==
  ASSUME NEW c, IsController(c), NEW f, f.time.start \in Int /\ f.time.end \in Int
  PROVE  ChunkStart(c, f) \in Int
<1>1. PICK t : t = Converted(c, f.time)
  OBVIOUS
<1>2. t.start \in Int /\ t.end \in Int
  <2>1. CASE c.range = None
    BY <1>1, <2>1 DEF Converted
  <2>2. CASE c.range # None
    <3>1. c.range.start \in Nat
      BY <2>2 DEF IsController
    <3>2. t = [start |-> f.time.start - c.range.start,
               end |-> f.time.start - c.range.start + (f.time.end - f.time.start)]
      BY <1>1, <2>2 DEF Converted, Earlier, Span, Duration
    <3>3. QED
      BY <3>1, <3>2
  <2>3. QED
    BY <2>1, <2>2
<1>3. c.interval \in Nat \ {0}
  BY DEF IsController
<1>4. Crossing(t, c.interval) = None \/ Crossing(t, c.interval) \in Int
  BY <1>2, <1>3, CrossingType
<1>5. PICK x : x = Crossing(t, c.interval)
  OBVIOUS
<1>6. PICK e \in Int : e = IF x = None THEN f.time.end ELSE x
  BY <1>4, <1>5
<1>7. ChunkStart(c, f) = IF e < c.interval THEN 0 ELSE e - c.interval
  BY <1>1, <1>5, <1>6 DEF ChunkStart
<1>8. QED
  BY <1>3, <1>7

(* What get_chunk returns starts at a time.                                 *)
LEMMA GetChunkType ==
  ASSUME NEW c, IsController(c), NEW f, f.time.start \in Int /\ f.time.end \in Int
  PROVE  Built(GetChunk(c, f)).start \in Int
<1>1. PICK x \in Int : x = ChunkStart(c, f)
  BY ChunkStartType
<1>2. PICK y \in Int : y = FloorMillis(x)
  BY FloorType
<1>3. PICK w, r : w = c.who /\ r = AsRef(c)
  OBVIOUS
<1>4. PICK whole : whole = WithIsRef(Request(x, w), r)
  OBVIOUS
<1>5. whole.start = y /\ {"start", "area", "channels"} \subseteq DOMAIN whole
  <2>1. Request(x, w) = [start |-> y, who |-> w, ref |-> FALSE, area |-> None, channels |-> None]
    BY <1>2 DEF Request
  <2>2. PICK q : q = Request(x, w)
    OBVIOUS
  <2>3. q.start = y /\ {"start", "area", "channels"} \subseteq DOMAIN q
    BY <2>1, <2>2
  <2>4. whole = [q EXCEPT !.ref = r]
    BY <1>4, <2>2 DEF WithIsRef
  <2>5. QED
    BY <2>3, <2>4
<1>6. PICK part : part = IF c.area = None THEN whole ELSE WithEmbedding(whole, c.area)
  OBVIOUS
<1>7. part.start = y /\ DOMAIN part = DOMAIN whole
  <2>1. CASE c.area = None
    BY <2>1, <1>5, <1>6
  <2>2. CASE c.area # None
    <3>1. part = [whole EXCEPT !.area = c.area]
      BY <2>2, <1>6 DEF WithEmbedding
    <3>2. QED
      BY <3>1, <1>5
  <2>3. QED
    BY <2>1, <2>2
<1>8. PICK q : q = IF c.channels = None THEN part ELSE WithChannels(part, c.channels)
  OBVIOUS
<1>9. q.start = y /\ DOMAIN q = DOMAIN whole
  <2>1. CASE c.channels = None
    BY <2>1, <1>7, <1>8
  <2>2. CASE c.channels # None
    <3>1. q = [part EXCEPT !.channels = c.channels]
      BY <2>2, <1>8 DEF WithChannels
    <3>2. QED
      BY <3>1, <1>5, <1>7
  <2>3. QED
    BY <2>1, <2>2
<1>10. GetChunk(c, f) = q
  BY <1>1, <1>3, <1>4, <1>6, <1>8 DEF GetChunk
<1>11. Built(q).start = q.start
  <2>1. {"start", "area", "channels"} \subseteq DOMAIN q
    BY <1>5, <1>9
  <2>2. QED
    BY <2>1 DEF Built
<1>12. QED
  BY <1>2, <1>9, <1>10, <1>11

(* MultiController::get_chunks: a chunk for each controller that asks, and  *)
(* nothing else.                                                            *)
LEMMA GetChunksAre ==
  ASSUME NEW cs, NEW n \in Nat, DOMAIN cs = 1..n, NEW f
  PROVE  /\ GetChunks(cs, f) \in Seq(ToSet(GetChunks(cs, f)))
         /\ \A k \in DOMAIN GetChunks(cs, f) : \E i \in 1..n :
               Asks(cs[i], f) /\ GetChunks(cs, f)[k] = GetChunk(cs[i], f)
         /\ \A i \in 1..n : Asks(cs[i], f) =>
               \E k \in DOMAIN GetChunks(cs, f) : GetChunks(cs, f)[k] = GetChunk(cs[i], f)
<1>1. PICK A \in SUBSET (1..n) : A = { i \in DOMAIN cs : Asks(cs[i], f) }
  OBVIOUS
<1>2. PICK m \in Nat : m = Cardinality(A)
  BY RankTypes
<1>3. /\ \A k \in 1..m : Nth(A, k) \in A
      /\ \A i \in A : \E k \in 1..m : Nth(A, k) = i
  BY <1>2, NthIs
<1>4. PICK u : u = Kept(cs, A)
  OBVIOUS
<1>5. DOMAIN u = 1..m /\ \A k \in 1..m : u[k] = cs[Nth(A, k)]
  BY <1>2, <1>4, KeptIs
<1>6. PICK g : g = GetChunks(cs, f)
  OBVIOUS
<1>7. g = [ k \in DOMAIN u |-> GetChunk(u[k], f) ]
  BY <1>1, <1>4, <1>6 DEF GetChunks
<1>8. DOMAIN g = 1..m /\ \A k \in 1..m : g[k] = GetChunk(cs[Nth(A, k)], f)
  BY <1>5, <1>7
<1>9. g \in Seq(ToSet(g))
  <2>1. g = [ k \in 1..m |-> g[k] ]
    BY <1>7, <1>8
  <2>2. QED
    BY <1>8, <2>1 DEF ToSet
<1>10. ASSUME NEW k \in 1..m
       PROVE  \E i \in 1..n : Asks(cs[i], f) /\ g[k] = GetChunk(cs[i], f)
  <2>1. Nth(A, k) \in A
    BY <1>3
  <2>2. QED
    BY <2>1, <1>1, <1>8
<1>11. ASSUME NEW i \in 1..n, Asks(cs[i], f)
       PROVE  \E k \in 1..m : g[k] = GetChunk(cs[i], f)
  <2>1. i \in A
    BY <1>1, <1>11
  <2>2. PICK k \in 1..m : Nth(A, k) = i
    BY <2>1, <1>3
  <2>3. QED
    BY <2>2, <1>8
<1>12. QED
  BY <1>6, <1>8, <1>9, <1>10, <1>11

(* Each of them starts at a time.                                           *)
LEMMA GetChunksType ==
  ASSUME NEW cs, NEW n \in Nat, DOMAIN cs = 1..n, \A i \in 1..n : IsController(cs[i]),
         NEW f, f.time.start \in Int /\ f.time.end \in Int
  PROVE  /\ GetChunks(cs, f) \in Seq(ToSet(GetChunks(cs, f)))
         /\ \A k \in DOMAIN GetChunks(cs, f) : Built(GetChunks(cs, f)[k]).start \in Int
<1>1. PICK g : g = GetChunks(cs, f)
  OBVIOUS
<1>2. /\ g \in Seq(ToSet(g))
      /\ \A k \in DOMAIN g : \E i \in 1..n : Asks(cs[i], f) /\ g[k] = GetChunk(cs[i], f)
  BY <1>1, GetChunksAre
<1>3. ASSUME NEW k \in DOMAIN g
      PROVE  Built(g[k]).start \in Int
  <2>1. PICK i \in 1..n : g[k] = GetChunk(cs[i], f)
    BY <1>2
  <2>2. PICK c : c = cs[i] /\ IsController(c)
    OBVIOUS
  <2>3. QED
    BY <2>1, <2>2, GetChunkType
<1>4. QED
  BY <1>1, <1>2, <1>3

(* What a frame is asked for starts at a time, whoever asks.                *)
LEMMA ChunksType ==
  ASSUME NEW cs, NEW n \in Nat, DOMAIN cs = 1..n, \A i \in 1..n : IsController(cs[i]),
         cs # <<>> => 1 \in DOMAIN cs,
         NEW f, f.time.start \in Int /\ f.time.end \in Int
  PROVE  /\ Chunks(cs, f) \in Seq(ToSet(Chunks(cs, f)))
         /\ \A k \in DOMAIN Chunks(cs, f) : Built(Chunks(cs, f)[k]).start \in Int
<1>1. CASE ~ IsFunction(cs)
  <2>1. Chunks(cs, f) = GetChunks(cs, f)
    BY <1>1 DEF Chunks
  <2>2. QED
    BY <2>1, GetChunksType
<1>2. CASE IsFunction(cs)
  <2>1. PICK c : c = cs[1] /\ IsController(c)
    BY <1>2 DEF IsFunction
  <2>2. PICK g : g = FnChunks(c, f)
    OBVIOUS
  <2>3. Chunks(cs, f) = g
    BY <1>2, <2>1, <2>2 DEF Chunks
  <2>4. CASE ~ FnAsks(c, f)
    <3>1. g = <<>>
      BY <2>2, <2>4 DEF FnChunks
    <3>2. QED
      BY <3>1, <2>3
  <2>5. CASE FnAsks(c, f)
    <3>1. c.interval \in Nat \ {0} /\ Crossing(f.time, c.interval) # None
      BY <2>1, <2>5 DEF FnAsks, IsController
    <3>2. PICK x \in Int : x = Crossing(f.time, c.interval)
      BY <3>1, CrossingType
    <3>3. PICK y \in Int : y = FloorMillis(x - c.interval)
      <4>1. x - c.interval \in Int
        BY <3>1
      <4>2. QED
        BY <4>1, FloorType
    <3>4. PICK w, r : w = c.who /\ r = c.started
      OBVIOUS
    <3>5. PICK q : q = WithIsRef(Request(x - c.interval, w), r)
      OBVIOUS
    <3>6. g = << q >>
      BY <2>2, <2>5, <3>2, <3>4, <3>5 DEF FnChunks
    <3>7. Built(q).start = y
      <4>1. PICK p : /\ p = Request(x - c.interval, w)
                     /\ p = [start |-> y, who |-> w, ref |-> FALSE, area |-> None, channels |-> None]
        BY <3>3 DEF Request
      <4>2. p.start = y /\ {"start", "area", "channels"} \subseteq DOMAIN p
        BY <4>1
      <4>3. q = [p EXCEPT !.ref = r]
        BY <3>5, <4>1 DEF WithIsRef
      <4>4. q.start = y /\ {"start", "area", "channels"} \subseteq DOMAIN q
        BY <4>2, <4>3
      <4>5. QED
        BY <4>4 DEF Built
    <3>8. g \in Seq(ToSet(g)) /\ DOMAIN g = {1} /\ g[1] = q
      BY <3>6 DEF ToSet
    <3>9. QED
      BY <3>7, <3>8, <2>3
  <2>6. QED
    BY <2>4, <2>5
<1>3. QED
  BY <1>1, <1>2

(* SignController's chunk starts at the time of the last, or at zero.       *)
LEMMA GuiChunkType ==
  ASSUME NEW at \in Int, NEW who
  PROVE  Built(GuiChunk(at, who)).start \in Int
<1>1. PICK y \in Int : y = FloorMillis(at)
  BY FloorType
<1>2. PICK p : /\ p = Request(at, who)
               /\ p = [start |-> y, who |-> who, ref |-> FALSE, area |-> None, channels |-> None]
  BY <1>1 DEF Request
<1>3. p.start = y /\ {"start", "area", "channels"} \subseteq DOMAIN p
  BY <1>2
<1>4. PICK q : q = [p EXCEPT !.ref = (at # 0)]
  OBVIOUS
<1>5. q.start = y /\ {"start", "area", "channels"} \subseteq DOMAIN q
  BY <1>3, <1>4
<1>6. GuiChunk(at, who) = q
  BY <1>2, <1>4 DEF GuiChunk, WithIsRef
<1>7. QED
  BY <1>5, <1>6 DEF Built

-----------------------------------------------------------------------------
(* The state of a session.                                                 *)

ControllersOK ==
    /\ ctrls \in Seq(ToSet(ctrls)) /\ Len(ctrls) = Len(job.controllers)
    /\ \A i \in DOMAIN ctrls : IsController(ctrls[i])

AskedOK ==
    /\ asked \in Seq(ToSet(asked))
    /\ \A n \in DOMAIN asked : asked[n].chunk.start \in Int /\ asked[n].frame \in 1..taken

AnswersOK ==
    /\ pending \cup failed \subseteq DOMAIN asked /\ pending \cap failed = {}
    /\ Cardinality(KeyFailures) <= MaxFails

SessionInv ==
    /\ job \in Jobs /\ taken \in 0..job.frames /\ lastSign \in Nat
    /\ src \in Jobs \cup {None}
    /\ thread \in {"idle", "running", "ended", "panicked"}
    /\ reader \in {"open", "collected", "failed"}
    /\ ControllersOK /\ AskedOK /\ AnswersOK

(* The controllers of a job can be asked.                                   *)
LEMMA NewControllers ==
  ASSUME NEW j \in Jobs
  PROVE  /\ j.controllers \in Seq(ToSet(j.controllers)) /\ j.frames \in Nat \ {0}
         /\ \A i \in DOMAIN j.controllers : IsController(j.controllers[i])
<1>1. IsJob(j)
  BY SessionAssumption
<1>2. QED
  BY <1>1, NewIsController DEF IsJob

(* A session starts with nothing asked and nothing failed.                  *)
LEMMA NothingAsked ==
  ASSUME asked = <<>>, pending = {}, failed = {}
  PROVE  AskedOK /\ AnswersOK
<1>1. AskedOK
  BY DEF AskedOK, ToSet
<1>2. KeyFailures = {}
  BY DEF KeyFailures
<1>3. Cardinality(KeyFailures) = 0
  BY <1>2, FS_EmptySet
<1>4. MaxFails \in Nat
  BY SessionAssumption
<1>5. QED
  BY <1>1, <1>3, <1>4 DEF AnswersOK

(* It holds before anything happens.                                        *)
LEMMA SessionInit == Init => SessionInv
<1> SUFFICES ASSUME Init
             PROVE  SessionInv
  OBVIOUS
<1>1. /\ job \in Jobs /\ taken = 0 /\ ctrls = job.controllers
      /\ thread = (IF job.app THEN "idle" ELSE "running") /\ reader = "open"
      /\ asked = <<>> /\ pending = {} /\ failed = {} /\ src = None /\ lastSign = 0
  BY DEF Init, InitSession, InitGui
<1>2. ControllersOK /\ job.frames \in Nat \ {0}
  BY <1>1, NewControllers DEF ControllersOK
<1>3. AskedOK /\ AnswersOK
  BY <1>1, NothingAsked
<1>4. QED
  BY <1>1, <1>2, <1>3 DEF SessionInv

(* What was asked for stays as it was.                                      *)
LEMMA AskedForStays ==
  ASSUME UNCHANGED job, NEW n, asked'[n] = asked[n]
  PROVE  SignedAs(n)' = SignedAs(n) /\ RefusalOf(n)' = RefusalOf(n)
BY DEF SignedAs, RefusalOf, ChunkEnd

(* The failures that are not refusals stay.                                 *)
LEMMA KeyFailuresStay ==
  ASSUME UNCHANGED <<job, failed>>, \A n \in failed : asked'[n] = asked[n]
  PROVE  KeyFailures' = KeyFailures
<1>1. KeyFailures' = { i \in failed : RefusalOf(i)' = "none" }
  BY DEF KeyFailures
<1>2. \A i \in failed : RefusalOf(i)' = RefusalOf(i)
  BY AskedForStays
<1>3. QED
  BY <1>1, <1>2 DEF KeyFailures

(* A finite number of chunks fails.                                         *)
LEMMA KeyFailuresFinite ==
  ASSUME SessionInv
  PROVE  IsFiniteSet(KeyFailures) /\ IsFiniteSet(DOMAIN asked)
<1>1. PICK n \in Nat : DOMAIN asked = 1..n
  BY DEF SessionInv, AskedOK
<1>2. IsFiniteSet(DOMAIN asked)
  BY <1>1, FS_Interval
<1>3. KeyFailures \in SUBSET (DOMAIN asked)
  BY DEF KeyFailures, SessionInv, AnswersOK
<1>4. QED
  BY <1>2, <1>3, FS_Subset

(* A frame that asks for chunks leaves those asked for before as they were. *)
LEMMA AskForAppends ==
  ASSUME SessionInv, NEW chunks, chunks \in Seq(ToSet(chunks)), NEW k \in Nat,
         AskFor(chunks, k)
  PROVE  /\ asked' \in Seq(ToSet(asked'))
         /\ DOMAIN asked' = DOMAIN asked \cup (Len(asked) + 1)..(Len(asked) + Len(chunks))
         /\ DOMAIN asked = 1..Len(asked) /\ Len(asked) \in Nat /\ Len(chunks) \in Nat
         /\ \A n \in DOMAIN asked : asked'[n] = asked[n]
         /\ \A n \in DOMAIN asked' \ DOMAIN asked : \E i \in DOMAIN chunks :
               asked'[n] = [chunk |-> Built(chunks[i]), frame |-> k]
         /\ pending' = pending \cup (Len(asked) + 1)..(Len(asked) + Len(chunks))
<1>1. PICK u : u = [ i \in DOMAIN chunks |-> [chunk |-> Built(chunks[i]), frame |-> k] ]
  OBVIOUS
<1>2. asked' = asked \o u
  BY <1>1 DEF AskFor
<1>3. PICK m \in Nat : m = Len(chunks) /\ DOMAIN chunks = 1..m
  OBVIOUS
<1>4. /\ DOMAIN u = 1..m /\ Len(u) = m /\ u \in Seq(ToSet(u))
      /\ \A i \in 1..m : u[i] = [chunk |-> Built(chunks[i]), frame |-> k]
  BY <1>1, <1>3 DEF ToSet
<1>5. asked \in Seq(ToSet(asked))
  BY DEF SessionInv, AskedOK
<1>6. /\ asked \o u \in Seq(ToSet(asked \o u)) /\ Len(asked) \in Nat
      /\ DOMAIN asked = 1..Len(asked)
      /\ DOMAIN (asked \o u) = 1..(Len(asked) + Len(u))
      /\ \A i \in 1..Len(asked) : (asked \o u)[i] = asked[i]
      /\ \A i \in 1..Len(u) : (asked \o u)[Len(asked) + i] = u[i]
  <2>1. PICK s : s = asked
    OBVIOUS
  <2>2. s \in Seq(ToSet(s)) /\ u \in Seq(ToSet(u))
    BY <1>4, <1>5, <2>1
  <2>3. /\ s \o u \in Seq(ToSet(s \o u)) /\ Len(s) \in Nat
        /\ DOMAIN s = 1..Len(s)
        /\ DOMAIN (s \o u) = 1..(Len(s) + Len(u))
        /\ \A i \in 1..Len(s) : (s \o u)[i] = s[i]
        /\ \A i \in 1..Len(u) : (s \o u)[Len(s) + i] = u[i]
    BY <2>2, BehindAny
  <2>4. QED
    BY <2>1, <2>3
<1>7. PICK l \in Nat : l = Len(asked)
  BY <1>6
<1>8. /\ DOMAIN asked' = 1..(l + m) /\ DOMAIN asked = 1..l
      /\ \A i \in 1..l : asked'[i] = asked[i]
      /\ \A i \in 1..m : asked'[l + i] = u[i]
  BY <1>2, <1>4, <1>6, <1>7
<1>9. ASSUME NEW n \in (l + 1)..(l + m)
      PROVE  \E i \in DOMAIN chunks : asked'[n] = [chunk |-> Built(chunks[i]), frame |-> k]
  <2>1. PICK i \in 1..m : n = l + i
    <3>1. n - l \in 1..m /\ n = l + (n - l)
      BY <1>3, <1>7
    <3>2. QED
      BY <3>1
  <2>2. QED
    BY <2>1, <1>3, <1>4, <1>8
<1>10. 1..(l + m) = (1..l) \cup (l + 1)..(l + m)
  BY <1>3, <1>7
<1>11. \A n \in (1..(l + m)) \ (1..l) : n \in (l + 1)..(l + m)
  BY <1>3, <1>7
<1>12. pending' = pending \cup (l + 1)..(l + m)
  BY <1>3, <1>7 DEF AskFor
<1>13. asked' \in Seq(ToSet(asked'))
  BY <1>2, <1>6
<1>14. QED
  BY <1>3, <1>6, <1>7, <1>8, <1>9, <1>10, <1>11, <1>12, <1>13

(* What the file is made of.                                                *)
FileInv ==
    reader # "failed" =>
        /\ file \in Seq(ToSet(file)) /\ Timed(file) /\ Sorted(file)
        /\ \A i \in DOMAIN file : \E n \in Answered : file[i] = SignedAs(n)
        /\ Len(file) = Cardinality(Answered)
        /\ \A v : Cardinality({ i \in DOMAIN file : file[i] = v }) =
                  Cardinality({ n \in Answered : SignedAs(n) = v })

(* An empty file is as it should be when nothing was answered.              *)
LEMMA EmptyFileInv ==
  ASSUME file = EmptyFile, Answered = {}
  PROVE  FileInv
<1>1. file = <<>> /\ DOMAIN file = {} /\ Len(file) = 0
  BY DEF EmptyFile
<1>2. file \in Seq(ToSet(file)) /\ Timed(file) /\ Sorted(file)
  BY <1>1 DEF Timed, Sorted, ToSet
<1>3. Cardinality(Answered) = 0
  BY FS_EmptySet
<1>4. ASSUME NEW v
      PROVE  { i \in DOMAIN file : file[i] = v } = { n \in Answered : SignedAs(n) = v }
  BY <1>1
<1>5. \A v : Cardinality({ i \in DOMAIN file : file[i] = v }) =
             Cardinality({ n \in Answered : SignedAs(n) = v })
  BY <1>4
<1>6. QED
  BY <1>1, <1>2, <1>3, <1>5 DEF FileInv

(* The file stays right when the same chunks are answered.                  *)
LEMMA FileStays ==
  ASSUME FileInv, UNCHANGED <<job, file>>, Answered' = Answered,
         reader' # "failed" => reader # "failed",
         \A n \in Answered : asked'[n] = asked[n]
  PROVE  FileInv'
<1> SUFFICES ASSUME reader' # "failed"
             PROVE  /\ file \in Seq(ToSet(file)) /\ Timed(file) /\ Sorted(file)
                    /\ \A i \in DOMAIN file : \E n \in Answered : file[i] = SignedAs(n)'
                    /\ Len(file) = Cardinality(Answered)
                    /\ \A v : Cardinality({ i \in DOMAIN file : file[i] = v }) =
                              Cardinality({ n \in Answered : SignedAs(n)' = v })
  <2>1. Timed(file)' <=> Timed(file)
    BY DEF Timed
  <2>2. Sorted(file)' <=> Sorted(file)
    BY DEF Sorted
  <2>3. QED
    BY <2>1, <2>2 DEF FileInv
<1>1. \A n \in Answered : SignedAs(n)' = SignedAs(n)
  BY AskedForStays
<1>2. ASSUME NEW v
      PROVE  { n \in Answered : SignedAs(n)' = v } = { n \in Answered : SignedAs(n) = v }
  BY <1>1
<1>3. QED
  BY <1>1, <1>2 DEF FileInv

(* A frame that asks for chunks changes nothing in what was answered.       *)
LEMMA AskKeeps ==
  ASSUME SessionInv, FileInv, NEW chunks, chunks \in Seq(ToSet(chunks)),
         \A i \in DOMAIN chunks : Built(chunks[i]).start \in Int,
         AskFor(chunks, taken + 1), taken' = taken + 1,
         UNCHANGED <<job, failed, file, reader>>
  PROVE  AskedOK' /\ AnswersOK' /\ FileInv'
<1>0. job \in Jobs /\ job.frames \in Nat \ {0} /\ taken \in 0..job.frames
  BY NewControllers DEF SessionInv
<1>1. PICK k \in Nat \ {0} : k = taken + 1
  BY <1>0
<1>2. PICK new : new = (Len(asked) + 1)..(Len(asked) + Len(chunks))
  OBVIOUS
<1>3. /\ asked' \in Seq(ToSet(asked'))
      /\ DOMAIN asked' = DOMAIN asked \cup new /\ DOMAIN asked = 1..Len(asked)
      /\ Len(asked) \in Nat /\ Len(chunks) \in Nat
      /\ \A n \in DOMAIN asked : asked'[n] = asked[n]
      /\ \A n \in DOMAIN asked' \ DOMAIN asked : \E i \in DOMAIN chunks :
            asked'[n] = [chunk |-> Built(chunks[i]), frame |-> k]
      /\ pending' = pending \cup new
  <2>1. AskFor(chunks, k)
    BY <1>1
  <2>2. /\ asked' \in Seq(ToSet(asked'))
        /\ DOMAIN asked' = DOMAIN asked \cup (Len(asked) + 1)..(Len(asked) + Len(chunks))
        /\ DOMAIN asked = 1..Len(asked) /\ Len(asked) \in Nat /\ Len(chunks) \in Nat
        /\ \A n \in DOMAIN asked : asked'[n] = asked[n]
        /\ \A n \in DOMAIN asked' \ DOMAIN asked : \E i \in DOMAIN chunks :
              asked'[n] = [chunk |-> Built(chunks[i]), frame |-> k]
        /\ pending' = pending \cup (Len(asked) + 1)..(Len(asked) + Len(chunks))
    BY <2>1, AskForAppends
  <2>3. QED
    BY <2>2, <1>2, Zenon
<1>4. new \cap DOMAIN asked = {}
  BY <1>2, <1>3
<1>5. pending \cup failed \subseteq DOMAIN asked /\ pending \cap failed = {}
  BY DEF SessionInv, AnswersOK
<1>6. AskedOK'
  <2>1. ASSUME NEW n \in DOMAIN asked'
        PROVE  asked'[n].chunk.start \in Int /\ asked'[n].frame \in 1..k
    <3>1. CASE n \in DOMAIN asked
      <4>1. asked'[n] = asked[n] /\ asked[n].chunk.start \in Int /\ asked[n].frame \in 1..taken
        BY <3>1, <1>3 DEF SessionInv, AskedOK
      <4>2. \A m \in 1..taken : m \in 1..k
        BY <1>0, <1>1
      <4>3. QED
        BY <4>1, <4>2
    <3>2. CASE n \notin DOMAIN asked
      <4>1. PICK i \in DOMAIN chunks : asked'[n] = [chunk |-> Built(chunks[i]), frame |-> k]
        BY <3>2, <1>3
      <4>2. k \in 1..k
        BY <1>1
      <4>3. QED
        BY <4>1, <4>2
    <3>3. QED
      BY <3>1, <3>2
  <2>2. QED
    BY <2>1, <1>1, <1>3 DEF AskedOK
<1>7. AnswersOK'
  <2>1. \A n \in failed : asked'[n] = asked[n]
    BY <1>3, <1>5
  <2>2. KeyFailures' = KeyFailures
    BY <2>1, KeyFailuresStay
  <2>3. pending' \cup failed \subseteq DOMAIN asked' /\ pending' \cap failed = {}
    BY <1>3, <1>4, <1>5
  <2>4. QED
    BY <2>2, <2>3 DEF AnswersOK, SessionInv
<1>8. Answered' = Answered
  <2>1. Answered' = DOMAIN asked' \ (pending' \cup failed)
    BY DEF Answered
  <2>2. DOMAIN asked' \ (pending' \cup failed) = DOMAIN asked \ (pending \cup failed)
    BY <1>3, <1>4, <1>5
  <2>3. QED
    BY <2>1, <2>2 DEF Answered
<1>9. FileInv'
  <2>1. \A n \in Answered : asked'[n] = asked[n]
    BY <1>3 DEF Answered
  <2>2. QED
    BY <2>1, <1>8, FileStays
<1>10. QED
  BY <1>6, <1>7, <1>9

(* A frame that asks for nothing changes nothing either.                    *)
LEMMA NoAskKeeps ==
  ASSUME SessionInv, FileInv, UNCHANGED <<job, asked, pending, failed, file>>,
         taken' \in {taken, taken + 1}, reader' # "failed" => reader # "failed"
  PROVE  AskedOK' /\ AnswersOK' /\ FileInv'
<1>0. job \in Jobs /\ job.frames \in Nat \ {0} /\ taken \in 0..job.frames
  BY NewControllers DEF SessionInv
<1>1. AskedOK'
  <2>1. \A m \in 1..taken : m \in 1..(taken')
    BY <1>0
  <2>2. QED
    BY <2>1 DEF SessionInv, AskedOK
<1>2. AnswersOK'
  <2>1. KeyFailures' = KeyFailures
    BY KeyFailuresStay
  <2>2. QED
    BY <2>1 DEF SessionInv, AnswersOK
<1>3. FileInv'
  <2>1. Answered' = Answered
    BY DEF Answered
  <2>2. QED
    BY <2>1, FileStays
<1>4. QED
  BY <1>1, <1>2, <1>3

(* What an answer is in the file, and that it reads back.                   *)
LEMMA SignedType ==
  ASSUME SessionInv, NEW n \in DOMAIN asked
  PROVE  /\ SignedAs(n).start \in Int /\ SignedAs(n).stop \in Int
         /\ FromSubtitle(AsSubtitle(SignedAs(n))) = SignedAs(n)
<1>1. PICK from \in Int : from = asked[n].chunk.start
  BY DEF SessionInv, AskedOK
<1>2. PICK to \in Int : to = ChunkEnd(n)
  <2>1. asked[n].frame \in Nat \ {0} /\ job \in Jobs
    <3>1. job \in Jobs /\ taken \in Nat /\ asked[n].frame \in 1..taken
      BY NewControllers DEF SessionInv, AskedOK
    <3>2. QED
      BY <3>1
  <2>2. QED
    BY <2>1, FrameTimes DEF ChunkEnd
<1>3. PICK q : q = asked[n].chunk
  OBVIOUS
<1>4. SignedAs(n) = SignedInterval(from, to, Signature(q))
  BY <1>1, <1>2, <1>3 DEF SignedAs
<1>5. QED
  BY <1>4, RoundTrip

(* The chunks that were answered are finitely many.                         *)
LEMMA AnsweredFinite ==
  ASSUME SessionInv
  PROVE  /\ IsFiniteSet(Answered) /\ Cardinality(Answered) \in Nat
         /\ \A v : IsFiniteSet({ n \in Answered : SignedAs(n) = v })
<1>1. IsFiniteSet(DOMAIN asked)
  BY KeyFailuresFinite
<1>2. IsFiniteSet(Answered)
  BY <1>1, FS_Subset DEF Answered
<1>3. ASSUME NEW v
      PROVE  IsFiniteSet({ n \in Answered : SignedAs(n) = v })
  BY <1>2, FS_Subset
<1>4. QED
  BY <1>2, <1>3, FS_CardinalityType

(* An answer that is a signature is put into the file.                      *)
LEMMA ReceiveKeeps ==
  ASSUME SessionInv, FileInv, NEW k \in DOMAIN asked, Receive(k)
  PROVE  AskedOK' /\ AnswersOK' /\ FileInv'
<1>1. /\ reader = "open" /\ k \in pending /\ file' = Push(file, SignedAs(k))
      /\ pending' = pending \ {k}
      /\ UNCHANGED <<job, taken, asked, failed, reader>>
  BY DEF Receive, NextOfFrame
<1>2. AskedOK'
  BY <1>1 DEF SessionInv, AskedOK
<1>3. AnswersOK'
  <2>1. KeyFailures' = KeyFailures
    BY <1>1, KeyFailuresStay
  <2>2. QED
    BY <2>1, <1>1 DEF SessionInv, AnswersOK
<1>4. Answered' = Answered \cup {k} /\ k \notin Answered
  BY <1>1 DEF Answered, SessionInv, AnswersOK
<1>5. \A n : SignedAs(n)' = SignedAs(n)
  BY <1>1, AskedForStays
<1>6. PICK e : e = SignedAs(k) /\ e.start \in Int /\ e.stop \in Int
  BY SignedType
<1>7. /\ file \in Seq(ToSet(file)) /\ Timed(file) /\ Sorted(file)
      /\ \A i \in DOMAIN file : \E n \in Answered : file[i] = SignedAs(n)
      /\ Len(file) = Cardinality(Answered)
      /\ \A v : Cardinality({ i \in DOMAIN file : file[i] = v }) =
                Cardinality({ n \in Answered : SignedAs(n) = v })
  BY <1>1 DEF FileInv
<1>8. PICK S : file \in Seq(S) /\ e \in S
  <2>1. file \in Seq(ToSet(file) \cup {e}) /\ e \in ToSet(file) \cup {e}
    BY <1>7
  <2>2. QED
    BY <2>1
<1>9. /\ file' \in Seq(S) /\ Len(file') = Len(file) + 1
      /\ Timed(file') /\ Sorted(file')
      /\ \A i \in DOMAIN file' : file'[i] = e \/ \E j \in DOMAIN file : file'[i] = file[j]
  <2>1. /\ Push(file, e) \in Seq(S) /\ Len(Push(file, e)) = Len(file) + 1
        /\ Timed(Push(file, e)) /\ Sorted(Push(file, e))
        /\ \A i \in DOMAIN Push(file, e) :
              Push(file, e)[i] = e \/ \E j \in DOMAIN file : Push(file, e)[i] = file[j]
    <3>1. PICK f : f = file
      OBVIOUS
    <3>2. f \in Seq(S) /\ Timed(f) /\ Sorted(f) /\ e \in S /\ e.start \in Int /\ e.stop \in Int
      BY <3>1, <1>6, <1>7, <1>8
    <3>3. /\ Push(f, e) \in Seq(S) /\ Len(Push(f, e)) = Len(f) + 1
          /\ Timed(Push(f, e)) /\ Sorted(Push(f, e))
          /\ \A i \in DOMAIN Push(f, e) :
                Push(f, e)[i] = e \/ \E j \in DOMAIN f : Push(f, e)[i] = f[j]
      BY <3>2, PushSorts
    <3>4. QED
      BY <3>1, <3>3
  <2>2. file' = Push(file, e)
    BY <1>1, <1>6
  <2>3. QED
    BY <2>1, <2>2
<1>10. file' \in Seq(ToSet(file'))
  BY <1>9 DEF ToSet
<1>11. ASSUME NEW i \in DOMAIN file'
       PROVE  \E n \in Answered' : file'[i] = SignedAs(n)'
  BY <1>4, <1>5, <1>6, <1>7, <1>9
<1>12. Len(file') = Cardinality(Answered')
  <2>1. Cardinality(Answered \cup {k}) = Cardinality(Answered) + 1
    BY <1>4, AnsweredFinite, FS_AddElement
  <2>2. QED
    BY <2>1, <1>4, <1>7, <1>9
<1>13. ASSUME NEW v
       PROVE  Cardinality({ i \in DOMAIN file' : file'[i] = v }) =
              Cardinality({ n \in Answered' : SignedAs(n)' = v })
  <2>1. Cardinality({ i \in DOMAIN file' : file'[i] = v }) =
        Cardinality({ i \in DOMAIN file : file[i] = v }) + (IF v = e THEN 1 ELSE 0)
    <3>1. Cardinality({ i \in DOMAIN Push(file, e) : Push(file, e)[i] = v }) =
          Cardinality({ i \in DOMAIN file : file[i] = v }) + (IF v = e THEN 1 ELSE 0)
      <4>1. PICK f : f = file
        OBVIOUS
      <4>2. f \in Seq(S) /\ Timed(f) /\ Sorted(f) /\ e \in S /\ e.start \in Int /\ e.stop \in Int
        BY <4>1, <1>6, <1>7, <1>8
      <4>3. Cardinality({ i \in DOMAIN Push(f, e) : Push(f, e)[i] = v }) =
            Cardinality({ i \in DOMAIN f : f[i] = v }) + (IF v = e THEN 1 ELSE 0)
        <5>1. CountOf(Push(f, e), v) = CountOf(f, v) + (IF v = e THEN 1 ELSE 0)
          BY <4>2, PushCounts
        <5>2. QED
          BY <5>1 DEF CountOf
      <4>4. QED
        BY <4>1, <4>3
    <3>2. QED
      BY <3>1, <1>1, <1>6
  <2>2. PICK O : O = { n \in Answered : SignedAs(n) = v } /\ IsFiniteSet(O)
    BY AnsweredFinite
  <2>3. PICK N : N = { n \in Answered' : SignedAs(n)' = v }
    OBVIOUS
  <2>4. N = IF v = e THEN O \cup {k} ELSE O
    BY <2>2, <2>3, <1>4, <1>5, <1>6
  <2>5. Cardinality(O) \in Nat /\ k \notin O
    BY <2>2, <1>4, FS_CardinalityType
  <2>6. Cardinality(N) = Cardinality(O) + (IF v = e THEN 1 ELSE 0)
    <3>1. CASE v = e
      BY <3>1, <2>2, <2>4, <2>5, FS_AddElement
    <3>2. CASE v # e
      BY <3>2, <2>4, <2>5
    <3>3. QED
      BY <3>1, <3>2
  <2>7. Cardinality({ i \in DOMAIN file : file[i] = v }) = Cardinality(O)
    BY <1>7, <2>2
  <2>8. QED
    BY <2>1, <2>3, <2>6, <2>7
<1>14. Timed(file)' /\ Sorted(file)'
  BY <1>9 DEF Timed, Sorted
<1>15. FileInv'
  BY <1>10, <1>11, <1>12, <1>13, <1>14 DEF FileInv
<1>16. QED
  BY <1>2, <1>3, <1>15

(* An answer that is an error leaves the file alone, or ends it.            *)
LEMMA ErrorKeeps ==
  ASSUME SessionInv, FileInv, NEW k \in DOMAIN asked, ReceiveError(k)
  PROVE  AskedOK' /\ AnswersOK' /\ FileInv'
<1>1. /\ reader = "open" /\ k \in pending /\ failed' = failed \cup {k}
      /\ RefusalOf(k) # "none" \/ SignerMayFail
      /\ \/ reader' = "failed" /\ pending' = {}
         \/ pending' = pending \ {k} /\ UNCHANGED <<reader, file>>
      /\ UNCHANGED <<job, taken, asked>>
  BY DEF ReceiveError, NextOfFrame
<1>2. AskedOK'
  BY <1>1 DEF SessionInv, AskedOK
<1>3. pending \cup failed \subseteq DOMAIN asked /\ pending \cap failed = {}
  BY DEF SessionInv, AnswersOK
<1>4. AnswersOK'
  <2>1. pending' \cup failed' \subseteq DOMAIN asked' /\ pending' \cap failed' = {}
    BY <1>1, <1>3
  <2>2. KeyFailures' = { i \in failed \cup {k} : RefusalOf(i) = "none" }
    <3>1. KeyFailures' = { i \in failed \cup {k} : RefusalOf(i)' = "none" }
      BY <1>1 DEF KeyFailures
    <3>2. \A i : RefusalOf(i)' = RefusalOf(i)
      BY <1>1, AskedForStays
    <3>3. QED
      BY <3>1, <3>2
  <2>3. PICK K : K = KeyFailures /\ IsFiniteSet(K)
    BY KeyFailuresFinite
  <2>4. Cardinality(K) <= MaxFails /\ Cardinality(K) \in Nat /\ MaxFails \in Nat
    BY <2>3, SessionAssumption, FS_CardinalityType DEF SessionInv, AnswersOK
  <2>5. CASE RefusalOf(k) # "none"
    <3>1. KeyFailures' = K
      BY <2>2, <2>3, <2>5 DEF KeyFailures
    <3>2. QED
      BY <3>1, <2>1, <2>4 DEF AnswersOK
  <2>6. CASE RefusalOf(k) = "none"
    <3>1. KeyFailures' = K \cup {k} /\ k \notin K
      BY <2>2, <2>3, <2>6, <1>1, <1>3 DEF KeyFailures
    <3>2. Cardinality(K) < MaxFails
      BY <2>3, <2>6, <1>1 DEF SignerMayFail
    <3>3. Cardinality(K \cup {k}) = Cardinality(K) + 1
      BY <3>1, <2>3, FS_AddElement
    <3>4. Cardinality(K) + 1 <= MaxFails
      BY <3>2, <2>4
    <3>5. QED
      BY <3>1, <3>3, <3>4, <2>1 DEF AnswersOK
  <2>7. QED
    BY <2>5, <2>6
<1>5. FileInv'
  <2>1. CASE reader' = "failed"
    BY <2>1 DEF FileInv
  <2>2. CASE pending' = pending \ {k} /\ UNCHANGED <<reader, file>>
    <3>1. Answered' = Answered
      <4>1. Answered' = DOMAIN asked \ ((pending \ {k}) \cup (failed \cup {k}))
        BY <2>2, <1>1 DEF Answered
      <4>2. QED
        BY <4>1, <1>1 DEF Answered
    <3>2. QED
      BY <3>1, <2>2, <1>1, FileStays
  <2>3. QED
    BY <2>1, <2>2, <1>1
<1>6. QED
  BY <1>2, <1>4, <1>5

(* The controllers are asked about a frame.                                 *)
LEMMA AskControllersKeeps ==
  ASSUME SessionInv, FileInv, UNCHANGED <<src, lastSign>>, AskControllers
  PROVE  SessionInv' /\ FileInv'
<1>1. /\ taken < job.frames /\ taken' = taken + 1 /\ thread = "running"
      /\ UNCHANGED <<job, failed, file, reader>>
  BY DEF AskControllers, NextFrameReady
<1>2. job \in Jobs /\ taken \in Nat /\ job.frames \in Nat \ {0} /\ taken' \in 0..job.frames
  BY <1>1, NewControllers DEF SessionInv
<1>3. PICK f : f = FrameState(job, taken + 1) /\ f.time.start \in Int /\ f.time.end \in Int
  <2>1. taken + 1 \in Nat \ {0}
    BY <1>2
  <2>2. QED
    BY <2>1, <1>2, FrameTimes
<1>4. \/ thread' = "panicked" /\ UNCHANGED <<ctrls, asked, pending>>
      \/ /\ AskFor(Chunks(ctrls, f), taken + 1)
         /\ ctrls' = AfterTurn(ctrls, f) /\ UNCHANGED thread
  BY <1>3 DEF AskControllers
<1>5. PICK n \in Nat : DOMAIN ctrls = 1..n /\ n = Len(ctrls)
  BY DEF SessionInv, ControllersOK
<1>6. \A i \in 1..n : IsController(ctrls[i])
  BY <1>5 DEF SessionInv, ControllersOK
<1>7. CASE thread' = "panicked" /\ UNCHANGED <<ctrls, asked, pending>>
  <2>1. AskedOK' /\ AnswersOK' /\ FileInv'
    BY <1>1, <1>7, NoAskKeeps
  <2>2. ControllersOK'
    BY <1>1, <1>7 DEF SessionInv, ControllersOK
  <2>3. QED
    BY <2>1, <2>2, <1>1, <1>2, <1>7 DEF SessionInv
<1>8. CASE AskFor(Chunks(ctrls, f), taken + 1) /\ ctrls' = AfterTurn(ctrls, f)
           /\ UNCHANGED thread
  <2>1. PICK chunks : chunks = Chunks(ctrls, f)
    OBVIOUS
  <2>2. chunks \in Seq(ToSet(chunks)) /\ \A i \in DOMAIN chunks : Built(chunks[i]).start \in Int
    <3>1. PICK cs : cs = ctrls
      OBVIOUS
    <3>2. cs # <<>> => 1 \in DOMAIN cs
      BY <3>1 DEF SessionInv, ControllersOK
    <3>3. /\ Chunks(cs, f) \in Seq(ToSet(Chunks(cs, f)))
          /\ \A i \in DOMAIN Chunks(cs, f) : Built(Chunks(cs, f)[i]).start \in Int
      BY <3>1, <3>2, <1>3, <1>5, <1>6, ChunksType
    <3>4. QED
      BY <3>1, <3>3, <2>1
  <2>3. AskedOK' /\ AnswersOK' /\ FileInv'
    BY <2>1, <2>2, <1>1, <1>8, AskKeeps
  <2>4. ControllersOK'
    <3>1. /\ DOMAIN ctrls' = 1..n
          /\ \A i \in 1..n : \E b : ctrls'[i] = [ctrls[i] EXCEPT !.started = b]
      BY <1>5, <1>8 DEF AfterTurn, AfterFrame, FnAfterFrame
    <3>2. \A i \in 1..n : IsController(ctrls'[i])
      BY <3>1, <1>6, StaysController
    <3>3. ctrls' = [ i \in 1..n |-> ctrls'[i] ]
      BY <1>5, <1>8 DEF AfterTurn
    <3>4. ctrls' \in Seq(ToSet(ctrls')) /\ Len(ctrls') = n
      BY <3>1, <3>3 DEF ToSet
    <3>5. QED
      BY <3>1, <3>2, <3>4, <1>1, <1>5 DEF ControllersOK, SessionInv
  <2>5. QED
    BY <2>3, <2>4, <1>1, <1>2, <1>8 DEF SessionInv
<1>9. QED
  BY <1>4, <1>7, <1>8

(* Steps that ask for nothing and answer nothing.                           *)
LEMMA SessionUnchanged ==
  ASSUME SessionInv, FileInv, UNCHANGED <<job, taken, ctrls, asked, pending, failed, file>>,
         src' \in Jobs \cup {None}, lastSign' \in Nat,
         thread' \in {"idle", "running", "ended", "panicked"},
         reader' \in {"open", "collected", "failed"},
         reader' # "failed" => reader # "failed"
  PROVE  SessionInv' /\ FileInv'
<1>1. AskedOK' /\ AnswersOK' /\ FileInv'
  BY NoAskKeeps
<1>2. ControllersOK'
  BY DEF SessionInv, ControllersOK
<1>3. QED
  BY <1>1, <1>2 DEF SessionInv

(* The GUI's controller takes a frame, and asks for a chunk if it signs.    *)
LEMMA GuiTurnKeeps ==
  ASSUME SessionInv, FileInv, GuiTurn
  PROVE  SessionInv' /\ FileInv'
<1>1. /\ taken < job.frames /\ taken' = taken + 1
      /\ UNCHANGED <<job, ctrls, thread, failed, file, reader, src>>
  BY DEF GuiTurn, NextFrameReady
<1>2. job \in Jobs /\ taken \in Nat /\ job.frames \in Nat \ {0} /\ taken' \in 0..job.frames
  BY <1>1, NewControllers DEF SessionInv
<1>3. PICK at \in Nat : at = FrameState(job, taken + 1).time.start
  <2>1. taken + 1 \in Nat \ {0}
    BY <1>2
  <2>2. QED
    BY <2>1, <1>2, FrameTimes
<1>4. \/ AskFor(<< GuiChunk(lastSign, "alice") >>, taken + 1) /\ lastSign' = at
      \/ UNCHANGED <<asked, pending, lastSign>>
  BY <1>3 DEF GuiTurn
<1>5. ControllersOK'
  BY <1>1 DEF SessionInv, ControllersOK
<1>6. CASE AskFor(<< GuiChunk(lastSign, "alice") >>, taken + 1) /\ lastSign' = at
  <2>1. PICK q : q = GuiChunk(lastSign, "alice") /\ Built(q).start \in Int
    <3>1. lastSign \in Int
      BY DEF SessionInv
    <3>2. QED
      BY <3>1, GuiChunkType
  <2>2. PICK chunks : chunks = << q >>
    OBVIOUS
  <2>3. chunks \in Seq(ToSet(chunks)) /\ \A i \in DOMAIN chunks : Built(chunks[i]).start \in Int
    BY <2>1, <2>2 DEF ToSet
  <2>4. AskedOK' /\ AnswersOK' /\ FileInv'
    BY <2>1, <2>2, <2>3, <1>1, <1>6, AskKeeps
  <2>5. QED
    BY <2>4, <1>1, <1>2, <1>3, <1>5, <1>6 DEF SessionInv
<1>7. CASE UNCHANGED <<asked, pending, lastSign>>
  <2>1. AskedOK' /\ AnswersOK' /\ FileInv'
    BY <1>1, <1>7, NoAskKeeps
  <2>2. QED
    BY <2>1, <1>1, <1>2, <1>5, <1>7 DEF SessionInv
<1>8. QED
  BY <1>4, <1>6, <1>7

(* A video starts a session over.                                           *)
LEMMA GoToVideoKeeps ==
  ASSUME SessionInv, FileInv, GoToVideo
  PROVE  SessionInv' /\ FileInv'
<1>1. UNCHANGED src /\ (\/ UNCHANGED <<sessionVars, lastSign>>
                        \/ src # None /\ Start(src) /\ lastSign' = 0)
  BY DEF GoToVideo, SpawnPlayer, WatchVideo
<1>2. CASE UNCHANGED <<sessionVars, lastSign>>
  BY <1>1, <1>2, SessionUnchanged DEF sessionVars, SessionInv
<1>3. CASE src # None /\ Start(src) /\ lastSign' = 0
  <2>1. /\ src \in Jobs /\ job' = src /\ taken' = 0 /\ ctrls' = src.controllers
        /\ thread' = "running" /\ asked' = <<>> /\ pending' = {} /\ failed' = {}
        /\ file' = EmptyFile /\ reader' = "open"
    BY <1>3 DEF Start, SessionInv
  <2>2. ControllersOK' /\ src.frames \in Nat \ {0}
    BY <2>1, NewControllers DEF ControllersOK
  <2>3. AskedOK'
    BY <2>1 DEF AskedOK, ToSet
  <2>4. AnswersOK'
    <3>1. KeyFailures' = {}
      BY <2>1 DEF KeyFailures
    <3>2. Cardinality(KeyFailures') = 0 /\ MaxFails \in Nat
      BY <3>1, FS_EmptySet, SessionAssumption
    <3>3. QED
      BY <3>2, <2>1 DEF AnswersOK
  <2>5. FileInv'
    <3>1. Answered' = {}
      BY <2>1 DEF Answered
    <3>2. Cardinality(Answered') = 0
      BY <3>1, FS_EmptySet
    <3>3. file' = <<>> /\ DOMAIN file' = {} /\ Len(file') = 0
      BY <2>1 DEF EmptyFile
    <3>4. file' \in Seq(ToSet(file')) /\ Timed(file)' /\ Sorted(file)'
      BY <3>3 DEF Timed, Sorted, ToSet
    <3>5. ASSUME NEW v
          PROVE  { i \in DOMAIN file' : file'[i] = v } = { n \in Answered' : SignedAs(n)' = v }
      BY <3>1, <3>3
    <3>6. \A v : Cardinality({ i \in DOMAIN file' : file'[i] = v }) =
                 Cardinality({ n \in Answered' : SignedAs(n)' = v })
      BY <3>5
    <3>7. QED
      BY <3>2, <3>3, <3>4, <3>6 DEF FileInv
  <2>6. QED
    BY <1>1, <1>3, <2>1, <2>2, <2>3, <2>4, <2>5 DEF SessionInv
<1>4. QED
  BY <1>1, <1>2, <1>3

(* Every step keeps the session and its file.                               *)
LEMMA SessionStep == SessionInv /\ FileInv /\ [Next]_appVars => SessionInv' /\ FileInv'
<1> SUFFICES ASSUME SessionInv, FileInv, [Next]_appVars
             PROVE  SessionInv' /\ FileInv'
  OBVIOUS
<1>1. /\ src \in Jobs \cup {None} /\ lastSign \in Nat
      /\ thread \in {"idle", "running", "ended", "panicked"}
      /\ reader \in {"open", "collected", "failed"}
  BY DEF SessionInv
<1>2. CASE UNCHANGED <<job, taken, ctrls, asked, pending, failed, file, thread, reader, lastSign>>
           /\ src' \in Jobs \cup {None}
  BY <1>1, <1>2, SessionUnchanged
<1>3. CASE UNCHANGED <<sessionVars, guiVars>>
  BY <1>1, <1>2, <1>3 DEF sessionVars, guiVars
<1>4. CASE Menu
  <2>1. CASE \E j \in Jobs : ChooseVideo(j)
    BY <1>2, <2>1 DEF ChooseVideo, sessionVars
  <2>2. CASE ChooseOutput
    BY <1>1, <1>2, <2>2 DEF ChooseOutput, sessionVars
  <2>3. QED
    BY <1>4, <2>1, <2>2, GoToVideoKeeps DEF Menu
<1>5. CASE VideoView
  <2>1. CASE PressEnter \/ PressSpace \/ PaintOverlay
    BY <1>1, <1>2, <2>1 DEF PressEnter, PressSpace, PaintOverlay, GoDown, sessionVars
  <2>2. CASE RunIdle
    BY <1>1, <1>2, <2>2 DEF RunIdle, ShowFrame, ShowSign, Finish, GoDown, sessionVars
  <2>3. QED
    BY <1>5, <2>1, <2>2 DEF VideoView
<1>6. CASE NextSession /\ UNCHANGED guiVars
  <2>1. UNCHANGED <<src, lastSign>>
    BY <1>6 DEF guiVars
  <2>2. CASE AskControllers
    BY <2>1, <2>2, AskControllersKeeps
  <2>3. CASE ThreadEnds
    BY <1>1, <2>1, <2>3, SessionUnchanged DEF ThreadEnds
  <2>4. CASE Answer
    <3>1. PICK k \in DOMAIN asked : Receive(k) \/ ReceiveError(k)
      BY <2>4 DEF Answer
    <3>2. AskedOK' /\ AnswersOK' /\ FileInv'
      BY <3>1, ReceiveKeeps, ErrorKeeps
    <3>3. UNCHANGED <<job, taken, ctrls, thread>> /\ reader' \in {reader, "failed"}
      BY <3>1 DEF Receive, ReceiveError
    <3>4. ControllersOK'
      BY <3>3 DEF SessionInv, ControllersOK
    <3>5. QED
      BY <2>1, <3>2, <3>3, <3>4 DEF SessionInv
  <2>5. CASE Collect
    BY <1>1, <2>1, <2>5, SessionUnchanged DEF Collect
  <2>6. CASE WriteFile
    BY <1>1, <1>2, <2>1, <2>6 DEF WriteFile
  <2>7. QED
    BY <1>6, <2>2, <2>3, <2>4, <2>5, <2>6 DEF NextSession
<1>7. CASE WatchEnds
  BY <1>1, <1>2, <1>7 DEF WatchEnds, sessionVars
<1>8. CASE Signing
  BY <1>4, <1>5, <1>6, <1>7, <1>8, GuiTurnKeeps DEF Signing, NextGui, GuiSession
<1>9. QED
  BY <1>3, <1>8 DEF Next, Verifying, appVars

(* It holds of the file before anything happens.                            *)
LEMMA FileInit == Init => FileInv
<1> SUFFICES ASSUME Init
             PROVE  FileInv
  OBVIOUS
<1>1. asked = <<>> /\ file = EmptyFile
  BY DEF Init, InitSession
<1>2. Answered = {}
  BY <1>1 DEF Answered
<1>3. QED
  BY <1>1, <1>2, EmptyFileInv

(* A session and its file are as they should be in every state.             *)
LEMMA SessionInvariant == Spec => [](SessionInv /\ FileInv)
BY SessionInit, FileInit, SessionStep, PTL DEF Spec

(* The file reads back as it was written.                                   *)
LEMMA FileReadsBack ==
  ASSUME SessionInv, FileInv, reader # "failed"
  PROVE  Read(Written(file)) = file
<1>1. PICK f : f = file
  OBVIOUS
<1>2. f \in Seq(ToSet(f)) /\ Timed(f) /\ Sorted(f)
  BY <1>1 DEF FileInv
<1>3. \A k \in DOMAIN f : FromSubtitle(AsSubtitle(f[k])) = f[k]
  <2>1. ASSUME NEW k \in DOMAIN f
        PROVE  FromSubtitle(AsSubtitle(f[k])) = f[k]
    <3>1. PICK n \in Answered : f[k] = SignedAs(n)
      BY <1>1 DEF FileInv
    <3>2. n \in DOMAIN asked
      BY DEF Answered
    <3>3. QED
      BY <3>1, <3>2, SignedType
  <2>2. QED
    BY <2>1
<1>4. [ k \in DOMAIN Written(f) |-> FromSubtitle(Written(f)[k]) ] =
      [ k \in DOMAIN f |-> FromSubtitle(AsSubtitle(f[k])) ]
  BY DEF Written
<1>5. [ k \in DOMAIN f |-> FromSubtitle(AsSubtitle(f[k])) ] = [ k \in DOMAIN f |-> f[k] ]
  BY <1>3, Zenon
<1>6. f = [ k \in DOMAIN f |-> f[k] ]
  BY <1>2
<1>7. Read(Written(f)) = FromIntervals(f)
  BY <1>4, <1>5, <1>6, Zenon DEF Read
<1>8. FromIntervals(f) = f
  BY <1>2, SortedStays
<1>9. QED
  BY <1>1, <1>7, <1>8

(* try_collect::<SignFile> and SignFile: in whatever order the answers come,*)
(* the file holds each of them once, sorted, and reads back as it was       *)
(* written.                                                                 *)
THEOREM FileIsFaithful == Spec => []FileFaithful
<1>1. ASSUME SessionInv, FileInv
      PROVE  FileFaithful
  <2> SUFFICES ASSUME reader # "failed"
               PROVE  /\ Read(Written(file)) = file
                      /\ \A i \in 1..(Len(file) - 1) : ~ Before(file[i + 1], file[i])
                      /\ Len(file) = Cardinality(Answered)
                      /\ \A n \in Answered :
                            Cardinality({ i \in DOMAIN file : file[i] = SignedAs(n) }) =
                            Cardinality({ m \in Answered : SignedAs(m) = SignedAs(n) })
    BY DEF FileFaithful
  <2>1. Read(Written(file)) = file
    BY <1>1, FileReadsBack
  <2>2. file \in Seq(ToSet(file)) /\ Sorted(file) /\ Len(file) = Cardinality(Answered)
    BY <1>1 DEF FileInv
  <2>3. PICK l \in Nat : l = Len(file) /\ DOMAIN file = 1..l
    BY <2>2
  <2>4. ASSUME NEW i \in 1..(l - 1)
        PROVE  ~ Before(file[i + 1], file[i])
    <3>1. i \in 1..l /\ i + 1 \in 1..l /\ i < i + 1
      BY <2>3
    <3>2. QED
      BY <3>1, <2>2, <2>3 DEF Sorted
  <2>5. ASSUME NEW n \in Answered
        PROVE  Cardinality({ i \in DOMAIN file : file[i] = SignedAs(n) }) =
               Cardinality({ m \in Answered : SignedAs(m) = SignedAs(n) })
    <3>1. PICK v : v = SignedAs(n)
      OBVIOUS
    <3>2. Cardinality({ i \in DOMAIN file : file[i] = v }) =
          Cardinality({ m \in Answered : SignedAs(m) = v })
      BY <1>1 DEF FileInv
    <3>3. QED
      BY <3>1, <3>2
  <2>6. QED
    BY <2>1, <2>2, <2>3, <2>4, <2>5
<1>2. QED
  BY <1>1, SessionInvariant, PTL

-----------------------------------------------------------------------------
(* The state of all three.                                                 *)

WindowInv ==
    /\ view \in {"menu", "video"} /\ {output, signCtrl} \subseteq BOOLEAN
    /\ player \in {"none", "running", "dead", "done"}
    /\ down \in {None, "pause", "overlay", "write"}
    /\ videos \in 0..MaxVideos

(* The verifier is used after the signer, and has shown no more than it has *)
(* taken.                                                                   *)
VerifierInv ==
    /\ vview \in {"menu", "video"} /\ seen \in 0..job.frames /\ vshown \in 0..seen
    /\ vplayer \in {"none", "running", "dead", "done"}
    /\ chosen \subseteq {"src", "signfile"}
    /\ DOMAIN labels = DOMAIN sigs
    /\ vidle \in Seq(ToSet(vidle)) /\ \A i \in DOMAIN vidle : vidle[i].frame \in 0..seen
    /\ vplayer = "none" => seen = 0 /\ vidle = <<>> /\ vshown = 0

(* The window's state keeps its form.                                       *)
LEMMA WindowStep == WindowInv /\ [Next]_appVars => WindowInv'
<1> SUFFICES ASSUME WindowInv, [Next]_appVars
             PROVE  WindowInv'
  OBVIOUS
<1>1. CASE UNCHANGED guiVars
  BY <1>1 DEF WindowInv, guiVars
<1>2. CASE Menu
  <2>1. CASE (\E j \in Jobs : ChooseVideo(j)) \/ ChooseOutput
    BY <2>1 DEF ChooseVideo, ChooseOutput, WindowInv
  <2>2. CASE GoToVideo
    <3>1. videos' \in 0..MaxVideos
      BY <2>2, GuiAssumption DEF GoToVideo, WindowInv
    <3>2. QED
      BY <2>2, <3>1 DEF GoToVideo, SpawnPlayer, WatchVideo, WindowInv
  <2>3. QED
    BY <1>2, <2>1, <2>2 DEF Menu
<1>3. CASE VideoView
  <2>1. CASE PressEnter \/ PressSpace \/ PaintOverlay
    BY <2>1 DEF PressEnter, PressSpace, PaintOverlay, GoDown, WindowInv
  <2>2. CASE RunIdle
    BY <2>2 DEF RunIdle, ShowFrame, ShowSign, Finish, GoDown, WindowInv
  <2>3. QED
    BY <1>3, <2>1, <2>2 DEF VideoView
<1>4. CASE GuiTurn
  BY <1>4 DEF GuiTurn, WindowInv
<1>5. CASE WatchEnds
  BY <1>5 DEF WatchEnds, WindowInv
<1>6. CASE Signing
  BY <1>1, <1>2, <1>3, <1>4, <1>5, <1>6 DEF Signing, NextGui, GuiSession
<1>7. QED
  BY <1>1, <1>6 DEF Next, Verifying, appVars

(* The verifier's state keeps its form.                                     *)
LEMMA VerifierStep ==
  ASSUME SessionInv, VerifierInv, [Next]_appVars, SessionInv'
  PROVE  VerifierInv'
<1>0. job.frames \in Nat /\ job'.frames \in Nat
  BY NewControllers DEF SessionInv
<1>1. CASE UNCHANGED verifierVars /\ (UNCHANGED job \/ vplayer = "none")
  <2>1. seen \in 0..job'.frames
    BY <1>0, <1>1 DEF VerifierInv
  <2>2. QED
    BY <1>1, <2>1 DEF VerifierInv, verifierVars
<1>2. CASE UNCHANGED job /\ (VChooseVideo \/ VChooseFile)
  BY <1>2 DEF VChooseVideo, VChooseFile, VerifierInv
<1>3. CASE UNCHANGED job /\ VGoToVideo
  <2>1. vplayer' \in {"dead", "running"} /\ vview' = "video"
    BY <1>3 DEF VGoToVideo, VWatchVideo
  <2>2. UNCHANGED <<chosen, seen, vidle, vshown, sigs, labels>>
    BY <1>3 DEF VGoToVideo
  <2>3. QED
    BY <1>3, <2>1, <2>2 DEF VerifierInv
<1>4. PICK n \in Nat : n = Len(vidle) /\ DOMAIN vidle = 1..n
  BY DEF VerifierInv
<1>5. ASSUME NEW x, x.frame \in 0..(seen'), vidle' = Append(vidle, x),
             seen' \in {seen, seen + 1}, seen \in Nat
      PROVE  vidle' \in Seq(ToSet(vidle')) /\ \A i \in DOMAIN vidle' : vidle'[i].frame \in 0..(seen')
  <2>1. PICK v : v = vidle /\ v \in Seq(ToSet(v) \cup {x})
    BY DEF VerifierInv
  <2>2. PICK S : v \in Seq(S) /\ x \in S
    BY <2>1
  <2>3. /\ vidle' \in Seq(S) /\ DOMAIN vidle' = 1..(n + 1)
        /\ \A i \in 1..n : vidle'[i] = vidle[i]
        /\ vidle'[n + 1] = x
    BY <1>4, <1>5, <2>1, <2>2
  <2>4. vidle' \in Seq(ToSet(vidle'))
    BY <2>3 DEF ToSet
  <2>5. \A m \in 0..seen : m \in 0..(seen')
    BY <1>5
  <2>6. \A i \in 1..(n + 1) : i \in 1..n \/ i = n + 1
    BY <1>4
  <2>7. \A i \in DOMAIN vidle' : vidle'[i].frame \in 0..(seen')
    BY <1>4, <1>5, <2>3, <2>5, <2>6 DEF VerifierInv
  <2>8. QED
    BY <2>4, <2>7
<1>6. CASE UNCHANGED job /\ VNextFrame
  <2>1. /\ seen' = seen + 1 /\ seen \in Nat /\ seen < job.frames /\ vplayer = "running"
        /\ seen' \in 0..job.frames /\ vshown \in 0..(seen')
        /\ UNCHANGED <<vview, chosen, vplayer, vshown, sigs, labels>>
    BY <1>0, <1>6 DEF VNextFrame, VerifierInv
  <2>2. vidle' \in Seq(ToSet(vidle')) /\ \A i \in DOMAIN vidle' : vidle'[i].frame \in 0..(seen')
    <3>1. CASE UNCHANGED vidle
      <4>1. \A m \in 0..seen : m \in 0..(seen')
        BY <2>1
      <4>2. QED
        BY <3>1, <4>1 DEF VerifierInv
    <3>2. CASE vidle' = Append(vidle, [frame |-> seen + 1, sigs |-> SigsOf(seen + 1)])
      <4>1. PICK x : x = [frame |-> seen + 1, sigs |-> SigsOf(seen + 1)]
        OBVIOUS
      <4>2. x.frame \in 0..(seen')
        BY <4>1, <2>1
      <4>3. QED
        BY <3>2, <4>1, <4>2, <2>1, <1>5
    <3>3. QED
      BY <1>6, <3>1, <3>2 DEF VNextFrame
  <2>3. QED
    BY <1>6, <2>1, <2>2 DEF VerifierInv
<1>7. CASE UNCHANGED job /\ VDone
  <2>1. /\ seen \in Nat /\ UNCHANGED <<vview, chosen, seen, vshown, sigs, labels>>
        /\ vplayer' = "done" /\ vidle' = Append(vidle, [frame |-> 0, sigs |-> <<>>])
    BY <1>0, <1>7 DEF VDone, VerifierInv
  <2>2. PICK x : x = [frame |-> 0, sigs |-> <<>>]
    OBVIOUS
  <2>3. vidle' \in Seq(ToSet(vidle')) /\ \A i \in DOMAIN vidle' : vidle'[i].frame \in 0..(seen')
    <3>1. x.frame \in 0..(seen') /\ seen' \in {seen, seen + 1}
      BY <2>1, <2>2
    <3>2. QED
      BY <3>1, <2>1, <2>2, <1>5
  <2>4. QED
    BY <1>7, <2>1, <2>3 DEF VerifierInv
<1>8. CASE UNCHANGED job /\ VRunIdle
  <2>1. /\ vidle # <<>> /\ vidle' = Tail(vidle) /\ Head(vidle) = vidle[1] /\ 1 \in DOMAIN vidle
        /\ UNCHANGED <<chosen, vplayer, seen>>
    BY <1>8 DEF VRunIdle, VerifierInv
  <2>2. vidle' \in Seq(ToSet(vidle')) /\ \A i \in DOMAIN vidle' : vidle'[i].frame \in 0..seen
    <3>1. PICK m \in Nat : n = m + 1
      BY <2>1, <1>4
    <3>2. DOMAIN vidle' = 1..m /\ vidle' \in Seq(ToSet(vidle)) /\ \A i \in 1..m : vidle'[i] = vidle[i + 1]
      BY <2>1, <3>1, <1>4 DEF VerifierInv
    <3>3. \A i \in 1..m : i + 1 \in DOMAIN vidle
      BY <3>1, <1>4
    <3>4. vidle' \in Seq(ToSet(vidle'))
      BY <3>2 DEF ToSet
    <3>5. QED
      BY <3>2, <3>3, <3>4 DEF VerifierInv
  <2>3. vidle[1].frame \in 0..seen /\ vplayer # "none"
    BY <2>1 DEF VerifierInv
  <2>4. CASE vview' = "menu" /\ UNCHANGED <<vshown, sigs, labels>>
    BY <1>8, <2>1, <2>2, <2>3, <2>4 DEF VerifierInv
  <2>5. CASE vshown' = vidle[1].frame /\ sigs' = vidle[1].sigs /\ labels' = Relabelled(vidle[1].sigs)
             /\ UNCHANGED vview
    <3>1. DOMAIN labels' = DOMAIN sigs'
      BY <2>5 DEF Relabelled
    <3>2. QED
      BY <1>8, <2>1, <2>2, <2>3, <2>5, <3>1 DEF VerifierInv
  <2>6. QED
    BY <1>8, <2>1, <2>4, <2>5 DEF VRunIdle
<1>9. CASE UNCHANGED job /\ \E i \in ToSet(opened), o \in Outcomes : VJudge(i, o)
  <2>1. UNCHANGED <<vview, chosen, vplayer, seen, vidle, vshown, sigs, labels>>
    BY <1>9 DEF VJudge
  <2>2. QED
    BY <1>9, <2>1 DEF VerifierInv
<1>10. CASE Verifying
  BY <1>2, <1>3, <1>6, <1>7, <1>8, <1>9, <1>10 DEF Verifying, NextVerifierGui, sessionVars
<1>11. CASE Signing
  BY <1>1, <1>11 DEF Signing
<1>12. CASE UNCHANGED appVars
  BY <1>1, <1>12 DEF appVars, sessionVars
<1>13. QED
  BY <1>10, <1>11, <1>12 DEF Next

(* The signer's and the verifier's GUI, and the session between them: their *)
(* state keeps its form, whatever is signed, shown and judged.              *)
THEOREM AppsTypes == Spec => []TypeOK
<1>1. Init => WindowInv /\ VerifierInv
  <2> SUFFICES ASSUME Init
               PROVE  WindowInv /\ VerifierInv
    OBVIOUS
  <2>1. WindowInv
    <3>1. output \in BOOLEAN /\ signCtrl \in BOOLEAN
      BY DEF Init, InitGui
    <3>2. view = "menu" /\ player = "none" /\ down = None /\ videos \in 0..MaxVideos
      BY GuiAssumption DEF Init, InitGui
    <3>3. QED
      BY <3>1, <3>2 DEF WindowInv
  <2>2. job.frames \in Nat
    BY NewControllers DEF Init, InitSession
  <2>3. VerifierInv
    BY <2>2 DEF Init, InitVerifierGui, VerifierInv, ToSet
  <2>4. QED
    BY <2>1, <2>3
<1>2. SessionInv /\ OverlayInv /\ WindowInv /\ VerifierInv => TypeOK
  <2> SUFFICES ASSUME SessionInv, OverlayInv, WindowInv, VerifierInv
               PROVE  TypeOK
    OBVIOUS
  <2>1. TypeOKSession
    BY DEF SessionInv, ControllersOK, AskedOK, AnswersOK, TypeOKSession
  <2>2. \A i \in DOMAIN idle : idle[i].do \in {"frame", "sign", "done"}
    <3>1. \A i \in DOMAIN idle : idle[i] \in Callbacks
      BY DEF OverlayInv, GuiTypes
    <3>2. \A c \in Callbacks : c.do \in {"frame", "sign", "done"}
      BY DEF Callbacks, Callback
    <3>3. QED
      BY <3>1, <3>2
  <2>3. TypeOKGui
    BY <2>2 DEF SessionInv, WindowInv, TypeOKGui
  <2>4. QED
    BY <2>1, <2>3 DEF VerifierInv, TypeOK
<1>3. SessionInv /\ FileInv /\ WindowInv /\ VerifierInv /\ [Next]_appVars
        => WindowInv' /\ VerifierInv'
  BY SessionStep, WindowStep, VerifierStep
<1>4. Init => SessionInv /\ FileInv /\ OverlayInv /\ WindowInv /\ VerifierInv
  BY <1>1, SessionInit, FileInit, OverlayInit
<1>5. QED
  BY <1>2, <1>3, <1>4, SessionStep, OverlayStep, PTL DEF Spec
=============================================================================
