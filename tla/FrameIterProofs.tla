-------------------------- MODULE FrameIterProofs --------------------------
(***************************************************************************)
(* FrameIter for every input, size of the queues and conduct of GStreamer: *)
(* the pipeline is closed when the iterator is at its end, nothing follows *)
(* a timeout, and no frame follows the one that is last; the frames are    *)
(* those of the video, in its order and at its times; the variables keep   *)
(* their types; and a slice of the audio begins where the last one ended.  *)
(*                                                                         *)
(* What waits in the video sink, the frame at hand and the frames returned *)
(* are together the samples delivered so far (Pulling): that is what rules *)
(* out that one is lost or doubled between GStreamer's thread and next().  *)
(* So it is with the audio: what waits in its sink, what AudioBuffer holds *)
(* and the slices (AudioInv).                                              *)
(***************************************************************************)
EXTENDS FrameIter, SequenceTheorems, FiniteSetTheorems, NaturalsInduction,
        WellFoundedInduction, TLAPS

-----------------------------------------------------------------------------
(* The states of the pipeline.                                              *)

(* A change that succeeds arrives.                                          *)
LEMMA ChangeArrives ==
  ASSUME NEW from \in GstState, NEW target \in GstState, NEW mayFail,
         NEW o \in SetStateBlocking(from, target, mayFail)
  PROVE  o \in Outcome /\ (o.res = "ok" => o.state = target)
<1>1. \/ o \in Outcomes("ok", {target})
      \/ o \in Outcomes("error", {from}) \/ o \in Outcomes("error", {"Null"})
      \/ o \in Outcomes("panic", {from})
  BY DEF SetStateBlocking
<1>2. QED
  BY <1>1 DEF Outcomes, Outcome, GstState

(* So does one after another.                                               *)
LEMMA ChangesArrive ==
  ASSUME NEW outcomes \in SUBSET Outcome, NEW target \in GstState, NEW mayFail,
         NEW o \in AndThen(outcomes, target, mayFail)
  PROVE  o \in Outcome /\ (o.res = "ok" => o.state = target)
<1>1. PICK p \in outcomes :
        o \in (IF p.res = "ok" THEN SetStateBlocking(p.state, target, mayFail) ELSE {p})
  BY DEF AndThen
<1>2. p \in Outcome /\ p.state \in GstState
  BY DEF Outcome
<1>3. CASE p.res = "ok"
  BY <1>1, <1>2, <1>3, ChangeArrives
<1>4. CASE p.res # "ok"
  BY <1>1, <1>2, <1>4
<1>5. QED
  BY <1>3, <1>4

(* Closing that succeeds leaves the pipeline in Null.                       *)
LEMMA CloseCloses ==
  ASSUME NEW from \in GstState, NEW mayFail, NEW o \in Close(from, mayFail)
  PROVE  o \in Outcome /\ (o.res = "ok" => o.state = "Null")
<1>0. {"Null", "Ready", "Paused", "Playing"} \subseteq GstState
  BY DEF GstState
<1>1. CASE from = "Null"
  BY <1>1 DEF Close, Outcomes, Outcome, GstState
<1>2. CASE from = "Playing"
  <2> DEFINE paused == SetStateBlocking(from, "Paused", mayFail)
             ready == AndThen(paused, "Ready", mayFail)
  <2>1. paused \in SUBSET Outcome
    BY <1>0, ChangeArrives
  <2> HIDE DEF paused
  <2>2. ready \in SUBSET Outcome
    BY <1>0, <2>1, ChangesArrive
  <2> HIDE DEF ready
  <2>3. o \in AndThen(ready, "Null", mayFail)
    BY <1>2 DEF Close, ready, paused
  <2>4. QED
    BY <1>0, <2>2, <2>3, ChangesArrive
<1>3. CASE from \notin {"Null", "Playing"}
  <2>1. o \in SetStateBlocking(from, "Null", mayFail)
    BY <1>3 DEF Close
  <2>2. QED
    BY <1>0, <2>1, ChangeArrives
<1>4. QED
  BY <1>1, <1>2, <1>3

(* Opening that succeeds leaves it playing.                                 *)
LEMMA OpenPlays ==
  ASSUME NEW offset, NEW mayFail, NEW o \in Open(offset, mayFail)
  PROVE  o \in Outcome /\ (o.res = "ok" => o.state = "Playing")
<1>0. {"Null", "Ready", "Paused", "Playing"} \subseteq GstState
  BY DEF GstState
<1> DEFINE paused == SetStateBlocking("Null", "Paused", mayFail)
           sought == UNION { IF p.res = "ok" /\ offset > 0
                             THEN SeekAccurate(p.state, mayFail) ELSE {p} : p \in paused }
<1>1. paused \in SUBSET Outcome
  BY <1>0, ChangeArrives
<1> HIDE DEF paused
<1>2. sought \in SUBSET Outcome
  <2> SUFFICES ASSUME NEW q \in sought PROVE q \in Outcome
    OBVIOUS
  <2>1. PICK p \in paused :
          q \in (IF p.res = "ok" /\ offset > 0 THEN SeekAccurate(p.state, mayFail) ELSE {p})
    OBVIOUS
  <2>2. p \in Outcome /\ p.state \in GstState
    BY <1>1 DEF Outcome
  <2>3. QED
    BY <2>1, <2>2 DEF SeekAccurate, Outcomes, Outcome
<1> HIDE DEF sought
<1>3. o \in AndThen(sought, "Playing", mayFail)
  BY DEF Open, sought, paused
<1>4. QED
  BY <1>0, <1>2, <1>3, ChangesArrive

-----------------------------------------------------------------------------
(* The inductive invariant.                                                 *)

Returned == Range(out)

Typed ==
    /\ gst \in GstState
    /\ sent \in [Sink -> Nat]
    /\ queue \in [Sink -> Seq(Nat)]
    /\ fused \in BOOLEAN
    /\ out \in Seq(Returned)
    /\ pc \in {"new", "video", "check", "audio", "yield"} \cup Droppable \cup Final

(* While frames are to come the pipeline plays; once fused it is closed, or *)
(* closing it has panicked.                                                 *)
PlaysOrClosed ==
    /\ pc \in {"video", "check", "audio", "yield"} \/ (pc = "idle" /\ ~ fused)
         => gst = "Playing" /\ ~ fused
    /\ pc = "new" => gst = "Null" /\ ~ fused
    /\ pc = "idle" /\ fused => gst = "Null"
    /\ ClosedAtEnd

(* A timeout was the end of the iterator.                                   *)
TimeoutFuses ==
    ErrorItem("timed out") \in Returned =>
        pc \in {"ended", "panicked", "dropped", "leaked"} \/ (pc = "idle" /\ fused)

(* Once a frame is last, there is none in the sink and none will come.      *)
LastEmpties ==
    /\ "video" \in eos => sent["video"] = Len(Stream("video"))
    /\ (\E item \in Returned : item.last) =>
        /\ "video" \in eos /\ queue["video"] = <<>>
        /\ pc \notin {"new", "check", "audio", "yield"}

IterInv ==
    Typed /\ PlaysOrClosed /\ TimeoutFuses /\ TimeoutIsLast /\ LastEmpties /\ LastIsLast

(* It holds at first.                                                       *)
LEMMA InitIterInv == Init => IterInv
<1> SUFFICES ASSUME Init PROVE IterInv
  OBVIOUS
<1>1. /\ gst = "Null" /\ sent = [k \in Sink |-> 0] /\ queue = [k \in Sink |-> <<>>]
      /\ eos = {} /\ pc = "new" /\ fused = FALSE /\ out = <<>>
  BY DEF Init, InitPipeline, InitIter
<1>2. Returned = {} /\ DOMAIN out = {}
  BY <1>1 DEF Returned, Range
<1>3. Typed
  <2>1. <<>> \in Seq(Nat) /\ <<>> \in Seq(Returned)
    BY EmptySeq
  <2>2. queue \in [Sink -> Seq(Nat)] /\ sent \in [Sink -> Nat]
    BY <1>1, <2>1
  <2>3. QED
    BY <1>1, <2>1, <2>2 DEF Typed, GstState
<1>4. PlaysOrClosed /\ TimeoutFuses /\ TimeoutIsLast /\ LastEmpties /\ LastIsLast
  BY <1>1, <1>2 DEF PlaysOrClosed, ClosedAtEnd, TimeoutFuses, TimeoutIsLast, LastEmpties, LastIsLast
<1>5. QED
  BY <1>3, <1>4 DEF IterInv

(* What returning an item does to what was returned: it comes after all.    *)
LEMMA ReturnsItem ==
  ASSUME out \in Seq(Returned), NEW x, out' = Append(out, x)
  PROVE  \E n :
         /\ \A k \in DOMAIN out' : (k \in DOMAIN out /\ out'[k] = out[k]) \/ (k = n /\ out'[k] = x)
         /\ \A k \in DOMAIN out' : k <= n /\ ~ n < k
         /\ \A k \in DOMAIN out : out[k] \in Returned
         /\ Returned' = Returned \cup {x}
         /\ out' \in Seq(Returned')
<1> DEFINE R == Returned
           new == R \cup {x}
<1>1. out \in Seq(new) /\ x \in new
  BY SeqMonotonic
<1>2. /\ Len(out) \in Nat /\ DOMAIN out = 1..Len(out)
      /\ DOMAIN out' = 1..(Len(out) + 1)
      /\ \A k \in 1..Len(out) : out'[k] = out[k]
      /\ out'[Len(out) + 1] = x
      /\ out' \in Seq(new)
  <2> HIDE DEF new
  <2>1. QED
    BY <1>1
<1>3. \A k \in 1..(Len(out) + 1) :
        (k \in 1..Len(out) \/ k = Len(out) + 1) /\ k <= Len(out) + 1 /\ ~ Len(out) + 1 < k
  BY <1>2
<1>4. Range(out') \subseteq Range(out) \cup {x}
  BY <1>2, <1>3 DEF Range
<1>5. Range(out) \subseteq Range(out')
  BY <1>2, <1>3 DEF Range
<1>6. x \in Range(out')
  BY <1>2 DEF Range
<1>7. Returned' = new
  BY <1>4, <1>5, <1>6 DEF Returned
<1>8. \A k \in DOMAIN out' :
        (k \in DOMAIN out /\ out'[k] = out[k]) \/ (k = Len(out) + 1 /\ out'[k] = x)
  BY <1>2, <1>3
<1>9. \A k \in DOMAIN out : out[k] \in Returned
  BY DEF Returned, Range
<1>10. \A k \in DOMAIN out' : k <= Len(out) + 1 /\ ~ Len(out) + 1 < k
  BY <1>2, <1>3
<1>11. out' \in Seq(Returned')
  BY <1>2, <1>7
<1>12. QED
  BY <1>7, <1>8, <1>9, <1>10, <1>11

(* An item other than a timeout that is returned before any, and is an      *)
(* error or comes before any last frame, keeps the order of the items.      *)
LEMMA KeepsOrder ==
  ASSUME out \in Seq(Returned), LastIsLast, NEW x, out' = Append(out, x),
         ErrorItem("timed out") \notin Returned,
         x.kind = "error" \/ \A item \in Returned : ~ item.last
  PROVE  /\ TimeoutIsLast' /\ LastIsLast'
         /\ Returned' = Returned \cup {x} /\ out' \in Seq(Returned')
<1>1. PICK n :
         /\ \A k \in DOMAIN out' : (k \in DOMAIN out /\ out'[k] = out[k]) \/ (k = n /\ out'[k] = x)
         /\ \A k \in DOMAIN out' : k <= n /\ ~ n < k
         /\ \A k \in DOMAIN out : out[k] \in Returned
         /\ Returned' = Returned \cup {x}
         /\ out' \in Seq(Returned')
  BY ReturnsItem
<1>2. ASSUME NEW j \in DOMAIN out', NEW k \in DOMAIN out', out'[j] = ErrorItem("timed out")
      PROVE  k <= j
  <2>1. j = n
    BY <1>1, <1>2
  <2>2. QED
    BY <1>1, <2>1
<1>3. ASSUME NEW j \in DOMAIN out', NEW k \in DOMAIN out', j < k, out'[j].last
      PROVE  out'[k].kind # "frame"
  <2>1. j # n
    BY <1>1, <1>3
  <2>2. j \in DOMAIN out /\ out[j].last /\ out[j] \in Returned
    BY <1>1, <1>3, <2>1
  <2>3. CASE k \in DOMAIN out /\ out'[k] = out[k]
    BY <1>3, <2>2, <2>3 DEF LastIsLast
  <2>4. CASE k = n /\ out'[k] = x
    BY <2>2, <2>4
  <2>5. QED
    BY <1>1, <2>3, <2>4
<1>4. TimeoutIsLast'
  BY <1>2 DEF TimeoutIsLast, ErrorItem
<1>5. LastIsLast'
  BY <1>3 DEF LastIsLast
<1>6. QED
  BY <1>1, <1>4, <1>5

(* Items returned stay in order while none is returned.                     *)
LEMMA KeepsItems ==
  ASSUME out' = out
  PROVE  /\ Returned' = Returned
         /\ TimeoutIsLast => TimeoutIsLast'
         /\ LastIsLast => LastIsLast'
BY DEF Returned, TimeoutIsLast, LastIsLast, ErrorItem

-----------------------------------------------------------------------------
(* Every step keeps it.                                                     *)

(* A sample is delivered.                                                   *)
LEMMA DeliverSampleIterInv ==
  ASSUME IterInv, NEW k \in Sink, DeliverSample(k)
  PROVE  IterInv'
<1>1. Typed /\ PlaysOrClosed /\ TimeoutFuses /\ TimeoutIsLast /\ LastEmpties /\ LastIsLast
  BY DEF IterInv
<1>2. /\ sent[k] < Len(Stream(k)) /\ sent' = [sent EXCEPT ![k] = @ + 1]
      /\ queue' = [queue EXCEPT ![k] = Append(@, sent[k] + 1)]
      /\ UNCHANGED <<source, gst, eos, pc, fused, out>>
  BY DEF DeliverSample, iterVars
<1>3. /\ Returned' = Returned /\ TimeoutIsLast' /\ LastIsLast'
  BY <1>1, <1>2, KeepsItems
<1>4. sent' \in [Sink -> Nat] /\ queue' \in [Sink -> Seq(Nat)]
  <2>1. sent[k] + 1 \in Nat
    BY <1>1 DEF Typed
  <2>2. Append(queue[k], sent[k] + 1) \in Seq(Nat)
    BY <1>1, <2>1, AppendProperties DEF Typed
  <2>3. QED
    BY <1>1, <1>2, <2>1, <2>2 DEF Typed
<1>5. Typed'
  BY <1>1, <1>2, <1>3, <1>4 DEF Typed
<1>6. PlaysOrClosed' /\ TimeoutFuses'
  BY <1>1, <1>2, <1>3 DEF PlaysOrClosed, ClosedAtEnd, TimeoutFuses, ErrorItem
<1>7. LastEmpties'
  <2>1. Stream("video")' = Stream("video")
    BY <1>2 DEF Stream
  <2>2. CASE k = "video"
    <3>1. "video" \notin eos
      BY <1>1, <1>2, <2>2 DEF LastEmpties, Typed
    <3>2. QED
      BY <1>1, <1>2, <1>3, <3>1 DEF LastEmpties
  <2>3. CASE k # "video"
    <3>1. sent'["video"] = sent["video"] /\ queue'["video"] = queue["video"]
      BY <1>1, <1>2, <2>3 DEF Typed, Sink
    <3>2. QED
      BY <1>1, <1>2, <1>3, <2>1, <3>1 DEF LastEmpties
  <2>4. QED
    BY <2>2, <2>3
<1>8. QED
  BY <1>3, <1>5, <1>6, <1>7 DEF IterInv

(* A stream ends, a message is posted or a pad is added.                    *)
LEMMA AroundIterInv ==
  ASSUME IterInv,
         (\E k \in Sink : DeliverEos(k)) \/ (\E isError \in BOOLEAN : PostMessage(isError)) \/ PadAdded
  PROVE  IterInv'
<1>1. Typed /\ PlaysOrClosed /\ TimeoutFuses /\ TimeoutIsLast /\ LastEmpties /\ LastIsLast
  BY DEF IterInv
<1>2. /\ UNCHANGED <<source, gst, sent, queue, fused, out>>
      /\ eos \subseteq eos' /\ ("video" \in eos' => "video" \in eos \/ sent["video"] = Len(Stream("video")))
      /\ pc' = pc \/ (pc = "new" /\ pc' = "aborted")
  <2>1. CASE \E k \in Sink : DeliverEos(k)
    BY <2>1 DEF DeliverEos, iterVars
  <2>2. CASE \E isError \in BOOLEAN : PostMessage(isError)
    BY <2>2 DEF PostMessage, iterVars
  <2>3. CASE PadAdded
    BY <2>3 DEF PadAdded
  <2>4. QED
    BY <2>1, <2>2, <2>3
<1>3. /\ Returned' = Returned /\ TimeoutIsLast' /\ LastIsLast'
  BY <1>1, <1>2, KeepsItems
<1>4. Typed'
  BY <1>1, <1>2, <1>3 DEF Typed, Droppable, Final
<1>5. PlaysOrClosed' /\ TimeoutFuses'
  BY <1>1, <1>2, <1>3 DEF PlaysOrClosed, ClosedAtEnd, TimeoutFuses, ErrorItem
<1>6. LastEmpties'
  <2>1. Stream("video")' = Stream("video")
    BY <1>2 DEF Stream
  <2>2. QED
    BY <1>1, <1>2, <1>3, <2>1 DEF LastEmpties
<1>7. QED
  BY <1>3, <1>4, <1>5, <1>6 DEF IterInv

(* What stopping the pipeline does to the sinks.                            *)
LEMMA SetGstEmpties ==
  ASSUME queue \in [Sink -> Seq(Nat)], NEW state \in GstState, SetGst(state)
  PROVE  /\ gst' = state /\ queue' \in [Sink -> Seq(Nat)]
         /\ queue["video"] = <<>> => queue'["video"] = <<>>
<1>1. CASE state = "Null"
  <2>1. queue' = [k \in Sink |-> <<>>] /\ gst' = state
    BY <1>1 DEF SetGst
  <2>2. <<>> \in Seq(Nat) /\ "video" \in Sink
    BY EmptySeq DEF Sink
  <2>3. QED
    BY <2>1, <2>2
<1>2. CASE state # "Null"
  BY <1>2 DEF SetGst
<1>3. QED
  BY <1>1, <1>2

(* The pipeline is opened.                                                  *)
LEMMA OpenIterInv ==
  ASSUME IterInv, OpenPipeline
  PROVE  IterInv'
<1>1. Typed /\ PlaysOrClosed /\ TimeoutFuses /\ TimeoutIsLast /\ LastEmpties /\ LastIsLast
  BY DEF IterInv
<1>2. PICK o \in Open(source.offset, MayFail) :
        /\ SetGst(o.state)
        /\ pc' = CASE o.res = "ok" -> "idle" [] o.res = "error" -> "failed"
                   [] o.res = "panic" -> "panicked"
  BY DEF OpenPipeline
<1>3. pc = "new" /\ UNCHANGED <<source, sent, eos, fused, out>>
  BY DEF OpenPipeline
<1>4. o \in Outcome /\ (o.res = "ok" => o.state = "Playing")
  <2>1. PICK offset : offset = source.offset
    OBVIOUS
  <2>2. PICK mayFail : mayFail = MayFail
    OBVIOUS
  <2>3. o \in Open(offset, mayFail)
    BY <1>2, <2>1, <2>2
  <2>4. QED
    BY <2>3, OpenPlays
<1>5. gst' = o.state /\ o.state \in GstState /\ queue' \in [Sink -> Seq(Nat)]
      /\ (queue["video"] = <<>> => queue'["video"] = <<>>)
  <2>1. PICK state : state = o.state
    OBVIOUS
  <2>2. state \in GstState
    BY <1>4, <2>1 DEF Outcome
  <2>3. SetGst(state)
    BY <1>2, <2>1
  <2>4. QED
    BY <1>1, <2>1, <2>2, <2>3, SetGstEmpties DEF Typed
<1>6. (o.res = "ok" /\ pc' = "idle") \/ pc' \in {"failed", "panicked"}
  BY <1>2, <1>4 DEF Outcome
<1>7. /\ Returned' = Returned /\ TimeoutIsLast' /\ LastIsLast'
  BY <1>1, <1>3, KeepsItems
<1>8. Typed'
  BY <1>1, <1>3, <1>5, <1>6, <1>7 DEF Typed, Droppable
<1>9. PlaysOrClosed' /\ TimeoutFuses'
  BY <1>1, <1>3, <1>4, <1>5, <1>6, <1>7 DEF PlaysOrClosed, ClosedAtEnd, TimeoutFuses, ErrorItem
<1>10. LastEmpties'
  <2>1. Stream("video")' = Stream("video")
    BY <1>3 DEF Stream
  <2>2. QED
    BY <1>1, <1>3, <1>7, <2>1 DEF LastEmpties
<1>11. QED
  BY <1>7, <1>8, <1>9, <1>10 DEF IterInv

(* next() starts, or pulls, and returns nothing yet.                        *)
LEMMA PullsIterInv ==
  ASSUME IterInv, NextFused \/ NextBegin \/ PullVideo \/ CheckAudio \/ PullAudio
  PROVE  IterInv'
<1>1. Typed /\ PlaysOrClosed /\ TimeoutFuses /\ TimeoutIsLast /\ LastEmpties /\ LastIsLast
  BY DEF IterInv
<1>2. UNCHANGED <<source, gst, sent, eos, fused, out>>
  BY DEF NextFused, NextBegin, PullVideo, CheckAudio, PullAudio, gstVars
<1>3. \/ pc = "idle" /\ fused /\ pc' = "ended"
      \/ pc = "idle" /\ ~ fused /\ pc' = "video"
      \/ pc = "video" /\ queue["video"] # <<>> /\ pc' \in {"idle", "check"}
      \/ pc = "check" /\ pc' \in {"yield", "audio"}
      \/ pc = "audio" /\ pc' = "audio"
  BY DEF NextFused, NextBegin, PullVideo, CheckAudio, PullAudio
<1>4. /\ queue' \in [Sink -> Seq(Nat)]
      /\ queue["video"] = <<>> => queue'["video"] = <<>>
  <2>1. CASE UNCHANGED queue
    BY <1>1, <2>1 DEF Typed
  <2>2. ASSUME NEW k \in Sink, queue[k] # <<>>, queue' = [queue EXCEPT ![k] = Tail(@)]
        PROVE  /\ queue' \in [Sink -> Seq(Nat)]
               /\ queue["video"] = <<>> => queue'["video"] = <<>>
    <3>1. Tail(queue[k]) \in Seq(Nat)
      BY <1>1, <2>2, HeadTailProperties DEF Typed
    <3>2. QED
      BY <1>1, <2>2, <3>1 DEF Typed, Sink
  <2>3. "video" \in Sink /\ "audio" \in Sink
    BY DEF Sink
  <2>4. QED
    BY <2>1, <2>2, <2>3 DEF NextFused, NextBegin, PullVideo, CheckAudio, PullAudio, gstVars
<1>5. /\ Returned' = Returned /\ TimeoutIsLast' /\ LastIsLast'
  BY <1>1, <1>2, KeepsItems
<1>6. Typed'
  BY <1>1, <1>2, <1>3, <1>4, <1>5 DEF Typed, Droppable
<1>7. PlaysOrClosed' /\ TimeoutFuses'
  BY <1>1, <1>2, <1>3, <1>5 DEF PlaysOrClosed, ClosedAtEnd, TimeoutFuses, ErrorItem
<1>8. LastEmpties'
  <2>1. Stream("video")' = Stream("video")
    BY <1>2 DEF Stream
  <2>2. QED
    BY <1>1, <1>2, <1>3, <1>4, <1>5, <2>1 DEF LastEmpties
<1>9. QED
  BY <1>5, <1>6, <1>7, <1>8 DEF IterInv

(* An error on the bus is returned.                                         *)
LEMMA BusErrorIterInv ==
  ASSUME IterInv, NextBusError
  PROVE  IterInv'
<1>1. Typed /\ PlaysOrClosed /\ TimeoutFuses /\ TimeoutIsLast /\ LastEmpties /\ LastIsLast
  BY DEF IterInv
<1>2. /\ UNCHANGED <<source, gst, sent, queue, eos, pc, fused>>
      /\ pc = "idle" /\ ~ fused /\ out' = Append(out, ErrorItem("bus"))
  BY DEF NextBusError
<1>3. PICK x : x = ErrorItem("bus")
  OBVIOUS
<1>4. x.kind = "error" /\ ~ x.last /\ x # ErrorItem("timed out")
  BY <1>3 DEF ErrorItem
<1>5. ErrorItem("timed out") \notin Returned
  BY <1>1, <1>2 DEF TimeoutFuses
<1>6. /\ TimeoutIsLast' /\ LastIsLast'
      /\ Returned' = Returned \cup {x} /\ out' \in Seq(Returned')
  BY <1>1, <1>2, <1>3, <1>4, <1>5, KeepsOrder DEF Typed
<1>7. Typed'
  BY <1>1, <1>2, <1>6 DEF Typed
<1>8. PlaysOrClosed' /\ TimeoutFuses'
  BY <1>1, <1>2, <1>4, <1>5, <1>6 DEF PlaysOrClosed, ClosedAtEnd, TimeoutFuses, ErrorItem
<1>9. LastEmpties'
  <2>1. Stream("video")' = Stream("video")
    BY <1>2 DEF Stream
  <2>2. QED
    BY <1>1, <1>2, <1>4, <1>6, <2>1 DEF LastEmpties
<1>10. QED
  BY <1>6, <1>7, <1>8, <1>9 DEF IterInv

(* A frame is returned: it is last only when the stream has ended and the   *)
(* sink is empty, for the pipeline plays.                                   *)
LEMMA YieldIterInv ==
  ASSUME IterInv, Yield
  PROVE  IterInv'
<1>1. Typed /\ PlaysOrClosed /\ TimeoutFuses /\ TimeoutIsLast /\ LastEmpties /\ LastIsLast
  BY DEF IterInv
<1>2. /\ UNCHANGED <<source, gst, sent, queue, eos, fused>>
      /\ pc \in {"yield", "audio"} /\ gst = "Playing" /\ ~ fused
  BY <1>1 DEF Yield, gstVars, PlaysOrClosed
<1>3. ErrorItem("timed out") \notin Returned /\ \A item \in Returned : ~ item.last
  BY <1>1, <1>2 DEF TimeoutFuses, LastEmpties
<1>4. Stream("video")' = Stream("video")
  BY <1>2 DEF Stream
<1>5. CASE pc' = "panicked" /\ UNCHANGED out
  <2>1. /\ Returned' = Returned /\ TimeoutIsLast' /\ LastIsLast'
    BY <1>1, <1>5, KeepsItems
  <2>2. Typed'
    BY <1>1, <1>2, <1>5, <2>1 DEF Typed, Droppable
  <2>3. PlaysOrClosed' /\ TimeoutFuses' /\ LastEmpties'
    BY <1>1, <1>2, <1>3, <1>4, <1>5, <2>1
       DEF PlaysOrClosed, ClosedAtEnd, TimeoutFuses, LastEmpties, ErrorItem
  <2>4. QED
    BY <2>1, <2>2, <2>3 DEF IterInv
<1>6. CASE pc' = "idle" /\ \E x : /\ out' = Append(out, x) /\ x.kind = "frame"
                                  /\ x.err = None /\ x.last = IsEos("video")
  <2>1. PICK x : /\ out' = Append(out, x) /\ x.kind = "frame" /\ x.last = IsEos("video")
    BY <1>6
  <2>2. x # ErrorItem("timed out")
    <3>1. x.kind = "frame"
      BY <2>1
    <3>2. ErrorItem("timed out").kind = "error"
      BY DEF ErrorItem
    <3>3. QED
      BY <3>1, <3>2
  <2>3. /\ TimeoutIsLast' /\ LastIsLast'
        /\ Returned' = Returned \cup {x} /\ out' \in Seq(Returned')
    BY <1>1, <1>3, <2>1, KeepsOrder DEF Typed
  <2>4. Typed'
    BY <1>1, <1>2, <1>6, <2>3 DEF Typed, Droppable
  <2>5. PlaysOrClosed' /\ TimeoutFuses'
    BY <1>1, <1>2, <1>3, <1>6, <2>2, <2>3
       DEF PlaysOrClosed, ClosedAtEnd, TimeoutFuses, ErrorItem
  <2>6. x.last => "video" \in eos /\ queue["video"] = <<>>
    BY <1>2, <2>1 DEF IsEos
  <2>7. LastEmpties'
    BY <1>1, <1>2, <1>3, <1>4, <1>6, <2>3, <2>6 DEF LastEmpties
  <2>8. QED
    BY <2>3, <2>4, <2>5, <2>7 DEF IterInv
<1>7. QED
  BY <1>5, <1>6 DEF Yield, FrameItem

(* What closing makes of the state.                                         *)
LEMMA CloseGst ==
  ASSUME Typed, NEW mayFail, NEW o \in Close(gst, mayFail), SetGst(o.state)
  PROVE  /\ gst' \in GstState /\ queue' \in [Sink -> Seq(Nat)]
         /\ queue["video"] = <<>> => queue'["video"] = <<>>
         /\ o.res = "ok" => gst' = "Null"
<1>1. PICK from : from = gst
  OBVIOUS
<1>2. from \in GstState /\ o \in Close(from, mayFail)
  BY <1>1 DEF Typed
<1>3. o \in Outcome /\ (o.res = "ok" => o.state = "Null")
  BY <1>2, CloseCloses
<1>4. PICK state : state = o.state
  OBVIOUS
<1>5. state \in GstState /\ SetGst(state)
  BY <1>3, <1>4 DEF Outcome
<1>6. QED
  BY <1>3, <1>4, <1>5, SetGstEmpties DEF Typed

(* The iterator gives up: it is fused, and its pipeline closed.             *)
LEMMA GiveUpIterInv ==
  ASSUME IterInv, NEW k \in Sink, GiveUp(k)
  PROVE  IterInv'
<1>1. Typed /\ PlaysOrClosed /\ TimeoutFuses /\ TimeoutIsLast /\ LastEmpties /\ LastIsLast
  BY DEF IterInv
<1>0. PICK mayFail : mayFail =
        (faults + (IF k \notin eos /\ ~ broken THEN 1 ELSE 0) < MaxFaults)
  OBVIOUS
<1>2. PICK o \in Close(gst, mayFail) :
        /\ SetGst(o.state)
        /\ pc' = CASE o.res # "ok" -> "panicked"
                   [] o.res = "ok" /\ EndError(k) # "none" -> "idle"
                   [] OTHER -> "ended"
  BY <1>0 DEF GiveUp
<1>3. /\ UNCHANGED <<source, sent, eos>> /\ fused'
      /\ pc \in {"video", "audio"}
      /\ out' = IF EndError(k) = "none" THEN out ELSE Append(out, ErrorItem(EndError(k)))
  BY DEF GiveUp, Waiting
<1>4. /\ gst' \in GstState /\ queue' \in [Sink -> Seq(Nat)]
      /\ queue["video"] = <<>> => queue'["video"] = <<>>
      /\ o.res = "ok" => gst' = "Null"
  BY <1>1, <1>2, CloseGst
<1>5. \/ pc' = "panicked" \/ (pc' = "idle" /\ gst' = "Null") \/ (pc' = "ended" /\ gst' = "Null")
  BY <1>2, <1>4
<1>6. ErrorItem("timed out") \notin Returned
  BY <1>1, <1>3 DEF TimeoutFuses, PlaysOrClosed
<1>7. Stream("video")' = Stream("video")
  BY <1>3 DEF Stream
<1>8. /\ TimeoutIsLast' /\ LastIsLast' /\ out' \in Seq(Returned')
      /\ (\E item \in Returned' : item.last) => (\E item \in Returned : item.last)
  <2>1. CASE EndError(k) = "none"
    BY <1>1, <1>3, <2>1, KeepsItems DEF Typed
  <2>2. CASE EndError(k) # "none"
    <3>1. PICK x : x = ErrorItem(EndError(k))
      OBVIOUS
    <3>2. x.kind = "error" /\ ~ x.last /\ out' = Append(out, x)
      BY <1>3, <2>2, <3>1 DEF ErrorItem
    <3>3. /\ TimeoutIsLast' /\ LastIsLast'
          /\ Returned' = Returned \cup {x} /\ out' \in Seq(Returned')
      BY <1>1, <1>6, <3>2, KeepsOrder DEF Typed
    <3>4. QED
      BY <3>2, <3>3
  <2>3. QED
    BY <2>1, <2>2
<1>9. Typed'
  BY <1>1, <1>3, <1>4, <1>5, <1>8 DEF Typed, Droppable
<1>10. PlaysOrClosed' /\ TimeoutFuses'
  BY <1>3, <1>5 DEF PlaysOrClosed, ClosedAtEnd, TimeoutFuses
<1>11. LastEmpties'
  BY <1>1, <1>3, <1>4, <1>5, <1>7, <1>8 DEF LastEmpties
<1>12. QED
  BY <1>8, <1>9, <1>10, <1>11 DEF IterInv

(* The iterator is dropped.                                                 *)
LEMMA DropIterInv ==
  ASSUME IterInv, Drop
  PROVE  IterInv'
<1>1. Typed /\ PlaysOrClosed /\ TimeoutFuses /\ TimeoutIsLast /\ LastEmpties /\ LastIsLast
  BY DEF IterInv
<1>0. PICK mayFail : mayFail = MayFail
  OBVIOUS
<1>2. PICK o \in Close(gst, mayFail) :
        SetGst(o.state) /\ pc' = IF o.res = "ok" THEN "dropped" ELSE "leaked"
  BY <1>0 DEF Drop
<1>3. UNCHANGED <<source, sent, eos, fused, out>>
  BY DEF Drop
<1>4. /\ gst' \in GstState /\ queue' \in [Sink -> Seq(Nat)]
      /\ queue["video"] = <<>> => queue'["video"] = <<>>
      /\ o.res = "ok" => gst' = "Null"
  BY <1>1, <1>2, CloseGst
<1>5. (pc' = "dropped" /\ gst' = "Null") \/ pc' = "leaked"
  BY <1>2, <1>4
<1>6. /\ Returned' = Returned /\ TimeoutIsLast' /\ LastIsLast'
  BY <1>1, <1>3, KeepsItems
<1>7. Stream("video")' = Stream("video")
  BY <1>3 DEF Stream
<1>8. Typed'
  BY <1>1, <1>3, <1>4, <1>5, <1>6 DEF Typed, Final
<1>9. PlaysOrClosed' /\ TimeoutFuses' /\ LastEmpties'
  BY <1>1, <1>3, <1>4, <1>5, <1>6, <1>7
     DEF PlaysOrClosed, ClosedAtEnd, TimeoutFuses, LastEmpties, ErrorItem
<1>10. QED
  BY <1>6, <1>8, <1>9 DEF IterInv

(* A step that changes nothing.                                             *)
LEMMA StutterIterInv == ASSUME IterInv, UNCHANGED vars PROVE IterInv'
<1>1. UNCHANGED <<source, gst, sent, queue, eos, pc, fused, out>>
  BY DEF vars, gstVars, iterVars
<1>2. /\ Returned' = Returned /\ TimeoutIsLast' /\ LastIsLast'
  BY <1>1, KeepsItems DEF IterInv
<1>3. Stream("video")' = Stream("video")
  BY <1>1 DEF Stream
<1>4. QED
  BY <1>1, <1>2, <1>3
     DEF IterInv, Typed, PlaysOrClosed, ClosedAtEnd, TimeoutFuses, LastEmpties, ErrorItem

-----------------------------------------------------------------------------
(* The theorems.                                                            *)

(* wrappers.rs and iter.rs: in every state the pipeline plays or is closed  *)
(* as the iterator needs it.                                                *)
THEOREM IterInvariant == Spec => []IterInv
<1>1. Init => IterInv
  BY InitIterInv
<1>2. IterInv /\ [Next]_vars => IterInv'
  <2> SUFFICES ASSUME IterInv, [Next]_vars PROVE IterInv'
    OBVIOUS
  <2>1. CASE Environment
    BY <2>1, DeliverSampleIterInv, AroundIterInv DEF Environment
  <2>2. CASE Iterate
    BY <2>2, OpenIterInv, PullsIterInv, BusErrorIterInv, YieldIterInv, GiveUpIterInv DEF Iterate
  <2>3. CASE Drop
    BY <2>3, DropIterInv
  <2>4. CASE UNCHANGED vars
    BY <2>4, StutterIterInv
  <2>5. QED
    BY <2>1, <2>2, <2>3, <2>4 DEF Next
<1>3. QED
  BY <1>1, <1>2, PTL DEF Spec

(* wrappers.rs:93-108: an iterator that has ended or was dropped has closed *)
(* its pipeline, after every sequence of failures.                          *)
THEOREM PipelineIsClosed == Spec => []ClosedAtEnd
<1>1. IterInv => ClosedAtEnd
  BY DEF IterInv, PlaysOrClosed
<1>2. QED
  BY <1>1, IterInvariant, PTL

(* iter.rs:91-126 and 205: no frame comes after one that is_last, and       *)
(* nothing after a timeout, whatever the queues hold and GStreamer does.    *)
THEOREM EndIsFinal == Spec => [](LastIsLast /\ TimeoutIsLast)
<1>1. IterInv => LastIsLast /\ TimeoutIsLast
  BY DEF IterInv
<1>2. QED
  BY <1>1, IterInvariant, PTL

-----------------------------------------------------------------------------
(* The frames: what is given.                                               *)

(* What an input is made of.                                                *)
LEMMA SourceFields ==
  ASSUME source \in Sources
  PROVE  /\ source.offset \in Nat
         /\ source.video \in Seq([pts : Nat, dur : Nat])
         /\ Len(source.video) \in Nat /\ DOMAIN source.video = 1..Len(source.video)
         /\ \A n \in DOMAIN source.video :
              /\ source.video[n].pts \in Nat
              /\ source.video[n].pts - source.offset \in Nat
<1>1. IsSource(source)
  BY IterAssumption
<1>2. source.offset \in Nat /\ source.video \in Seq([pts : Nat, dur : Nat])
  BY <1>1 DEF IsSource
<1>3. Len(source.video) \in Nat /\ DOMAIN source.video = 1..Len(source.video)
  BY <1>2
<1>4. ASSUME NEW n \in DOMAIN source.video
      PROVE  source.video[n].pts \in Nat /\ source.video[n].pts - source.offset \in Nat
  <2> DEFINE W == [pts : Nat, dur : Nat]
  <2>0. source.video \in Seq(W)
    BY <1>2
  <2>1. source.video[n] \in W
    <3> HIDE DEF W
    <3>1. QED
      BY <1>3, <2>0
  <2>2. source.video[n].pts \in Nat
    BY <2>1
  <2>3. source.offset <= source.video[n].pts
    <3>1. \A k \in DOMAIN source.video : source.offset <= source.video[k].pts
      BY <1>1, Zenon DEF IsSource
    <3>2. QED
      BY <3>1
  <2>4. QED
    BY <1>2, <2>2, <2>3
<1>5. QED
  BY <1>2, <1>3, <1>4

(* A nonempty set of naturals has a least element, which Min chooses.       *)
LEMMA LeastNumber ==
  ASSUME NEW S \in SUBSET Nat, S # {}
  PROVE  Min(S) \in S /\ \A n \in S : Min(S) <= n
<1>1. PICK m \in S : \A n \in S : ~ (<<n, m>> \in OpToRel(<, Nat))
  BY NatLessThanWellFounded, WFMin
<1>2. \A n \in S : ~ (n < m)
  BY <1>1 DEF OpToRel
<1>3. \A n \in S : m <= n
  BY <1>2
<1>4. QED
  BY <1>3 DEF Min

(* Frames before the first are cut, and in a regular video no others.       *)
LEMMA FirstIsUncut ==
  ASSUME source \in Sources
  PROVE  /\ First \in 1..(Len(source.video) + 1)
         /\ \A n \in DOMAIN source.video :
              /\ n < First => IsCut(source.video[n])
              /\ Regular /\ First <= n => ~ IsCut(source.video[n])
<1> DEFINE L == Len(source.video)
           S == { n \in DOMAIN source.video : ~ IsCut(source.video[n]) } \cup {L + 1}
<1>1. L \in Nat /\ DOMAIN source.video = 1..L
  BY SourceFields
<1>2. First = Min(S)
  BY DEF First
<1>3. S \in SUBSET Nat /\ S # {}
  BY <1>1
<1>4. Min(S) \in S /\ \A n \in S : Min(S) <= n
  BY <1>3, LeastNumber
<1>5. PICK f \in S : f = First /\ \A n \in S : f <= n
  BY <1>2, <1>4
<1>6. f \in 1..(L + 1)
  BY <1>1
<1>7. ASSUME NEW n \in DOMAIN source.video, n < f PROVE IsCut(source.video[n])
  <2>1. n \notin S
    BY <1>1, <1>5, <1>6, <1>7
  <2>2. QED
    BY <2>1
<1>8. ASSUME NEW n \in DOMAIN source.video, Regular, f <= n PROVE ~ IsCut(source.video[n])
  <2>1. CASE n = f
    BY <1>1, <2>1
  <2>2. CASE n # f
    <3>1. n > First
      BY <1>1, <1>5, <1>6, <1>8, <2>2
    <3>2. QED
      BY <1>8, <3>1 DEF Regular
  <2>3. QED
    BY <2>1, <2>2
<1>9. QED
  BY <1>5, <1>6, <1>7, <1>8

-----------------------------------------------------------------------------
(* The frames: the inductive invariant.                                     *)

(* More samples may still be pulled.                                        *)
Active == pc \in {"new", "video", "check", "audio", "yield"} \/ (pc = "idle" /\ ~ fused)

(* How many samples of the video were pulled, how many frames returned, and *)
(* how many are held.                                                       *)
Pulled == sent["video"] - Len(queue["video"])
Count  == Cardinality(FramePlaces)
Held   == IF held = None THEN 0 ELSE 1

(* In the video sink wait, in order, the samples that follow those pulled.  *)
Waits ==
    /\ sent["video"] \in 0..Len(source.video)
    /\ Len(queue["video"]) <= sent["video"]
    /\ \A j \in DOMAIN queue["video"] : queue["video"][j] = Pulled + j

(* The frame at hand is the sample pulled last, and returned are earlier    *)
(* ones.                                                                    *)
HoldsPulled ==
    /\ held # None => /\ held.n = Pulled /\ Pulled \in DOMAIN source.video
                      /\ shift \in Nat /\ held.ts = source.video[held.n].pts - shift
    /\ \A k \in FramePlaces : out[k].n \in 1..(Pulled - Held)

(* In a regular video every sample from the first full one is a frame, and  *)
(* the times are moved by what the first one needs.                         *)
Progress ==
    Regular =>
        IF Pulled < First THEN shift = None /\ Count + Held = 0
        ELSE /\ shift = source.video[First].pts - source.offset
             /\ Count + Held = Pulled - First + 1

Pulling ==
    /\ source \in Sources
    /\ shift = None \/ shift \in Nat
    /\ (held # None) <=> (pc \in {"check", "audio", "yield"})
    /\ idx = Count /\ Count \in Nat
    /\ FramesExact
    /\ Active => Waits /\ HoldsPulled /\ Progress

PullInv == IterInv /\ Pulling

(* It holds at first.                                                       *)
LEMMA InitPullInv == Init => PullInv
<1> SUFFICES ASSUME Init PROVE PullInv
  OBVIOUS
<1>1. IterInv
  BY InitIterInv
<1>2. /\ source \in Sources /\ sent = [k \in Sink |-> 0] /\ queue = [k \in Sink |-> <<>>]
      /\ pc = "new" /\ shift = None /\ idx = 0 /\ held = None /\ out = <<>>
  BY DEF Init, InitPipeline, InitIter
<1>3. FramePlaces = {} /\ Count = 0 /\ Held = 0
  <2>1. FramePlaces = {}
    BY <1>2 DEF FramePlaces
  <2>2. QED
    BY <1>2, <2>1, FS_EmptySet DEF Count, Held
<1>4. sent["video"] = 0 /\ queue["video"] = <<>> /\ Pulled = 0
  <2>1. "video" \in Sink
    BY DEF Sink
  <2>2. sent["video"] = 0 /\ queue["video"] = <<>>
    BY <1>2, <2>1
  <2>3. Len(queue["video"]) = 0
    BY <2>2
  <2>4. sent["video"] - Len(queue["video"]) = 0
    <3>1. PICK n, m : n = sent["video"] /\ m = Len(queue["video"])
      OBVIOUS
    <3>2. n = 0 /\ m = 0
      BY <2>2, <2>3, <3>1
    <3>3. QED
      BY <3>1, <3>2
  <2>5. Pulled = 0
    BY <2>4 DEF Pulled
  <2>6. QED
    BY <2>2, <2>5
<1>5. FramesExact
  BY <1>3 DEF FramesExact
<1>6. Waits
  BY <1>2, <1>4, SourceFields DEF Waits
<1>7. HoldsPulled
  BY <1>2, <1>3 DEF HoldsPulled
<1>8. Progress
  BY <1>2, <1>3, <1>4, FirstIsUncut DEF Progress
<1>9. Pulling
  BY <1>2, <1>3, <1>5, <1>6, <1>7, <1>8 DEF Pulling
<1>10. QED
  BY <1>1, <1>9 DEF PullInv

(* What holds of the frames holds while none is pulled and none returned.   *)
LEMMA KeepsFrames ==
  ASSUME Pulling, UNCHANGED <<source, shift, idx, held, out>>,
         (pc' \in {"check", "audio", "yield"}) <=> (pc \in {"check", "audio", "yield"}),
         Active' => Active /\ Waits' /\ Pulled' = Pulled
  PROVE  Pulling'
<1>1. FramePlaces' = FramePlaces /\ Count' = Count /\ Held' = Held
  BY DEF FramePlaces, Count, Held
<1>2. First' = First /\ Regular' = Regular
  BY DEF First, Regular, IsCut
<1>3. FramesExact'
  BY <1>1, <1>2 DEF Pulling, FramesExact
<1>4. ASSUME Active' PROVE HoldsPulled' /\ Progress'
  <2>1. HoldsPulled /\ Progress /\ Pulled' = Pulled
    BY <1>4 DEF Pulling
  <2>2. HoldsPulled'
    BY <1>1, <2>1 DEF HoldsPulled
  <2>3. Progress'
    BY <1>1, <1>2, <2>1 DEF Progress
  <2>4. QED
    BY <2>2, <2>3
<1>5. QED
  BY <1>1, <1>3, <1>4 DEF Pulling

(* The same, as long as the video sink is not touched while frames are to   *)
(* come.                                                                    *)
LEMMA LeavesVideo ==
  ASSUME Pulling, UNCHANGED <<source, shift, idx, held, out>>,
         (pc' \in {"check", "audio", "yield"}) <=> (pc \in {"check", "audio", "yield"}),
         Active' => /\ Active /\ sent'["video"] = sent["video"]
                    /\ queue'["video"] = queue["video"]
  PROVE  Pulling'
<1>1. ASSUME Active' PROVE Active /\ Waits' /\ Pulled' = Pulled
  <2>1. Pulled' = Pulled /\ Waits
    BY <1>1 DEF Pulled, Pulling
  <2>2. QED
    BY <1>1, <2>1 DEF Waits
<1>2. QED
  BY <1>1, KeepsFrames

(* A sample is delivered: it comes after those that wait.                   *)
LEMMA DeliverSamplePulling ==
  ASSUME PullInv, NEW k \in Sink, DeliverSample(k)
  PROVE  Pulling'
<1>1. Typed /\ Pulling
  BY DEF PullInv, IterInv
<1>2. /\ sent[k] < Len(Stream(k)) /\ sent' = [sent EXCEPT ![k] = @ + 1]
      /\ queue' = [queue EXCEPT ![k] = Append(@, sent[k] + 1)]
      /\ UNCHANGED <<source, pc, fused, shift, idx, held, out>>
  BY DEF DeliverSample, iterVars
<1>3. Active' = Active
  BY <1>2 DEF Active
<1>4. CASE k = "video"
  <2>1. PICK q, s : q = queue["video"] /\ s = sent["video"]
    OBVIOUS
  <2>2. q \in Seq(Nat) /\ s \in Nat
    BY <1>1, <2>1 DEF Typed, Sink
  <2>3. queue'["video"] = Append(q, s + 1) /\ sent'["video"] = s + 1
    BY <1>1, <1>2, <1>4, <2>1 DEF Typed
  <2>4. PICK n \in Nat : n = Len(q) /\ DOMAIN q = 1..n
    BY <2>2
  <2>5. PICK p : p = Append(q, s + 1)
    OBVIOUS
  <2>6. Len(p) = n + 1 /\ DOMAIN p = 1..(n + 1) /\ p[n + 1] = s + 1
        /\ \A j \in 1..n : p[j] = q[j]
    BY <2>2, <2>4, <2>5
  <2>7. queue'["video"] = p
    BY <2>3, <2>5
  <2>8. Pulled' = s - n /\ Pulled = s - n
    <3>1. Pulled' = (s + 1) - (n + 1)
      BY <2>3, <2>6, <2>7 DEF Pulled
    <3>2. Pulled = s - n
      BY <2>1, <2>4 DEF Pulled
    <3>3. QED
      BY <2>2, <2>4, <3>1, <3>2
  <2>9. ASSUME Active' PROVE Waits'
    <3>1. n <= s /\ \A j \in 1..n : q[j] = (s - n) + j
      <4>1. Waits
        BY <1>1, <1>3, <2>9 DEF Pulling
      <4>2. QED
        BY <2>1, <2>4, <2>8, <4>1 DEF Waits
    <3>2. s + 1 \in 0..Len(source.video)
      <4>1. s < Len(source.video)
        BY <1>2, <1>4, <2>1 DEF Stream
      <4>2. Len(source.video) \in Nat
        BY <1>1, SourceFields DEF Pulling
      <4>3. QED
        BY <2>2, <4>1, <4>2
    <3>3. \A j \in 1..(n + 1) : p[j] = (s - n) + j
      <4>1. \A j \in 1..(n + 1) : j \in 1..n \/ j = n + 1
        BY <2>4
      <4>2. (s - n) + (n + 1) = s + 1
        BY <2>2, <2>4
      <4>3. QED
        BY <2>6, <3>1, <4>1, <4>2
    <3>4. Len(p) <= s + 1
      BY <2>2, <2>4, <2>6, <3>1
    <3>5. QED
      BY <1>2, <2>3, <2>6, <2>7, <2>8, <3>2, <3>3, <3>4 DEF Waits
  <2>10. Pulled' = Pulled
    BY <2>8
  <2>11. QED
    BY <1>1, <1>2, <1>3, <2>9, <2>10, KeepsFrames
<1>5. CASE k # "video"
  <2>1. sent'["video"] = sent["video"] /\ queue'["video"] = queue["video"]
    BY <1>1, <1>2, <1>5 DEF Typed, Sink
  <2>2. QED
    BY <1>1, <1>2, <1>3, <2>1, LeavesVideo
<1>6. QED
  BY <1>4, <1>5

(* A step that leaves the frames alone.                                     *)
LEMMA AroundPulling ==
  ASSUME PullInv,
         \/ (\E k \in Sink : DeliverEos(k)) \/ (\E isError \in BOOLEAN : PostMessage(isError))
         \/ PadAdded \/ NextFused \/ NextBegin \/ CheckAudio \/ PullAudio \/ UNCHANGED vars
  PROVE  Pulling'
<1>1. Typed /\ Pulling
  BY DEF PullInv, IterInv
<1>2. UNCHANGED <<source, sent, fused, shift, idx, held, out>>
  BY DEF DeliverEos, PostMessage, PadAdded, NextFused, NextBegin, CheckAudio, PullAudio,
         vars, gstVars, iterVars
<1>3. \/ pc' = pc
      \/ pc = "new" /\ pc' = "aborted"
      \/ pc = "idle" /\ fused /\ pc' = "ended"
      \/ pc = "idle" /\ ~ fused /\ pc' = "video"
      \/ pc = "check" /\ pc' \in {"yield", "audio"}
  BY DEF DeliverEos, PostMessage, PadAdded, NextFused, NextBegin, CheckAudio, PullAudio,
         vars, gstVars, iterVars
<1>4. queue'["video"] = queue["video"]
  <2>1. CASE UNCHANGED queue
    BY <2>1
  <2>2. CASE queue' = [queue EXCEPT !["audio"] = Tail(@)]
    BY <1>1, <2>2 DEF Typed, Sink
  <2>3. QED
    BY <2>1, <2>2 DEF DeliverEos, PostMessage, PadAdded, NextFused, NextBegin, CheckAudio,
                      PullAudio, vars, gstVars, iterVars
<1>5. (pc' \in {"check", "audio", "yield"}) <=> (pc \in {"check", "audio", "yield"})
  BY <1>3
<1>6. Active' => Active
  BY <1>2, <1>3 DEF Active
<1>7. QED
  BY <1>1, <1>2, <1>4, <1>5, <1>6, LeavesVideo

(* The pipeline is opened or dropped.                                       *)
LEMMA OpenDropPulling ==
  ASSUME PullInv, OpenPipeline \/ Drop
  PROVE  Pulling'
<1>1. Typed /\ Pulling
  BY DEF PullInv, IterInv
<1>2. UNCHANGED <<source, sent, fused, shift, idx, held, out>>
  BY DEF OpenPipeline, Drop
<1>3. /\ (pc' \in {"check", "audio", "yield"}) <=> (pc \in {"check", "audio", "yield"})
      /\ Active' => Active /\ queue'["video"] = queue["video"]
  <2>1. CASE Drop
    <3>1. pc \in Droppable /\ pc' \in {"dropped", "leaked"}
      BY <2>1 DEF Drop
    <3>2. QED
      BY <3>1 DEF Active, Droppable
  <2>2. CASE OpenPipeline
    <3>1. PICK o \in Open(source.offset, MayFail) :
            /\ SetGst(o.state)
            /\ pc' = CASE o.res = "ok" -> "idle" [] o.res = "error" -> "failed"
                       [] o.res = "panic" -> "panicked"
      BY <2>2 DEF OpenPipeline
    <3>2. o \in Outcome /\ (o.res = "ok" => o.state = "Playing")
      <4>1. PICK offset, mayFail : offset = source.offset /\ mayFail = MayFail
        OBVIOUS
      <4>2. o \in Open(offset, mayFail)
        BY <3>1, <4>1
      <4>3. QED
        BY <4>2, OpenPlays
    <3>3. (o.res = "ok" /\ pc' = "idle") \/ pc' \in {"failed", "panicked"}
      BY <3>1, <3>2 DEF Outcome
    <3>4. o.res = "ok" => queue' = queue
      BY <3>1, <3>2 DEF SetGst
    <3>5. pc = "new"
      BY <2>2 DEF OpenPipeline
    <3>6. QED
      BY <3>3, <3>4, <3>5 DEF Active
  <2>3. QED
    BY <2>1, <2>2
<1>4. QED
  BY <1>1, <1>2, <1>3, LeavesVideo

(* Frames stay exact while the items that are frames stay the same.         *)
LEMMA KeepsExact ==
  ASSUME FramesExact, UNCHANGED source, FramePlaces' = FramePlaces,
         \A k \in FramePlaces : out'[k] = out[k]
  PROVE  FramesExact' /\ Count' = Count
<1>1. First' = First /\ Regular' = Regular
  BY DEF First, Regular, IsCut
<1>2. QED
  BY <1>1 DEF FramesExact, Count

(* An error that is returned is no frame.                                   *)
LEMMA ErrorIsNoFrame ==
  ASSUME out \in Seq(Returned), NEW x, x.kind = "error", out' = Append(out, x)
  PROVE  FramePlaces' = FramePlaces /\ \A k \in FramePlaces : out'[k] = out[k]
<1>1. PICK R : R = Returned
  OBVIOUS
<1>2. PICK n \in Nat : n = Len(out) /\ DOMAIN out = 1..n
  BY <1>1
<1>3. /\ DOMAIN out' = 1..(n + 1) /\ out'[n + 1] = x
      /\ \A k \in 1..n : out'[k] = out[k]
  <2> DEFINE S == R \cup {x}
  <2>1. out \in Seq(S) /\ x \in S
    BY <1>1, SeqMonotonic
  <2> HIDE DEF S
  <2>2. QED
    BY <1>2, <2>1
<1>4. \A k \in 1..(n + 1) : k \in 1..n \/ k = n + 1
  BY <1>2
<1>5. QED
  BY <1>2, <1>3, <1>4 DEF FramePlaces

(* An error on the bus is returned.                                         *)
LEMMA BusErrorPulling ==
  ASSUME PullInv, NextBusError
  PROVE  Pulling'
<1>1. Typed /\ Pulling
  BY DEF PullInv, IterInv
<1>2. /\ UNCHANGED <<source, sent, queue, pc, fused, shift, idx, held>>
      /\ out' = Append(out, ErrorItem("bus"))
  BY DEF NextBusError
<1>3. FramePlaces' = FramePlaces /\ \A k \in FramePlaces : out'[k] = out[k]
  <2>1. PICK x : x = ErrorItem("bus")
    OBVIOUS
  <2>2. x.kind = "error"
    BY <2>1 DEF ErrorItem
  <2>3. QED
    BY <1>1, <1>2, <2>1, <2>2, ErrorIsNoFrame DEF Typed
<1>4. FramesExact' /\ Count' = Count
  BY <1>1, <1>2, <1>3, KeepsExact DEF Pulling
<1>5. First' = First /\ Regular' = Regular
  BY <1>2 DEF First, Regular, IsCut
<1>6. ASSUME Active' PROVE Waits' /\ HoldsPulled' /\ Progress'
  <2>1. Active /\ Pulled' = Pulled /\ Held' = Held
    BY <1>2, <1>6 DEF Active, Pulled, Held
  <2>2. Waits /\ HoldsPulled /\ Progress
    BY <1>1, <2>1 DEF Pulling
  <2>3. Waits'
    BY <1>2, <2>1, <2>2 DEF Waits
  <2>4. HoldsPulled'
    BY <1>2, <1>3, <2>1, <2>2 DEF HoldsPulled
  <2>5. Progress'
    BY <1>2, <1>4, <1>5, <2>1, <2>2 DEF Progress
  <2>6. QED
    BY <2>3, <2>4, <2>5
<1>7. QED
  BY <1>1, <1>2, <1>4, <1>6 DEF Pulling

(* The iterator gives up: no frame is at hand any more, and none will come. *)
LEMMA GiveUpPulling ==
  ASSUME PullInv, NEW k \in Sink, GiveUp(k)
  PROVE  Pulling'
<1>1. Typed /\ Pulling
  BY DEF PullInv, IterInv
<1>2. /\ UNCHANGED <<source, shift, idx>> /\ fused' /\ held' = None
      /\ pc' \in {"panicked", "idle", "ended"}
      /\ out' = IF EndError(k) = "none" THEN out ELSE Append(out, ErrorItem(EndError(k)))
  BY DEF GiveUp
<1>3. FramePlaces' = FramePlaces /\ \A i \in FramePlaces : out'[i] = out[i]
  <2>1. CASE EndError(k) = "none"
    BY <1>2, <2>1 DEF FramePlaces
  <2>2. CASE EndError(k) # "none"
    <3>1. PICK x : x = ErrorItem(EndError(k))
      OBVIOUS
    <3>2. x.kind = "error" /\ out' = Append(out, x)
      BY <1>2, <2>2, <3>1 DEF ErrorItem
    <3>3. QED
      BY <1>1, <3>2, ErrorIsNoFrame DEF Typed
  <2>3. QED
    BY <2>1, <2>2
<1>4. FramesExact' /\ Count' = Count
  BY <1>1, <1>2, <1>3, KeepsExact DEF Pulling
<1>5. ~ Active'
  BY <1>2 DEF Active
<1>6. QED
  BY <1>1, <1>2, <1>4, <1>5 DEF Pulling

(* The sample pulled next is the one after the last, and the others go on   *)
(* waiting.                                                                 *)
LEMMA NextWaits ==
  ASSUME Typed, source \in Sources, Waits, queue["video"] # <<>>,
         queue' = [queue EXCEPT !["video"] = Tail(@)], UNCHANGED <<source, sent>>
  PROVE  /\ Pulled \in Nat /\ Pulled + 1 \in DOMAIN source.video
         /\ Head(queue["video"]) = Pulled + 1
         /\ Pulled' = Pulled + 1 /\ Waits'
<1>1. PICK q, s : q = queue["video"] /\ s = sent["video"]
  OBVIOUS
<1>2. q \in Seq(Nat) /\ s \in Nat /\ q # <<>>
  BY <1>1 DEF Typed, Sink
<1>3. PICK m \in Nat : m = Len(q) /\ DOMAIN q = 1..m
  BY <1>2
<1>4. m # 0 /\ Head(q) = q[1]
  BY <1>2, <1>3
<1>5. PICK r : r = Tail(q)
  OBVIOUS
<1>6. Len(r) = m - 1 /\ DOMAIN r = 1..(m - 1) /\ \A j \in 1..(m - 1) : r[j] = q[j + 1]
  BY <1>2, <1>3, <1>4, <1>5
<1>7. queue'["video"] = r /\ sent'["video"] = s
  BY <1>1, <1>5 DEF Typed, Sink
<1>8. PICK p \in Int : p = s - m
  BY <1>2
<1>9. Pulled = p
  BY <1>1, <1>3, <1>8 DEF Pulled
<1>10. Pulled' = p + 1
  <2>1. Pulled' = s - (m - 1)
    BY <1>6, <1>7 DEF Pulled
  <2>2. QED
    BY <1>2, <1>8, <2>1
<1>11. m <= s /\ s \in 0..Len(source.video) /\ \A j \in 1..m : q[j] = p + j
  BY <1>1, <1>3, <1>9 DEF Waits
<1>12. p \in Nat /\ q[1] = p + 1
  BY <1>2, <1>4, <1>8, <1>11
<1>13. Len(source.video) \in Nat /\ DOMAIN source.video = 1..Len(source.video)
  BY SourceFields
<1>14. p + 1 \in DOMAIN source.video
  BY <1>2, <1>4, <1>8, <1>11, <1>12, <1>13
<1>15. \A j \in 1..(m - 1) : r[j] = (p + 1) + j
  <2> SUFFICES ASSUME NEW j \in 1..(m - 1) PROVE r[j] = (p + 1) + j
    OBVIOUS
  <2>1. j + 1 \in 1..m /\ p + (j + 1) = (p + 1) + j
    BY <1>4, <1>12
  <2>2. QED
    BY <1>6, <1>11, <2>1
<1>16. m - 1 <= s
  BY <1>2, <1>11
<1>17. Waits'
  BY <1>6, <1>7, <1>10, <1>11, <1>15, <1>16 DEF Waits
<1>18. QED
  BY <1>1, <1>4, <1>9, <1>10, <1>12, <1>14, <1>17

(* A sample of the video is pulled: those before the first full one are     *)
(* skipped, and the first sets by how much all are moved.                   *)
LEMMA PullVideoPulling ==
  ASSUME PullInv, PullVideo
  PROVE  Pulling'
<1>1. Typed /\ Pulling
  BY DEF PullInv, IterInv
<1>2. /\ pc = "video" /\ queue["video"] # <<>>
      /\ queue' = [queue EXCEPT !["video"] = Tail(@)]
      /\ UNCHANGED <<source, sent, fused, idx, out>>
  BY DEF PullVideo
<1>3. Waits /\ HoldsPulled /\ Progress /\ held = None /\ Held = 0
  BY <1>1, <1>2 DEF Pulling, Active, Held
<1>4. PICK p, n, f, c : p = Pulled /\ n = p + 1 /\ f = First /\ c = Count
  OBVIOUS
<1>5. /\ p \in Nat /\ n \in DOMAIN source.video /\ Head(queue["video"]) = n
      /\ Pulled' = n /\ Waits'
  BY <1>1, <1>2, <1>3, <1>4, NextWaits DEF Pulling
<1>6. /\ f \in Nat /\ c \in Nat /\ n \in Nat
      /\ n < f => IsCut(source.video[n])
      /\ Regular /\ f <= n => ~ IsCut(source.video[n])
  <2>1. source \in Sources /\ c \in Nat
    BY <1>1, <1>4 DEF Pulling
  <2>2. Len(source.video) \in Nat
    BY <2>1, SourceFields
  <2>3. QED
    BY <1>4, <1>5, <2>1, <2>2, FirstIsUncut
<1>7. First' = f /\ Regular' = Regular
  BY <1>2, <1>4 DEF First, Regular, IsCut
<1>8. FramePlaces' = FramePlaces
  BY <1>2 DEF FramePlaces
<1>9. FramesExact' /\ Count' = c
  BY <1>1, <1>2, <1>4, <1>8, KeepsExact DEF Pulling
<1>10. \A k \in FramePlaces : out[k].n \in 1..p
  BY <1>3, <1>4, <1>5 DEF HoldsPulled
<1>11. Regular => IF p < f THEN shift = None /\ c = 0
                  ELSE shift = source.video[f].pts - source.offset /\ c = p - f + 1
  BY <1>3, <1>4, <1>6 DEF Progress
<1>12. CASE IsCut(source.video[n])
  <2>1. shift' = None /\ pc' = "idle" /\ held' = None
    BY <1>2, <1>3, <1>5, <1>12 DEF PullVideo
  <2>2. Held' = 0
    BY <2>1 DEF Held
  <2>3. HoldsPulled'
    <3>1. \A k \in FramePlaces : out[k].n \in 1..(n - 0)
      BY <1>4, <1>5, <1>10
    <3>2. QED
      BY <1>2, <1>5, <1>8, <2>1, <2>2, <3>1 DEF HoldsPulled
  <2>4. Progress'
    <3>1. Regular => n < f /\ c = 0
      BY <1>4, <1>5, <1>6, <1>11, <1>12
    <3>2. QED
      BY <1>5, <1>7, <1>9, <2>1, <2>2, <3>1 DEF Progress
  <2>5. QED
    BY <1>1, <1>2, <1>4, <1>5, <1>9, <2>1, <2>3, <2>4 DEF Pulling
<1>13. CASE ~ IsCut(source.video[n])
  <2>1. PICK d \in Nat : d = source.video[n].pts - source.offset
    BY <1>1, <1>5, SourceFields DEF Pulling
  <2>2. PICK by \in Nat : by = shift' /\ by = IF shift = None THEN d ELSE shift
    <3>1. shift' = IF shift = None THEN d ELSE shift
      BY <1>5, <1>13, <2>1 DEF PullVideo, ShiftFor
    <3>2. shift' \in Nat
      BY <1>1, <3>1 DEF Pulling
    <3>3. QED
      BY <3>1, <3>2
  <2>3. pc' = "check" /\ held' = NewFrame(n, shift')
    BY <1>5, <1>13 DEF PullVideo
  <2>4. PICK ts \in Int : ts = source.video[n].pts - by
    <3>1. source.video[n].pts \in Nat
      BY <1>1, <1>5, SourceFields DEF Pulling
    <3>2. QED
      BY <2>2, <3>1
  <2>5. held' = [n |-> n, ts |-> ts]
    BY <1>2, <2>2, <2>3, <2>4 DEF NewFrame
  <2>6. held' # None /\ held'.n = n /\ held'.ts = ts
    <3>1. held' \in [n : Nat, ts : Int]
      BY <1>6, <2>5
    <3>2. QED
      BY <2>5, <3>1, IterAssumption
  <2>7. Held' = 1
    BY <2>6 DEF Held
  <2>8. HoldsPulled'
    <3>1. \A k \in FramePlaces : out[k].n \in 1..(n - 1)
      <4>1. n - 1 = p
        BY <1>4, <1>5
      <4>2. QED
        BY <1>10, <4>1
    <3>2. QED
      BY <1>2, <1>5, <1>8, <2>2, <2>4, <2>6, <2>7, <3>1 DEF HoldsPulled
  <2>9. Progress'
    <3>1. ASSUME Regular
          PROVE  f <= n /\ by = source.video[f].pts - source.offset /\ c + 1 = n - f + 1
      <4>1. f <= n
        BY <1>6, <1>13, <3>1
      <4>2. CASE p < f
        <5>1. n = f /\ shift = None /\ c = 0
          BY <1>4, <1>5, <1>6, <1>11, <3>1, <4>1, <4>2
        <5>2. QED
          BY <1>6, <2>1, <2>2, <5>1
      <4>3. CASE ~ (p < f)
        <5>1. shift = source.video[f].pts - source.offset /\ c = p - f + 1
          BY <1>11, <3>1, <4>3
        <5>2. p \in DOMAIN source.video /\ f \in DOMAIN source.video
          <6>1. DOMAIN source.video = 1..Len(source.video) /\ f \in 1..(Len(source.video) + 1)
                /\ Len(source.video) \in Nat
            BY <1>1, <1>4, FirstIsUncut, SourceFields DEF Pulling
          <6>2. QED
            BY <1>4, <1>5, <4>3, <6>1
        <5>3. shift \in Nat
          BY <1>1, <5>1, <5>2, SourceFields DEF Pulling
        <5>4. by = shift
          BY <2>2, <5>3, AudioAssumption
        <5>5. c + 1 = n - f + 1
          BY <1>4, <1>5, <1>6, <5>1
        <5>6. QED
          BY <4>1, <5>1, <5>4, <5>5
      <4>4. QED
        BY <4>2, <4>3
    <3>2. Regular => ~ (n < f)
      BY <1>6, <3>1
    <3>3. QED
      BY <1>2, <1>5, <1>7, <1>9, <2>2, <2>7, <3>1, <3>2 DEF Progress
  <2>10. QED
    BY <1>1, <1>2, <1>4, <1>5, <1>9, <2>2, <2>3, <2>6, <2>8, <2>9 DEF Pulling
<1>14. QED
  BY <1>12, <1>13

(* A frame that is returned comes after all others.                         *)
LEMMA ReturnsFrame ==
  ASSUME out \in Seq(Returned), NEW x, x.kind = "frame", out' = Append(out, x)
  PROVE  \E K \in Nat :
           /\ FramePlaces' = FramePlaces \cup {K} /\ out'[K] = x
           /\ FramePlaces \in SUBSET Nat /\ IsFiniteSet(FramePlaces)
           /\ \A k \in FramePlaces : k < K /\ out'[k] = out[k]
<1>1. PICK R : R = Returned
  OBVIOUS
<1>2. PICK n \in Nat : n = Len(out) /\ DOMAIN out = 1..n
  BY <1>1
<1>3. /\ DOMAIN out' = 1..(n + 1) /\ out'[n + 1] = x
      /\ \A k \in 1..n : out'[k] = out[k]
  <2> DEFINE S == R \cup {x}
  <2>1. out \in Seq(S) /\ x \in S
    BY <1>1, SeqMonotonic
  <2> HIDE DEF S
  <2>2. QED
    BY <1>2, <2>1
<1>4. \A k \in 1..(n + 1) : k \in 1..n \/ k = n + 1
  BY <1>2
<1>5. FramePlaces \subseteq 1..n
  BY <1>2 DEF FramePlaces
<1>6. IsFiniteSet(FramePlaces)
  <2>1. IsFiniteSet(1..n)
    BY <1>2, FS_Interval
  <2>2. QED
    BY <1>5, <2>1, FS_Subset
<1>7. FramePlaces' = FramePlaces \cup {n + 1}
  <2>1. n + 1 \in 1..(n + 1) /\ \A k \in 1..n : k \in 1..(n + 1)
    BY <1>2
  <2>2. QED
    BY <1>2, <1>3, <1>4, <2>1 DEF FramePlaces
<1>8. \A k \in 1..n : k \in Nat /\ k < n + 1
  BY <1>2
<1>9. n + 1 \in Nat
  BY <1>2
<1>10. QED
  BY <1>3, <1>5, <1>6, <1>7, <1>8, <1>9

(* The frame at hand is returned: it is the next of the video, with the     *)
(* next index, and its time is the video's.                                 *)
LEMMA YieldPulling ==
  ASSUME PullInv, Yield
  PROVE  Pulling'
<1>1. Typed /\ Pulling
  BY DEF PullInv, IterInv
<1>2. /\ UNCHANGED <<source, sent, queue, fused, shift>> /\ held' = None
      /\ pc \in {"yield", "audio"} /\ pc' \in {"panicked", "idle"}
  BY DEF Yield, gstVars
<1>3. Waits /\ HoldsPulled /\ Progress /\ held # None /\ Held = 1
  BY <1>1, <1>2 DEF Pulling, Active, Held
<1>4. First' = First /\ Regular' = Regular
  BY <1>2 DEF First, Regular, IsCut
<1>5. CASE pc' = "panicked" /\ UNCHANGED <<idx, out>>
  <2>1. FramePlaces' = FramePlaces
    BY <1>5 DEF FramePlaces
  <2>2. FramesExact' /\ Count' = Count
    BY <1>1, <1>2, <1>5, <2>1, KeepsExact DEF Pulling
  <2>3. ~ Active'
    BY <1>5 DEF Active
  <2>4. QED
    BY <1>1, <1>2, <1>5, <2>2, <2>3 DEF Pulling
<1>6. CASE /\ pc' = "idle" /\ idx' = idx + 1
           /\ \E x : /\ out' = Append(out, x) /\ x.kind = "frame"
                     /\ x.n = held.n /\ x.idx = idx /\ x.ts = held.ts
  <2>1. PICK x : /\ out' = Append(out, x) /\ x.kind = "frame"
                 /\ x.n = held.n /\ x.idx = idx /\ x.ts = held.ts
    BY <1>6
  <2>2. PICK K \in Nat :
           /\ FramePlaces' = FramePlaces \cup {K} /\ out'[K] = x
           /\ FramePlaces \in SUBSET Nat /\ IsFiniteSet(FramePlaces)
           /\ \A k \in FramePlaces : k < K /\ out'[k] = out[k]
    BY <1>1, <2>1, ReturnsFrame DEF Typed
  <2>3. PICK p, f, c : p = Pulled /\ f = First /\ c = Count
    OBVIOUS
  <2>4. /\ p \in DOMAIN source.video /\ x.n = p /\ x.idx = c
        /\ shift \in Nat /\ x.ts = source.video[p].pts - shift
        /\ \A k \in FramePlaces : out[k].n \in 1..(p - 1)
    BY <1>1, <1>3, <2>1, <2>3 DEF HoldsPulled, Pulling
  <2>5. /\ DOMAIN source.video = 1..Len(source.video) /\ Len(source.video) \in Nat
        /\ f \in 1..(Len(source.video) + 1) /\ c \in Nat /\ idx = c /\ source \in Sources
    BY <1>1, <2>3, SourceFields, FirstIsUncut DEF Pulling
  <2>6. p \in Nat /\ 1 <= p /\ f \in Nat
    BY <2>4, <2>5
  <2>7. Regular => /\ f <= p /\ shift = source.video[f].pts - source.offset
                   /\ c + 1 = p - f + 1
    <3>1. Regular => IF p < f THEN c + 1 = 0
                     ELSE shift = source.video[f].pts - source.offset /\ c + 1 = p - f + 1
      BY <1>3, <2>3 DEF Progress
    <3>2. c + 1 # 0 /\ (~ (p < f) => f <= p)
      BY <2>5, <2>6
    <3>3. QED
      BY <3>1, <3>2
  <2>8. Count' = c + 1
    <3>1. K \notin FramePlaces
      BY <2>2
    <3>2. Cardinality(FramePlaces \cup {K}) = Cardinality(FramePlaces) + 1
      BY <2>2, <3>1, FS_AddElement
    <3>3. QED
      BY <2>2, <2>3, <3>2 DEF Count
  <2>9. Held' = 0 /\ Pulled' = p
    BY <1>2, <2>3 DEF Held, Pulled
  <2>10. FramesExact'
    <3>1. ASSUME NEW j \in FramePlaces', NEW k \in FramePlaces', j < k
          PROVE  out'[j].n < out'[k].n
      <4>1. j \in FramePlaces
        BY <2>2, <3>1
      <4>2. CASE k \in FramePlaces
        BY <1>1, <2>2, <3>1, <4>1, <4>2 DEF Pulling, FramesExact
      <4>3. CASE k = K
        <5>1. out'[k].n = p /\ out'[j] = out[j]
          BY <2>2, <2>4, <4>1, <4>3
        <5>2. out[j].n \in 1..(p - 1)
          BY <2>4, <4>1
        <5>3. out[j].n < p
          BY <2>6, <5>2
        <5>4. QED
          BY <5>1, <5>3
      <4>4. QED
        BY <2>2, <4>2, <4>3
    <3>2. ASSUME Regular, NEW k \in FramePlaces'
          PROVE  LET before == Cardinality({ j \in FramePlaces' : j < k })
                 IN  /\ out'[k].n = f + before /\ out'[k].idx = before
                     /\ out'[k].ts = source.offset + source.video[out'[k].n].pts
                                     - source.video[f].pts
      <4>1. CASE k \in FramePlaces
        <5>1. { j \in FramePlaces' : j < k } = { j \in FramePlaces : j < k }
          BY <2>2, <4>1
        <5>2. out'[k] = out[k]
          BY <2>2, <4>1
        <5>3. QED
          BY <1>1, <2>3, <3>2, <4>1, <5>1, <5>2 DEF Pulling, FramesExact
      <4>2. CASE k = K
        <5>0. ~ (K < K)
          BY <2>2
        <5>1. { j \in FramePlaces' : j < k } = FramePlaces
          <6>1. PICK S : S = FramePlaces
            OBVIOUS
          <6>2. FramePlaces' = S \cup {K} /\ \A j \in S : j < K
            BY <2>2, <6>1
          <6>3. { j \in S \cup {K} : j < K } = S
            BY <5>0, <6>2
          <6>4. QED
            BY <4>2, <6>1, <6>2, <6>3
        <5>2. Cardinality({ j \in FramePlaces' : j < k }) = c
          BY <2>3, <5>1 DEF Count
        <5>3. out'[k].n = p /\ out'[k].idx = c /\ out'[k].ts = source.video[p].pts - shift
          BY <2>2, <2>4, <4>2
        <5>4. p = f + c
          BY <2>5, <2>6, <2>7, <3>2
        <5>5. f \in DOMAIN source.video
          BY <2>4, <2>5, <2>6, <2>7, <3>2
        <5>6. source.video[p].pts - shift
                = source.offset + source.video[p].pts - source.video[f].pts
          <6>1. PICK o \in Nat, v \in Nat, w \in Nat :
                  o = source.offset /\ v = source.video[p].pts /\ w = source.video[f].pts
            BY <2>4, <2>5, <5>5, SourceFields
          <6>2. shift = w - o
            BY <2>7, <3>2, <6>1
          <6>3. v - shift = o + v - w
            BY <6>2
          <6>4. QED
            BY <6>1, <6>3
        <5>7. QED
          BY <5>2, <5>3, <5>4, <5>6
      <4>3. QED
        BY <2>2, <4>1, <4>2
    <3>3. QED
      BY <1>2, <1>4, <2>3, <3>1, <3>2 DEF FramesExact
  <2>11. HoldsPulled'
    <3>1. ASSUME NEW k \in FramePlaces' PROVE out'[k].n \in 1..(p - 0)
      <4>1. CASE k \in FramePlaces
        BY <2>2, <2>4, <2>6, <4>1
      <4>2. CASE k = K
        BY <2>2, <2>4, <2>6, <4>2
      <4>3. QED
        BY <2>2, <4>1, <4>2
    <3>2. QED
      BY <1>2, <2>9, <3>1 DEF HoldsPulled
  <2>12. Progress'
    <3>1. Regular => ~ (p < f)
      BY <2>6, <2>7
    <3>2. Count' + Held' = c + 1
      BY <2>5, <2>8, <2>9
    <3>3. QED
      BY <1>2, <1>4, <2>3, <2>7, <2>9, <3>1, <3>2 DEF Progress
  <2>13. Waits'
    BY <1>2, <1>3, <2>3, <2>9 DEF Waits
  <2>14. idx' = Count' /\ Count' \in Nat
    BY <1>6, <2>5, <2>8
  <2>15. QED
    BY <1>1, <1>2, <1>6, <2>10, <2>11, <2>12, <2>13, <2>14 DEF Pulling
<1>7. QED
  BY <1>5, <1>6 DEF Yield, FrameItem

(* iter.rs:91-183: what waits in the sink, the frame at hand and the frames *)
(* returned are together the video up to the sample delivered last.         *)
THEOREM PullInvariant == Spec => []PullInv
<1>1. Init => PullInv
  BY InitPullInv
<1>2. PullInv /\ [Next]_vars => Pulling'
  <2> SUFFICES ASSUME PullInv, [Next]_vars PROVE Pulling'
    OBVIOUS
  <2>1. CASE Environment
    BY <2>1, DeliverSamplePulling, AroundPulling DEF Environment
  <2>2. CASE Iterate
    BY <2>2, OpenDropPulling, AroundPulling, BusErrorPulling, PullVideoPulling, YieldPulling,
       GiveUpPulling DEF Iterate
  <2>3. CASE Drop
    BY <2>3, OpenDropPulling
  <2>4. CASE UNCHANGED vars
    BY <2>4, AroundPulling
  <2>5. QED
    BY <2>1, <2>2, <2>3, <2>4 DEF Next
<1>3. IterInv /\ Pulling <=> PullInv
  BY DEF PullInv
<1>4. QED
  BY <1>1, <1>2, <1>3, IterInvariant, PTL DEF Spec

(* iter.rs:158-183: no frame is lost, doubled or swapped, whatever the      *)
(* video, the sizes of the queues and the order in which GStreamer acts.    *)
THEOREM FramesAreExact == Spec => []FramesExact
<1>1. PullInv => FramesExact
  BY DEF PullInv, Pulling
<1>2. QED
  BY <1>1, PullInvariant, PTL

-----------------------------------------------------------------------------
(* The types of the variables.                                              *)

(* Where no change may fail, all succeed.                                   *)
LEMMA AllSucceed ==
  ASSUME NEW mayFail, ~ mayFail
  PROVE  \A from, offset :
           \A o \in Close(from, mayFail) \cup Open(offset, mayFail) : o.res = "ok"
<1>1. ASSUME NEW from, NEW target, NEW o \in SetStateBlocking(from, target, mayFail)
      PROVE  o.res = "ok"
  BY <1>1 DEF SetStateBlocking, Outcomes
<1>2. ASSUME NEW outcomes, \A p \in outcomes : p.res = "ok",
             NEW target, NEW o \in AndThen(outcomes, target, mayFail)
      PROVE  o.res = "ok"
  <2>1. PICK p \in outcomes :
          o \in (IF p.res = "ok" THEN SetStateBlocking(p.state, target, mayFail) ELSE {p})
    BY <1>2 DEF AndThen
  <2>2. QED
    BY <1>1, <1>2, <2>1
<1>3. ASSUME NEW from, NEW o \in Close(from, mayFail) PROVE o.res = "ok"
  <2>1. CASE from = "Null"
    BY <1>3, <2>1 DEF Close, Outcomes
  <2>2. CASE from = "Playing"
    <3> DEFINE paused == SetStateBlocking(from, "Paused", mayFail)
               ready == AndThen(paused, "Ready", mayFail)
    <3>1. \A p \in paused : p.res = "ok"
      BY <1>1
    <3> HIDE DEF paused
    <3>2. \A p \in ready : p.res = "ok"
      BY <1>2, <3>1
    <3> HIDE DEF ready
    <3>3. o \in AndThen(ready, "Null", mayFail)
      BY <1>3, <2>2 DEF Close, ready, paused
    <3>4. QED
      BY <1>2, <3>2, <3>3
  <2>3. CASE from \notin {"Null", "Playing"}
    <3>1. o \in SetStateBlocking(from, "Null", mayFail)
      BY <1>3, <2>3 DEF Close
    <3>2. QED
      BY <1>1, <3>1
  <2>4. QED
    BY <2>1, <2>2, <2>3
<1>4. ASSUME NEW offset, NEW o \in Open(offset, mayFail) PROVE o.res = "ok"
  <2> DEFINE paused == SetStateBlocking("Null", "Paused", mayFail)
             sought == UNION { IF p.res = "ok" /\ offset > 0
                               THEN SeekAccurate(p.state, mayFail) ELSE {p} : p \in paused }
  <2>1. \A p \in paused : p.res = "ok"
    BY <1>1
  <2> HIDE DEF paused
  <2>2. ASSUME NEW q \in sought PROVE q.res = "ok"
    <3>1. PICK p \in paused :
            q \in (IF p.res = "ok" /\ offset > 0 THEN SeekAccurate(p.state, mayFail) ELSE {p})
      BY <2>2
    <3>2. QED
      BY <2>1, <3>1 DEF SeekAccurate, Outcomes
  <2> HIDE DEF sought
  <2>3. o \in AndThen(sought, "Playing", mayFail)
    BY <1>4 DEF Open, sought, paused
  <2>4. QED
    BY <1>2, <2>2, <2>3
<1>5. QED
  BY <1>3, <1>4

(* A suffix, position by position.                                          *)
LEMMA SuffixElements ==
  ASSUME NEW S, NEW s \in Seq(S), NEW t \in Seq(S)
  PROVE  IsSuffix(s, t) <=> /\ Len(s) <= Len(t)
                            /\ \A i \in 1..Len(s) : s[i] = t[Len(t) - Len(s) + i]
<1>1. PICK m \in Nat, n \in Nat : /\ m = Len(s) /\ n = Len(t)
                                /\ DOMAIN s = 1..m /\ DOMAIN t = 1..n
  OBVIOUS
<1>2. PICK a : a = [i \in 1..m |-> s[(m - i) + 1]]
  OBVIOUS
<1>3. PICK b : b = [i \in 1..n |-> t[(n - i) + 1]]
  OBVIOUS
<1>4. a = Reverse(s) /\ b = Reverse(t)
  BY <1>1, <1>2, <1>3 DEF Reverse
<1>5. a \in Seq(S) /\ Len(a) = m /\ b \in Seq(S) /\ Len(b) = n
  <2>1. \A i \in 1..m : s[(m - i) + 1] \in S
    <3> SUFFICES ASSUME NEW i \in 1..m PROVE s[(m - i) + 1] \in S
      OBVIOUS
    <3>1. (m - i) + 1 \in 1..m
      OBVIOUS
    <3>2. QED
      BY <1>1, <3>1
  <2>2. \A i \in 1..n : t[(n - i) + 1] \in S
    <3> SUFFICES ASSUME NEW i \in 1..n PROVE t[(n - i) + 1] \in S
      OBVIOUS
    <3>1. (n - i) + 1 \in 1..n
      OBVIOUS
    <3>2. QED
      BY <1>1, <3>1
  <2>3. a \in [1..m -> S] /\ b \in [1..n -> S]
    BY <1>2, <1>3, <2>1, <2>2
  <2>4. QED
    BY <2>3
<1>6. IsSuffix(s, t) <=> m <= n /\ SubSeq(a, 1, m) = SubSeq(b, 1, m)
  BY <1>4, <1>5 DEF IsSuffix, IsPrefix
<1>7. ASSUME m <= n
      PROVE  SubSeq(a, 1, m) = SubSeq(b, 1, m) <=> \A i \in 1..m : a[i] = b[i]
  <2>1. SubSeq(a, 1, m) = [i \in 1..m |-> a[i]]
    BY <1>5
  <2>2. SubSeq(b, 1, m) = [i \in 1..m |-> b[i]]
    BY <1>5, <1>7
  <2>3. QED
    BY <2>1, <2>2
<1>8. ASSUME m <= n
      PROVE  (\A i \in 1..m : a[i] = b[i]) <=> \A i \in 1..m : s[i] = t[(n - m) + i]
  <2>1. ASSUME NEW i \in 1..m
        PROVE  /\ (m - i) + 1 \in 1..m
               /\ a[(m - i) + 1] = s[i] /\ b[(m - i) + 1] = t[(n - m) + i]
    <3>1. PICK j \in 1..m : j = (m - i) + 1
      OBVIOUS
    <3>2. (m - j) + 1 = i /\ j \in 1..n /\ (n - j) + 1 = (n - m) + i
      BY <1>8, <3>1
    <3>3. QED
      BY <1>2, <1>3, <3>1, <3>2
  <2>2. \A i \in 1..m : (m - ((m - i) + 1)) + 1 = i
    OBVIOUS
  <2>3. ASSUME \A i \in 1..m : a[i] = b[i], NEW i \in 1..m PROVE s[i] = t[(n - m) + i]
    BY <2>1, <2>3
  <2>4. ASSUME \A i \in 1..m : s[i] = t[(n - m) + i], NEW i \in 1..m PROVE a[i] = b[i]
    <3>1. PICK j \in 1..m : j = (m - i) + 1
      OBVIOUS
    <3>2. (m - j) + 1 = i
      BY <3>1
    <3>3. a[(m - j) + 1] = s[j] /\ b[(m - j) + 1] = t[(n - m) + j] /\ s[j] = t[(n - m) + j]
      BY <2>1, <2>4
    <3>4. QED
      BY <3>2, <3>3
  <2>5. QED
    BY <2>3, <2>4
<1>9. QED
  BY <1>1, <1>6, <1>7, <1>8

(* What is left after the first of a suffix is one.                         *)
LEMMA TailSuffix ==
  ASSUME NEW S, NEW s \in Seq(S), NEW t \in Seq(S), s # <<>>, IsSuffix(s, t)
  PROVE  Tail(s) \in Seq(S) /\ IsSuffix(Tail(s), t)
<1>1. PICK m \in Nat, n \in Nat : m = Len(s) /\ n = Len(t)
  OBVIOUS
<1>2. PICK r : r = Tail(s)
  OBVIOUS
<1>3. m # 0 /\ r \in Seq(S) /\ Len(r) = m - 1 /\ \A i \in 1..(m - 1) : r[i] = s[i + 1]
  BY <1>1, <1>2
<1>4. m <= n /\ \A i \in 1..m : s[i] = t[n - m + i]
  BY <1>1, SuffixElements
<1>5. \A i \in 1..(m - 1) : r[i] = t[n - (m - 1) + i]
  <2> SUFFICES ASSUME NEW i \in 1..(m - 1) PROVE r[i] = t[n - (m - 1) + i]
    OBVIOUS
  <2>1. i + 1 \in 1..m /\ n - m + (i + 1) = n - (m - 1) + i
    BY <1>3
  <2>2. QED
    BY <1>3, <1>4, <2>1
<1>6. m - 1 <= n
  BY <1>4
<1>7. IsSuffix(r, t)
  BY <1>1, <1>3, <1>5, <1>6, SuffixElements
<1>8. QED
  BY <1>2, <1>3, <1>7

(* The pads to come, the sinks, and the faults, of which the messages on    *)
(* the bus are some.                                                        *)
PadsLeft == pads \in Seq({"video", "audio", "other"}) /\ IsSuffix(pads, source.pads)
SinksOK  == linked \subseteq Sink /\ eos \subseteq Sink /\ broken \in BOOLEAN
Counted  == bus \in Nat /\ faults \in Nat /\ bus <= faults /\ faults <= MaxFaults
KindsOK  == \A k \in DOMAIN out : out[k].kind \in {"frame", "error"}

Bounded == PadsLeft /\ SinksOK /\ Counted /\ KindsOK

(* It holds at first.                                                       *)
LEMMA InitBounded == Init => Bounded
<1> SUFFICES ASSUME Init PROVE Bounded
  OBVIOUS
<1>1. /\ source \in Sources /\ pads = source.pads /\ linked = {} /\ eos = {} /\ bus = 0
      /\ broken = FALSE /\ faults = 0 /\ out = <<>>
  BY DEF Init, InitPipeline, InitIter
<1>2. PadsLeft
  <2> DEFINE S == {"video", "audio", "other"}
  <2>1. pads \in Seq(S)
    BY <1>1, IterAssumption DEF IsSource
  <2> HIDE DEF S
  <2>2. PICK m \in Nat : m = Len(pads)
    BY <2>1
  <2>3. \A i \in 1..m : m - m + i = i
    BY <2>2
  <2>4. IsSuffix(pads, pads)
    BY <2>1, <2>2, <2>3, SuffixElements
  <2>5. QED
    BY <1>1, <2>1, <2>4 DEF PadsLeft, S
<1>3. SinksOK /\ Counted
  <2>1. SinksOK
    BY <1>1 DEF SinksOK
  <2>2. MaxFaults \in Nat
    BY IterAssumption
  <2>3. Counted
    BY <1>1, <2>2 DEF Counted
  <2>4. QED
    BY <2>1, <2>3
<1>4. KindsOK
  <2>1. DOMAIN out = {}
    BY <1>1
  <2>2. QED
    BY <2>1 DEF KindsOK
<1>5. QED
  BY <1>2, <1>3, <1>4 DEF Bounded

(* What GStreamer's threads do is counted.                                  *)
LEMMA EnvironmentBounded ==
  ASSUME source \in Sources, Bounded, Environment
  PROVE  Bounded'
<1>1. PadsLeft /\ SinksOK /\ Counted /\ KindsOK
  BY DEF Bounded
<1>2. UNCHANGED <<source, out>>
  BY DEF Environment, PadAdded, DeliverSample, DeliverEos, PostMessage, iterVars
<1>3. KindsOK'
  BY <1>1, <1>2 DEF KindsOK
<1>4. CASE PadAdded
  <2>1. /\ pads # <<>> /\ pads' = Tail(pads) /\ UNCHANGED <<eos, broken, bus, faults>>
        /\ linked' = linked \/ linked' = linked \cup ({Head(pads)} \cap Sink)
    BY <1>4 DEF PadAdded
  <2>2. PadsLeft'
    <3> DEFINE S == {"video", "audio", "other"}
    <3>1. source.pads \in Seq(S) /\ pads \in Seq(S) /\ IsSuffix(pads, source.pads)
      BY <1>1, IterAssumption DEF PadsLeft, IsSource
    <3> HIDE DEF S
    <3>2. Tail(pads) \in Seq(S) /\ IsSuffix(Tail(pads), source.pads)
      BY <2>1, <3>1, TailSuffix
    <3>3. pads' \in Seq(S) /\ IsSuffix(pads', source.pads')
      BY <1>2, <2>1, <3>2
    <3>4. QED
      BY <3>3 DEF S, PadsLeft
  <2>3. SinksOK' /\ Counted'
    BY <1>1, <2>1 DEF SinksOK, Counted
  <2>4. QED
    BY <1>3, <2>2, <2>3 DEF Bounded
<1>5. CASE \E k \in Sink : DeliverSample(k) \/ DeliverEos(k)
  <2>1. /\ UNCHANGED <<pads, linked, broken, bus, faults>>
        /\ eos' \subseteq eos \cup Sink
    BY <1>5 DEF DeliverSample, DeliverEos
  <2>2. PadsLeft' /\ SinksOK' /\ Counted'
    BY <1>1, <1>2, <2>1 DEF PadsLeft, SinksOK, Counted
  <2>3. QED
    BY <1>3, <2>2 DEF Bounded
<1>6. CASE \E isError \in BOOLEAN : PostMessage(isError)
  <2>1. /\ UNCHANGED <<pads, linked, eos>> /\ broken' \in BOOLEAN
        /\ faults < MaxFaults /\ bus' = bus + 1 /\ faults' = faults + 1
    BY <1>6 DEF PostMessage, MayFail, CountFault
  <2>2. Counted'
    BY <1>1, <2>1, IterAssumption DEF Counted
  <2>3. PadsLeft' /\ SinksOK'
    BY <1>1, <1>2, <2>1 DEF PadsLeft, SinksOK
  <2>4. QED
    BY <1>3, <2>2, <2>3 DEF Bounded
<1>7. QED
  BY <1>4, <1>5, <1>6 DEF Environment

(* A change of state that fails is one more fault, and may be.              *)
LEMMA OpenDropBounded ==
  ASSUME Bounded, OpenPipeline \/ Drop
  PROVE  Bounded'
<1>1. PadsLeft /\ SinksOK /\ Counted /\ KindsOK
  BY DEF Bounded
<1>2. UNCHANGED <<source, pads, linked, eos, bus, broken, out>>
  BY DEF OpenPipeline, Drop
<1>3. PICK mayFail, offset, from : mayFail = MayFail /\ offset = source.offset /\ from = gst
  OBVIOUS
<1>4. PICK o \in Close(from, mayFail) \cup Open(offset, mayFail) : CountFault(o.res # "ok")
  BY <1>3 DEF OpenPipeline, Drop
<1>5. o.res = "ok" \/ faults < MaxFaults
  BY <1>3, <1>4, AllSucceed DEF MayFail
<1>6. faults' = faults \/ (faults < MaxFaults /\ faults' = faults + 1)
  BY <1>4, <1>5 DEF CountFault
<1>7. Counted'
  BY <1>1, <1>2, <1>6, IterAssumption DEF Counted
<1>8. PadsLeft' /\ SinksOK' /\ KindsOK'
  BY <1>1, <1>2 DEF PadsLeft, SinksOK, KindsOK
<1>9. QED
  BY <1>7, <1>8 DEF Bounded

(* An item that is returned adds to those there were.                       *)
LEMMA KeepsKinds ==
  ASSUME out \in Seq(Returned), NEW x, x.kind \in {"frame", "error"}, out' = Append(out, x), KindsOK
  PROVE  KindsOK'
<1>1. PICK n :
        \A k \in DOMAIN out' : (k \in DOMAIN out /\ out'[k] = out[k]) \/ (k = n /\ out'[k] = x)
  BY ReturnsItem
<1>2. QED
  BY <1>1 DEF KindsOK

(* Frames are pulled and returned without faults, errors from the bus.      *)
LEMMA NextBounded ==
  ASSUME IterInv, Bounded,
         NextFused \/ NextBusError \/ NextBegin \/ PullVideo \/ CheckAudio \/ PullAudio \/ Yield
  PROVE  Bounded'
<1>1. PadsLeft /\ SinksOK /\ Counted /\ KindsOK /\ out \in Seq(Returned)
  BY DEF Bounded, IterInv, Typed
<1>2. /\ UNCHANGED <<source, pads, linked, eos, broken, faults>>
      /\ bus' = bus \/ (bus > 0 /\ bus' = bus - 1)
      /\ \/ UNCHANGED out
         \/ \E x : x.kind \in {"frame", "error"} /\ out' = Append(out, x)
  <2>1. CASE NextBusError
    <3>1. ErrorItem("bus").kind = "error"
      BY DEF ErrorItem
    <3>2. QED
      BY <2>1, <3>1 DEF NextBusError, PopError
  <2>2. CASE NextFused \/ NextBegin \/ PullVideo \/ CheckAudio \/ PullAudio
    BY <2>2 DEF NextFused, NextBegin, PullVideo, CheckAudio, PullAudio, gstVars
  <2>3. CASE Yield
    BY <2>3 DEF Yield, FrameItem, gstVars
  <2>4. QED
    BY <2>1, <2>2, <2>3
<1>3. KindsOK'
  <2>1. CASE UNCHANGED out
    BY <1>1, <2>1 DEF KindsOK
  <2>2. CASE \E x : x.kind \in {"frame", "error"} /\ out' = Append(out, x)
    BY <1>1, <2>2, KeepsKinds
  <2>3. QED
    BY <1>2, <2>1, <2>2
<1>4. Counted'
  BY <1>1, <1>2 DEF Counted
<1>5. PadsLeft' /\ SinksOK'
  BY <1>1, <1>2 DEF PadsLeft, SinksOK
<1>6. QED
  BY <1>3, <1>4, <1>5 DEF Bounded

(* When the iterator gives up a timeout is a fault, and so is a close that  *)
(* fails.                                                                   *)
LEMMA GiveUpBounded ==
  ASSUME IterInv, Bounded, NEW k \in Sink, GiveUp(k)
  PROVE  Bounded'
<1>1. PadsLeft /\ SinksOK /\ Counted /\ KindsOK /\ out \in Seq(Returned)
  BY DEF Bounded, IterInv, Typed
<1>2. PICK late : late = IF k \notin eos /\ ~ broken THEN 1 ELSE 0
  OBVIOUS
<1>3. PICK mayFail, from : mayFail = (faults + late < MaxFaults) /\ from = gst
  OBVIOUS
<1>4. PICK o \in Close(from, mayFail) :
        faults' = faults + late + (IF o.res = "ok" THEN 0 ELSE 1)
  BY <1>2, <1>3 DEF GiveUp
<1>5. o.res = "ok" \/ faults + late < MaxFaults
  BY <1>3, <1>4, AllSucceed
<1>6. late = 0 \/ (late = 1 /\ faults < MaxFaults)
  BY <1>2 DEF GiveUp, ComesBackEmpty, MayFail
<1>7. bus' = bus \/ (bus > 0 /\ bus' = bus - 1)
  BY DEF GiveUp, PopError
<1>8. Counted'
  <2>1. bus' \in Nat /\ bus' <= bus
    BY <1>1, <1>7 DEF Counted
  <2>2. faults' \in Nat /\ faults <= faults' /\ faults' <= MaxFaults
    BY <1>1, <1>4, <1>5, <1>6, IterAssumption DEF Counted
  <2>3. QED
    BY <1>1, <2>1, <2>2 DEF Counted
<1>9. UNCHANGED <<source, pads, linked, eos, broken>>
  BY DEF GiveUp
<1>10. PadsLeft' /\ SinksOK'
  BY <1>1, <1>9 DEF PadsLeft, SinksOK
<1>11. KindsOK'
  <2>1. CASE EndError(k) = "none"
    BY <1>1, <2>1 DEF GiveUp, KindsOK
  <2>2. CASE EndError(k) # "none"
    <3>1. PICK x : x = ErrorItem(EndError(k))
      OBVIOUS
    <3>2. x.kind = "error" /\ out' = Append(out, x)
      BY <2>2, <3>1 DEF GiveUp, ErrorItem
    <3>3. QED
      BY <1>1, <3>2, KeepsKinds
  <2>3. QED
    BY <2>1, <2>2
<1>12. QED
  BY <1>8, <1>10, <1>11 DEF Bounded

(* Every step keeps the bounds.                                             *)
LEMMA BoundedKept == PullInv /\ Bounded /\ [Next]_vars => Bounded'
<1> SUFFICES ASSUME PullInv, Bounded, [Next]_vars PROVE Bounded'
  OBVIOUS
<1>0. IterInv /\ source \in Sources
  BY DEF PullInv, Pulling
<1>1. CASE Environment
  BY <1>0, <1>1, EnvironmentBounded
<1>2. CASE Iterate
  BY <1>0, <1>2, OpenDropBounded, NextBounded, GiveUpBounded DEF Iterate
<1>3. CASE Drop
  BY <1>3, OpenDropBounded
<1>4. CASE UNCHANGED vars
  BY <1>4 DEF vars, gstVars, iterVars, Bounded, PadsLeft, SinksOK, Counted, KindsOK
<1>5. QED
  BY <1>1, <1>2, <1>3, <1>4 DEF Next

(* iter.rs and builder.rs: the variables keep their types.  The frame at    *)
(* hand is one of the video, there is one exactly while next() is past its  *)
(* pull, and no path takes a message off an empty bus.                      *)
THEOREM IterTypes == Spec => []TypeOK
<1>1. Init => Bounded
  BY InitBounded
<1>2. PullInv /\ Bounded /\ [Next]_vars => Bounded'
  BY BoundedKept
<1>3. PullInv /\ Bounded => TypeOK
  <2> SUFFICES ASSUME PullInv, Bounded PROVE TypeOK
    OBVIOUS
  <2>1. Typed /\ Pulling /\ PadsLeft /\ SinksOK /\ Counted /\ KindsOK
    BY DEF PullInv, IterInv, Bounded
  <2>2. held # None => held.n \in DOMAIN source.video
    BY <2>1 DEF Pulling, Active, HoldsPulled
  <2>3. bus \in 0..MaxFaults /\ faults \in 0..MaxFaults
    BY <2>1, IterAssumption DEF Counted
  <2>4. idx \in Nat
    BY <2>1 DEF Pulling
  <2>5. QED
    BY <2>1, <2>2, <2>3, <2>4 DEF TypeOK, Typed, Pulling, PadsLeft, SinksOK, KindsOK
<1>4. QED
  BY <1>1, <1>2, <1>3, PullInvariant, PTL DEF Spec

-----------------------------------------------------------------------------
(* How the iterator ends.                                                   *)

(* Only a pad of the input brings a sink in, and only the audio sink is     *)
(* waited for with a frame at hand.                                         *)
Linked == linked \subseteq ToSet(source.pads) /\ (pc = "audio" => "audio" \in linked)

(* When the iterator is fused and not at its end yet it has just returned   *)
(* an error.                                                                *)
ErrorIsLast == pc = "idle" /\ fused => out # <<>> /\ Last(out).kind = "error"

(* The end of a stream comes after all of it.                               *)
EosIsEnd == \A k \in Sink : k \in eos => sent[k] = Len(Stream(k))

EndInv == Linked /\ EosIsEnd /\ ErrorIsLast /\ (AudioGoesOn(source) => EndExplained)

(* Where opening and closing lead.                                          *)
LEMMA OpensAnywhere ==
  /\ OpenPipeline => pc' \in {"idle", "failed", "panicked"}
  /\ Drop => pc' \in {"dropped", "leaked"}
  /\ \A k \in Sink : GiveUp(k) =>
       pc' = "panicked" \/ pc' = IF EndError(k) = "none" THEN "ended" ELSE "idle"
<1>1. ASSUME OpenPipeline PROVE pc' \in {"idle", "failed", "panicked"}
  <2>1. PICK offset, mayFail : offset = source.offset /\ mayFail = MayFail
    OBVIOUS
  <2>2. PICK o \in Open(offset, mayFail) :
          pc' = CASE o.res = "ok" -> "idle" [] o.res = "error" -> "failed"
                  [] o.res = "panic" -> "panicked"
    BY <1>1, <2>1 DEF OpenPipeline
  <2>3. o \in Outcome
    BY <2>2, OpenPlays
  <2>4. o.res \in {"ok", "error", "panic"}
    BY <2>3 DEF Outcome
  <2>5. QED
    BY <2>2, <2>4
<1>2. ASSUME Drop PROVE pc' \in {"dropped", "leaked"}
  BY <1>2 DEF Drop
<1>3. ASSUME NEW k \in Sink, GiveUp(k)
      PROVE  pc' = "panicked" \/ pc' = IF EndError(k) = "none" THEN "ended" ELSE "idle"
  <2>1. PICK e : e = EndError(k)
    OBVIOUS
  <2>2. \E o : pc' = CASE o.res # "ok" -> "panicked"
                       [] o.res = "ok" /\ e # "none" -> "idle"
                       [] OTHER -> "ended"
    BY <1>3, <2>1 DEF GiveUp
  <2>3. pc' = "panicked" \/ pc' = IF e = "none" THEN "ended" ELSE "idle"
    BY <2>2
  <2>4. QED
    BY <2>1, <2>3
<1>4. QED
  BY <1>1, <1>2, <1>3

(* Linked is kept.                                                          *)
LEMMA KeepsLinked ==
  ASSUME source \in Sources, Bounded, Linked, [Next]_vars
  PROVE  Linked'
<1>1. UNCHANGED source
  BY DEF Next, Environment, Iterate, PadAdded, DeliverSample, DeliverEos, PostMessage, OpenPipeline,
         NextFused, NextBusError, NextBegin, PullVideo, CheckAudio, PullAudio, Yield, GiveUp, Drop, vars
<1>2. CASE PadAdded
  <2>1. /\ pads # <<>> /\ pc = "new" /\ pc' \in {"new", "aborted"}
        /\ linked' \subseteq linked \cup {Head(pads)}
    BY <1>2 DEF PadAdded
  <2>2. Head(pads) \in ToSet(source.pads)
    <3> DEFINE S == {"video", "audio", "other"}
    <3>1. source.pads \in Seq(S) /\ pads \in Seq(S) /\ IsSuffix(pads, source.pads)
      BY IterAssumption DEF Bounded, PadsLeft, IsSource
    <3> HIDE DEF S
    <3>2. PICK m \in Nat, n \in Nat : m = Len(pads) /\ n = Len(source.pads)
      BY <3>1
    <3>3. m # 0 /\ Head(pads) = pads[1]
      BY <2>1, <3>1, <3>2
    <3>4. m <= n /\ pads[1] = source.pads[n - m + 1]
      <4>1. m <= n /\ \A i \in 1..m : pads[i] = source.pads[n - m + i]
        <5>1. PICK s \in Seq(S), u \in Seq(S) : s = pads /\ u = source.pads
          BY <3>1
        <5>2. Len(s) <= Len(u) /\ \A i \in 1..Len(s) : s[i] = u[Len(u) - Len(s) + i]
          BY <3>1, <5>1, SuffixElements
        <5>3. QED
          BY <3>2, <5>1, <5>2
      <4>2. 1 \in 1..m
        BY <3>2, <3>3
      <4>3. QED
        BY <4>1, <4>2
    <3>5. n - m + 1 \in DOMAIN source.pads
      <4>1. DOMAIN source.pads = 1..n
        BY <3>1, <3>2
      <4>2. QED
        BY <3>2, <3>3, <3>4, <4>1
    <3>6. QED
      BY <3>3, <3>4, <3>5 DEF ToSet
  <2>3. QED
    BY <1>1, <2>1, <2>2 DEF Linked
<1>3. CASE ~ PadAdded
  <2>1. UNCHANGED linked
    BY <1>3 DEF Next, Environment, Iterate, DeliverSample, DeliverEos, PostMessage, OpenPipeline,
         NextFused, NextBusError, NextBegin, PullVideo, CheckAudio, PullAudio, Yield, GiveUp, Drop,
         vars, gstVars
  <2>2. pc' = "audio" => pc = "audio" \/ "audio" \in linked
    <3>1. CASE Environment \/ UNCHANGED vars
      BY <1>3, <3>1 DEF Environment, DeliverSample, DeliverEos, PostMessage, vars, iterVars
    <3>2. CASE OpenPipeline \/ Drop \/ \E k \in Sink : GiveUp(k)
      BY <3>2, OpensAnywhere
    <3>3. CASE \/ NextFused \/ NextBusError \/ NextBegin \/ PullVideo \/ CheckAudio \/ PullAudio
               \/ Yield
      BY <3>3 DEF NextFused, NextBusError, NextBegin, PullVideo, CheckAudio, PullAudio, Yield,
                  HasAudioSink
    <3>4. QED
      BY <3>1, <3>2, <3>3 DEF Next, Iterate
  <2>3. QED
    BY <1>1, <2>1, <2>2 DEF Linked
<1>4. QED
  BY <1>2, <1>3

(* EosIsEnd is kept.                                                        *)
LEMMA KeepsEosIsEnd ==
  ASSUME Typed, EosIsEnd, [Next]_vars
  PROVE  EosIsEnd'
<1>1. UNCHANGED source
  BY DEF Next, Environment, Iterate, PadAdded, DeliverSample, DeliverEos, PostMessage, OpenPipeline,
         NextFused, NextBusError, NextBegin, PullVideo, CheckAudio, PullAudio, Yield, GiveUp, Drop, vars
<1>2. ASSUME NEW k \in Sink, DeliverSample(k) PROVE EosIsEnd'
  <2>1. k \notin eos
    <3>1. sent[k] \in Nat /\ sent[k] < Len(Stream(k))
      BY <1>2 DEF DeliverSample, Typed
    <3>2. PICK m, n : m = sent[k] /\ n = Len(Stream(k)) /\ m \in Nat /\ m < n
      BY <3>1
    <3>3. m # n
      BY <3>2
    <3>4. QED
      BY <3>2, <3>3 DEF EosIsEnd
  <2>2. eos' = eos /\ \A j \in Sink \ {k} : sent'[j] = sent[j]
    BY <1>2 DEF DeliverSample, Typed
  <2>3. QED
    BY <1>1, <2>1, <2>2 DEF EosIsEnd, Stream
<1>3. ASSUME NEW k \in Sink, DeliverEos(k) PROVE EosIsEnd'
  BY <1>1, <1>3 DEF DeliverEos, EosIsEnd, Stream
<1>4. CASE ~ \E k \in Sink : DeliverSample(k) \/ DeliverEos(k)
  <2>1. UNCHANGED <<sent, eos>>
    BY <1>4 DEF Next, Environment, Iterate, PadAdded, PostMessage, OpenPipeline, NextFused,
         NextBusError, NextBegin, PullVideo, CheckAudio, PullAudio, Yield, GiveUp, Drop,
         vars, gstVars
  <2>2. QED
    BY <1>1, <2>1 DEF EosIsEnd, Stream
<1>5. QED
  BY <1>2, <1>3, <1>4

(* Without an error the iterator gives up only at the end of the stream it  *)
(* waits for.                                                               *)
LEMMA GivesUpAtEnd ==
  ASSUME PullInv, Bounded, EosIsEnd, NEW k \in Sink, GiveUp(k), pc' = "ended"
  PROVE  /\ queue[k] = <<>> /\ sent[k] = Len(Stream(k))
         /\ UNCHANGED <<source, out>>
<1>1. Typed /\ PlaysOrClosed
  BY DEF PullInv, IterInv
<1>2. queue[k] = <<>> /\ pc \in {"video", "audio"}
  BY DEF GiveUp, Waiting
<1>3. EndError(k) = "none"
  BY OpensAnywhere
<1>4. IsEos(k)
  <2>1. bus \in Nat
    BY DEF Bounded, Counted
  <2>2. PICK n, atEnd : n = bus /\ atEnd = IsEos(k)
    OBVIOUS
  <2>3. (CASE n > 0 -> "bus" [] n = 0 /\ ~ atEnd -> "timed out" [] OTHER -> "none") = "none"
    BY <1>3, <2>2 DEF EndError
  <2>4. n = 0 \/ n > 0
    BY <2>1, <2>2
  <2>5. atEnd
    BY <2>3, <2>4
  <2>6. QED
    BY <2>2, <2>5
<1>5. k \in eos /\ sent[k] = Len(Stream(k))
  <2>1. gst = "Playing"
    BY <1>1, <1>2 DEF PlaysOrClosed
  <2>2. QED
    BY <1>4, <2>1 DEF IsEos, EosIsEnd
<1>6. UNCHANGED <<source, out>>
  BY <1>3 DEF GiveUp
<1>7. QED
  BY <1>2, <1>5, <1>6

(* That of the video: every frame was returned.                             *)
LEMMA VideoGiveUpEnds ==
  ASSUME PullInv, Bounded, EosIsEnd, GiveUp("video"), pc' = "ended"
  PROVE  EndExplained'
<1>1. Typed /\ Pulling /\ pc = "video"
  BY DEF PullInv, IterInv, GiveUp, Waiting
<1>2. queue["video"] = <<>> /\ sent["video"] = Len(source.video) /\ UNCHANGED <<source, out>>
  BY GivesUpAtEnd DEF Sink, Stream
<1>3. held = None /\ Held = 0 /\ Progress
  BY <1>1, <1>2 DEF Pulling, Active, Held
<1>4. Pulled = Len(source.video) /\ Len(source.video) \in Nat
  <2>1. PICK n : n = Len(queue["video"])
    OBVIOUS
  <2>2. n = 0
    BY <1>2, <2>1
  <2>3. PICK m \in Nat : m = Len(source.video)
    BY <1>1, SourceFields DEF Pulling
  <2>4. Pulled = m - n
    BY <1>2, <2>1, <2>3 DEF Pulled
  <2>5. QED
    BY <2>2, <2>3, <2>4
<1>5. First' = First /\ Regular' = Regular /\ FramePlaces' = FramePlaces
  BY <1>2 DEF First, Regular, IsCut, FramePlaces
<1>6. First \in 1..(Len(source.video) + 1) /\ Count \in Nat
  BY <1>1, FirstIsUncut DEF Pulling
<1>7. ASSUME Regular PROVE First + Count > Len(source.video)
  <2>0. PICK l \in Nat : l = Len(source.video)
    BY <1>4
  <2>1. PICK f \in Nat, c \in Nat : f = First /\ c = Count /\ l = Len(source.video)
    <3>1. First \in 1..(l + 1) /\ Count \in Nat
      BY <1>6, <2>0
    <3>2. First \in Nat
      BY <3>1
    <3>3. QED
      BY <2>0, <3>1, <3>2, Zenon
  <2>2. IF l < f THEN c + 0 = 0 ELSE c + 0 = l - f + 1
    BY <1>3, <1>4, <1>7, <2>1 DEF Progress
  <2>3. f + c > l
    BY <2>2
  <2>4. QED
    BY <2>1, <2>3
<1>8. QED
  BY <1>2, <1>5, <1>7 DEF EndExplained, Count

(* Errors that are returned are the last item until next() is called again. *)
LEMMA KeepsErrorLast ==
  ASSUME IterInv, ErrorIsLast, [Next]_vars
  PROVE  ErrorIsLast'
<1>1. PlaysOrClosed /\ out \in Seq(Returned)
  BY DEF IterInv, Typed
<1>2. CASE OpenPipeline \/ Drop
  <2>1. /\ pc' = "idle" => pc = "new"
        /\ UNCHANGED <<fused, out>>
    BY <1>2, OpensAnywhere DEF OpenPipeline, Drop
  <2>2. QED
    BY <1>1, <2>1 DEF ErrorIsLast, PlaysOrClosed
<1>3. ASSUME NEW k \in Sink, GiveUp(k) PROVE ErrorIsLast'
  <2>1. CASE pc' # "idle"
    BY <2>1 DEF ErrorIsLast
  <2>2. CASE pc' = "idle"
    <3>1. EndError(k) # "none"
      BY <1>3, <2>2, OpensAnywhere
    <3>2. PICK x : x = ErrorItem(EndError(k))
      OBVIOUS
    <3>3. x.kind = "error" /\ out' = Append(out, x)
      BY <1>3, <3>1, <3>2 DEF GiveUp, ErrorItem
    <3>4. out' # <<>> /\ Last(out') = x
      <4>1. PICK R : R = Returned
        OBVIOUS
      <4> DEFINE S == R \cup {x}
      <4>2. out \in Seq(S) /\ x \in S
        BY <1>1, <4>1, SeqMonotonic
      <4> HIDE DEF S
      <4>3. PICK s \in Seq(S) : s = out
        BY <4>2
      <4>4. Append(s, x) # <<>> /\ Append(s, x)[Len(Append(s, x))] = x
        BY <4>2
      <4>5. QED
        BY <3>3, <4>3, <4>4 DEF Last
    <3>5. QED
      BY <3>3, <3>4 DEF ErrorIsLast
  <2>3. QED
    BY <2>1, <2>2
<1>4. CASE NextBusError \/ NextBegin \/ PullVideo \/ CheckAudio \/ PullAudio \/ Yield
  <2>1. /\ fused' = fused
        /\ pc \in {"idle", "video", "check", "audio", "yield"} /\ (pc = "idle" => ~ fused)
    BY <1>4 DEF NextBusError, NextBegin, PullVideo, CheckAudio, PullAudio, Yield
  <2>2. ~ fused
    BY <1>1, <2>1 DEF PlaysOrClosed
  <2>3. QED
    BY <2>1, <2>2 DEF ErrorIsLast
<1>5. CASE NextFused \/ Environment \/ UNCHANGED vars
  <2>1. UNCHANGED <<fused, out>> /\ (pc' = "idle" => pc = "idle")
    BY <1>5 DEF NextFused, Environment, PadAdded, DeliverSample, DeliverEos, PostMessage, vars,
                iterVars
  <2>2. QED
    BY <2>1 DEF ErrorIsLast
<1>6. QED
  BY <1>2, <1>3, <1>4, <1>5 DEF Next, Iterate

-----------------------------------------------------------------------------
(* The audio: what pop_until cuts.                                          *)

AudioSample == [pts : Nat, dur : Nat, mem : Seq(Nat)]

(* Rounded down, and up, to a whole number of divisors.                     *)
LEMMA Quotients ==
  ASSUME NEW e \in Nat, NEW d \in Nat \ {0}
  PROVE  \E w \in Nat, x \in Nat :
            /\ x < d /\ e = d * w + x /\ e \div d = w /\ e % d = x
            /\ x # 0 => CeilOf(e, d) = w + 1
<1>1. PICK w, x : w = e \div d /\ x = e % d
  OBVIOUS
<1>2. w \in Nat /\ x \in 0..(d - 1) /\ e = d * w + x
  BY <1>1
<1>3. ASSUME x # 0 PROVE CeilOf(e, d) = w + 1
  <2>1. PICK q, m : q = (e + d - 1) \div d /\ m = (e + d - 1) % d
    OBVIOUS
  <2>2. q \in Nat /\ m \in 0..(d - 1) /\ e + d - 1 = d * q + m
    <3>1. e + d - 1 \in Nat
      OBVIOUS
    <3>2. QED
      BY <2>1, <3>1
  <2>3. ~ (q <= w)
    <3>1. SUFFICES ASSUME q <= w PROVE FALSE
      OBVIOUS
    <3>2. PICK i \in Nat : w = q + i
      BY <1>2, <2>2, <3>1
    <3>3. d * w = d * q + d * i /\ d * i \in Nat /\ d * q \in Nat
      BY <2>2, <3>2
    <3>4. QED
      BY <1>2, <1>3, <2>2, <3>3
  <2>4. ~ (w + 2 <= q)
    <3>1. SUFFICES ASSUME w + 2 <= q PROVE FALSE
      OBVIOUS
    <3>2. PICK i \in Nat : q = w + 2 + i
      BY <1>2, <2>2, <3>1
    <3>3. d * q = d * w + 2 * d + d * i /\ d * i \in Nat /\ d * w \in Nat
      BY <1>2, <3>2
    <3>4. QED
      BY <1>2, <2>2, <3>3
  <2>5. q = w + 1
    BY <1>2, <2>2, <2>3, <2>4
  <2>6. QED
    BY <2>1, <2>5 DEF CeilOf
<1>4. x \in Nat /\ x < d
  BY <1>2
<1>5. e \div d = w /\ e % d = x
  BY <1>1
<1>6. QED
  BY <1>2, <1>3, <1>4, <1>5, Zenon

(* A cut takes w whole buffers, and x ticks of the next: none if they are   *)
(* few.                                                                     *)
IsCutAt(a, E, w, x) ==
    /\ x < a.buffer[1].dur /\ E + a.shift = a.buffer[1].pts + (a.buffer[1].dur * w + x)
    /\ CutAt(a, E).whole = w
    /\ CutAt(a, E).rem = IF x < Slack THEN 0 ELSE x
    /\ CutAt(a, E).needed = IF x < Slack \/ x = 0 THEN w ELSE w + 1

(* The cut at a frame's end takes whole buffers and a rest that is shorter  *)
(* than one.                                                                *)
LEMMA CutIs ==
  ASSUME NEW a, a.buffer \in Seq(AudioSample), a.buffer # <<>>, a.buffer[1].dur # 0,
         a.shift \in Nat, NEW E \in Int, ~ PopPanics(a, E)
  PROVE  \E w \in Nat, x \in Nat : IsCutAt(a, E, w, x)
<1>0. PICK b : b = a.buffer /\ b \in Seq(AudioSample) /\ b # <<>> /\ b[1].dur # 0
  OBVIOUS
<1>1. PICK n \in Nat : n = Len(b) /\ DOMAIN b = 1..n
  BY <1>0
<1>2. n # 0 /\ 1 \in DOMAIN b /\ Head(b) = b[1]
  BY <1>0, <1>1
<1>3. b[1] \in AudioSample
  BY <1>0, <1>2
<1>4. PICK d \in Nat \ {0}, p \in Nat, t \in Nat : d = b[1].dur /\ p = b[1].pts /\ t = a.shift
  BY <1>0, <1>3 DEF AudioSample
<1>5. StartOf(a) = p - t
  BY <1>0, <1>2, <1>4 DEF StartOf
<1>6. PICK e \in Nat : e = E - (p - t)
  <2>1. ~ (E < p - t)
    BY <1>0, <1>5 DEF PopPanics
  <2>2. QED
    BY <1>4, <2>1
<1>7. PICK w \in Nat, x \in Nat :
         /\ x < d /\ e = d * w + x /\ e \div d = w /\ e % d = x
         /\ x # 0 => CeilOf(e, d) = w + 1
  BY <1>4, Quotients
<1>8. E + t = p + e
  BY <1>4, <1>6
<1>9. PICK r : r = IF x < Slack THEN 0 ELSE x
  OBVIOUS
<1>10. CutAt(a, E) = [whole |-> w, rem |-> r, needed |-> IF r = 0 THEN w ELSE CeilOf(e, d)]
  BY <1>0, <1>2, <1>4, <1>5, <1>6, <1>7, <1>9 DEF CutAt
<1>11. (IF r = 0 THEN w ELSE CeilOf(e, d)) = IF x < Slack \/ x = 0 THEN w ELSE w + 1
  BY <1>7, <1>9, AudioAssumption
<1>12. x < a.buffer[1].dur /\ E + a.shift = a.buffer[1].pts + (a.buffer[1].dur * w + x)
  BY <1>0, <1>4, <1>7, <1>8
<1>13. /\ CutAt(a, E).whole = w
       /\ CutAt(a, E).rem = IF x < Slack THEN 0 ELSE x
       /\ CutAt(a, E).needed = IF x < Slack \/ x = 0 THEN w ELSE w + 1
  BY <1>9, <1>10, <1>11
<1>14. IsCutAt(a, E, w, x)
  BY <1>12, <1>13 DEF IsCutAt
<1>15. QED
  BY <1>14

(* A time is turned into a byte.                                            *)
LEMMA ByteAtIsByte == ASSUME NEW d \in Nat PROVE ByteAt(d) \in Nat
<1>1. /\ Samples \in Nat \ {0} /\ Round \in Nat \ {0} /\ Second \in Nat \ {0}
      /\ Channels \in Nat \ {0} /\ Width \in Nat \ {0}
  BY AudioAssumption
<1>2. PICK s \in Nat \ {0} : s = 2 * Second
  BY <1>1
<1>3. PICK x \in Nat : x = 2 * d * Samples * Round + Second
  <2>1. 2 * d \in Nat
    OBVIOUS
  <2>2. 2 * d * Samples \in Nat
    BY <1>1, <2>1
  <2>3. 2 * d * Samples * Round \in Nat
    BY <1>1, <2>2
  <2>4. QED
    BY <1>1, <2>3
<1>4. PICK y \in Nat : y = x \div s
  BY <1>2, <1>3
<1>5. PICK z \in Nat : z = y \div Round
  BY <1>1, <1>4
<1>6. SamplesIn(d) = z
  BY <1>2, <1>3, <1>4, <1>5 DEF SamplesIn
<1>7. Stride \in Nat
  BY <1>1 DEF Stride
<1>8. Stride * z \in Nat
  BY <1>5, <1>7
<1>9. QED
  BY <1>6, <1>8 DEF ByteAt

(* The first buffers of a sequence, and those behind them.                  *)
LEMMA FirstAndRest ==
  ASSUME NEW S, NEW b \in Seq(S), NEW m \in 0..Len(b)
  PROVE  /\ SubSeq(b, 1, m) \in Seq(S) /\ Len(SubSeq(b, 1, m)) = m
         /\ \A i \in 1..m : SubSeq(b, 1, m)[i] = b[i]
         /\ SubSeq(b, m + 1, Len(b)) \in Seq(S) /\ Len(SubSeq(b, m + 1, Len(b))) = Len(b) - m
         /\ \A i \in 1..(Len(b) - m) : SubSeq(b, m + 1, Len(b))[i] = b[m + i]
<1>1. PICK n \in Nat : n = Len(b)
  OBVIOUS
<1>2. m \in Nat /\ m <= n
  BY <1>1
<1>3. /\ SubSeq(b, 1, m) \in Seq(S) /\ Len(SubSeq(b, 1, m)) = m
      /\ \A i \in 1..m : SubSeq(b, 1, m)[i] = b[i]
  BY <1>1, <1>2
<1>4. PICK r : r = SubSeq(b, m + 1, n)
  OBVIOUS
<1>5. r \in Seq(S) /\ Len(r) = n - m
  BY <1>1, <1>2, <1>4
<1>6. ASSUME NEW i \in 1..(n - m) PROVE r[i] = b[m + i]
  BY <1>1, <1>2, <1>4
<1>7. QED
  BY <1>1, <1>3, <1>4, <1>5, <1>6

(* What AudioBuffer holds, and a slice of it.                               *)
AudioState ==
    [buffer : Seq(AudioSample), startIdx : Nat, shift : Nat \cup {None}, startOffset : Nat]
Slice == [buffers : Seq(AudioSample), start : Nat, end : Nat \cup {None}, shift : Nat]

(* pop_until hands out the first m buffers, and goes on where they end: in  *)
(* the last of them if the frame ends within it.                            *)
IsPop(a, E, w, x, m) ==
    LET b == a.buffer
        s == PopUntil(a, E).audio
        r == PopUntil(a, E).rest
    IN  /\ x < b[1].dur /\ E + a.shift = b[1].pts + (b[1].dur * w + x)
        /\ s \in Slice /\ Len(s.buffers) = m /\ \A i \in 1..m : s.buffers[i] = b[i]
        /\ s.start = a.startIdx
        /\ IF x < Slack \/ x = 0 THEN m = w /\ s.end = None ELSE m = w + 1 /\ s.end # None
        /\ r \in AudioState
        /\ Len(r.buffer) = Len(b) - w /\ \A i \in 1..(Len(b) - w) : r.buffer[i] = b[w + i]
        /\ r.startIdx = NextByte(s) /\ r.shift = a.shift /\ r.startOffset = a.startOffset

(* It does.                                                                 *)
LEMMA PopIs ==
  ASSUME NEW a \in AudioState, a.buffer # <<>>, a.buffer[1].dur # 0, a.shift \in Nat,
         NEW E \in Int, ~ PopPanics(a, E), HasAudioUntil(a, E)
  PROVE  \E w \in 0..Len(a.buffer), x \in Nat, m \in 0..Len(a.buffer) : IsPop(a, E, w, x, m)
<1>0. PICK b : b = a.buffer
  OBVIOUS
<1>1. /\ b \in Seq(AudioSample) /\ a.startIdx \in Nat /\ a.startOffset \in Nat
      /\ a = [buffer |-> b, startIdx |-> a.startIdx, shift |-> a.shift, startOffset |-> a.startOffset]
  BY <1>0 DEF AudioState
<1>2. PICK w \in Nat, x \in Nat : IsCutAt(a, E, w, x)
  BY <1>0, <1>1, CutIs
<1>3. PICK m \in Nat : m = IF x < Slack \/ x = 0 THEN w ELSE w + 1
  OBVIOUS
<1>4. PICK l \in Nat : l = Len(b)
  BY <1>1
<1>5. m \in 0..l /\ w \in 0..l
  <2>1. m <= l
    BY <1>0, <1>2, <1>3, <1>4 DEF HasAudioUntil, IsCutAt
  <2>2. w <= m
    BY <1>3
  <2>3. QED
    BY <2>1, <2>2, <1>4
<1>6. PICK end : end = IF x < Slack \/ x = 0 THEN None ELSE ByteAt(x)
  OBVIOUS
<1>7. PICK c : c = CutAt(a, E)
  OBVIOUS
<1>8. (c.rem = 0) <=> (x < Slack \/ x = 0)
  BY <1>2, <1>7, AudioAssumption DEF IsCutAt
<1>9. /\ x < Slack \/ x = 0 => end = None
      /\ ~ (x < Slack \/ x = 0) => end \in Nat /\ end # None
  BY <1>6, ByteAtIsByte, AudioAssumption
<1>10. end = IF c.rem = 0 THEN None ELSE ByteAt(c.rem)
  BY <1>2, <1>6, <1>7, <1>8 DEF IsCutAt
<1>11. PICK s : s = NewSlice(SubSeq(b, 1, m), a.startIdx, end, a.shift)
  OBVIOUS
<1>12. SliceUntil(a, E) = s
  BY <1>0, <1>2, <1>3, <1>7, <1>10, <1>11 DEF SliceUntil, IsCutAt
<1>13. PICK f, g : f = SubSeq(b, 1, m) /\ g = SubSeq(b, w + 1, l)
  OBVIOUS
<1>14. /\ f \in Seq(AudioSample) /\ Len(f) = m /\ \A i \in 1..m : f[i] = b[i]
       /\ g \in Seq(AudioSample) /\ Len(g) = l - w /\ \A i \in 1..(l - w) : g[i] = b[w + i]
  <2>1. b \in Seq(AudioSample) /\ m \in 0..Len(b) /\ w \in 0..Len(b)
    BY <1>1, <1>4, <1>5
  <2>2. /\ SubSeq(b, 1, m) \in Seq(AudioSample) /\ Len(SubSeq(b, 1, m)) = m
        /\ \A i \in 1..m : SubSeq(b, 1, m)[i] = b[i]
    BY <2>1, FirstAndRest, Zenon
  <2>3. /\ SubSeq(b, w + 1, Len(b)) \in Seq(AudioSample)
        /\ Len(SubSeq(b, w + 1, Len(b))) = Len(b) - w
        /\ \A i \in 1..(Len(b) - w) : SubSeq(b, w + 1, Len(b))[i] = b[w + i]
    BY <2>1, FirstAndRest, Zenon
  <2>4. QED
    BY <1>4, <1>13, <2>2, <2>3, Zenon
<1>15. s = [buffers |-> f, start |-> a.startIdx, end |-> end, shift |-> a.shift]
  BY <1>11, <1>13 DEF NewSlice
<1>16. s \in Slice
  BY <1>1, <1>9, <1>14, <1>15 DEF Slice
<1>17. s.buffers = f /\ s.start = a.startIdx /\ s.end = end
  BY <1>15
<1>18. PICK y : y = IF end = None THEN 0 ELSE end
  OBVIOUS
<1>19. y \in Nat /\ y = NextByte(s) /\ y = IF c.rem = 0 THEN 0 ELSE ByteAt(c.rem)
  BY <1>8, <1>9, <1>10, <1>17, <1>18 DEF NextByte
<1>20. PICK r : r = RestAfter(a, E)
  OBVIOUS
<1>21. r = [buffer |-> g, startIdx |-> y, shift |-> a.shift, startOffset |-> a.startOffset]
  <2>1. r = [a EXCEPT !.buffer = SubSeq(@, c.whole + 1, Len(@)), !.startIdx = y]
    BY <1>7, <1>19, <1>20 DEF RestAfter
  <2>2. c.whole = w
    BY <1>2, <1>7 DEF IsCutAt
  <2>3. r = [a EXCEPT !.buffer = g, !.startIdx = y]
    BY <1>0, <1>4, <1>13, <2>1, <2>2
  <2>4. QED
    BY <1>1, <2>3
<1>22. r \in AudioState
  BY <1>1, <1>14, <1>19, <1>21 DEF AudioState
<1>23. /\ r.buffer = g /\ r.startIdx = NextByte(s)
       /\ r.shift = a.shift /\ r.startOffset = a.startOffset
  BY <1>19, <1>21
<1>24. PopUntil(a, E) = [audio |-> s, rest |-> r]
  BY <1>12, <1>20 DEF PopUntil
<1>25. IF x < Slack \/ x = 0 THEN m = w /\ s.end = None ELSE m = w + 1 /\ s.end # None
  BY <1>3, <1>9, <1>17
<1>26. /\ Len(s.buffers) = m /\ \A i \in 1..m : s.buffers[i] = b[i]
       /\ Len(r.buffer) = l - w /\ \A i \in 1..(l - w) : r.buffer[i] = b[w + i]
  BY <1>14, <1>17, <1>23
<1>27. x < b[1].dur /\ E + a.shift = b[1].pts + (b[1].dur * w + x)
  BY <1>0, <1>2 DEF IsCutAt
<1>28. /\ PopUntil(a, E).audio = s /\ PopUntil(a, E).rest = r
  BY <1>24
<1>29. IsPop(a, E, w, x, m)
  BY <1>0, <1>4, <1>16, <1>17, <1>22, <1>23, <1>25, <1>26, <1>27, <1>28 DEF IsPop
<1>30. QED
  BY <1>0, <1>4, <1>5, <1>29

-----------------------------------------------------------------------------
(* The audio: the inductive invariant.                                      *)

(* How many buffers were pulled from the audio sink; in it wait, in order,  *)
(* those that follow.                                                       *)
AudioPulled == sent["audio"] - Len(queue["audio"])

AudioWaits ==
    /\ sent["audio"] \in 0..Len(Stream("audio")) /\ Len(queue["audio"]) <= sent["audio"]
    /\ \A j \in DOMAIN queue["audio"] : queue["audio"][j] = AudioPulled + j

(* The time stamp of the first buffer, less the start offset.               *)
AudioStart == Stream("audio")[1].pts - source.offset

AudioShifted ==
    /\ audioBuf.startOffset = source.offset
    /\ audioBuf.shift = IF AudioPulled = 0 THEN None ELSE AudioStart

(* AudioBuffer holds the buffers behind the p-th.                           *)
KeptFrom(p) ==
    /\ p \in 0..AudioPulled /\ Len(audioBuf.buffer) = AudioPulled - p
    /\ \A i \in 1..(AudioPulled - p) : audioBuf.buffer[i] = Stream("audio")[p + i]

(* Frame k ends so far within buffer j, or so little before it, that every  *)
(* later frame ends in it by more than what counts as no remainder.         *)
ReachesInto(k, j) ==
    \A n \in DOMAIN source.video : out[k].n < n =>
        Stream("audio")[j].pts + source.video[out[k].n].pts + Slack
          < out[k].ts + FrameTime + AudioStart + source.video[n].pts

(* The next slice is to begin in the buffer behind the p-th, where the last *)
(* one ended.                                                               *)
GoesOnAt(p) ==
    \/ SlicePlaces = {} /\ p = 0 /\ audioBuf.startIdx = 0
    \/ \E k \in SlicePlaces, i, j \in DOMAIN Stream("audio") :
          /\ \A l \in SlicePlaces : l <= k
          /\ IsRun(Stream("audio"), out[k].audio.buffers, i, j)
          /\ p + 1 = NextBuffer(out[k].audio, j) /\ audioBuf.startIdx = NextByte(out[k].audio)
          /\ out[k].audio.end # None => ReachesInto(k, j)

AudioHeld == \E p \in Nat : KeptFrom(p) /\ GoesOnAt(p)

(* Frame k ends so far behind buffer j, or so little before its end, that   *)
(* every later frame ends behind it.                                        *)
Outlasts(k, j) ==
    \A n \in DOMAIN source.video : out[k].n < n =>
        Stream("audio")[j].pts + Stream("audio")[j].dur + source.video[out[k].n].pts
          < out[k].ts + FrameTime + AudioStart + source.video[n].pts

(* When AudioBuffer holds none a frame has taken the last.                  *)
Drained ==
    audioBuf.buffer = <<>> /\ AudioPulled # 0 => \E k \in FramePlaces : Outlasts(k, AudioPulled)

AudioInv ==
    /\ audioBuf \in AudioState
    /\ Active => AudioWaits /\ AudioShifted /\ AudioHeld /\ Drained
    /\ SlicesMeet

(* The audio of an input that has some.                                     *)
LEMMA AudioFields ==
  ASSUME source \in Sources
  PROVE  /\ Stream("audio") \in Seq(AudioSample)
         /\ Len(Stream("audio")) \in Nat /\ DOMAIN Stream("audio") = 1..Len(Stream("audio"))
         /\ Stream("audio") # <<>> => Stream("audio") = source.audio /\ source.audio # None
         /\ \A i \in DOMAIN Stream("audio") :
               /\ Stream("audio")[i] \in AudioSample
               /\ Stream("audio")[i].pts \in Nat /\ Stream("audio")[i].dur \in Nat
               /\ Stream("audio")[i].pts - source.offset \in Nat
<1>1. IsSource(source)
  BY IterAssumption
<1>2. source.offset \in Nat
  BY <1>1 DEF IsSource
<1>3. PICK a : a = Stream("audio")
  OBVIOUS
<1>4. CASE source.audio = None
  <2>1. a = <<>>
    BY <1>3, <1>4 DEF Stream
  <2>2. a \in Seq(AudioSample) /\ Len(a) = 0 /\ DOMAIN a = 1..0 /\ DOMAIN a = {}
    BY <2>1
  <2>3. QED
    BY <1>3, <2>1, <2>2
<1>5. CASE source.audio # None
  <2>1. a = source.audio
    BY <1>3, <1>5 DEF Stream
  <2>2. /\ a \in Seq(AudioSample)
        /\ \A k \in DOMAIN a : source.offset <= a[k].pts
    BY <1>1, <1>5, <2>1 DEF IsSource, AudioSample
  <2>3. Len(a) \in Nat /\ DOMAIN a = 1..Len(a)
    BY <2>2
  <2>4. ASSUME NEW i \in DOMAIN a
        PROVE  /\ a[i] \in AudioSample /\ a[i].pts \in Nat /\ a[i].dur \in Nat
               /\ a[i].pts - source.offset \in Nat
    <3>1. a[i] \in AudioSample
      BY <2>2, <2>3
    <3>2. a[i].pts \in Nat /\ a[i].dur \in Nat
      BY <3>1 DEF AudioSample
    <3>3. source.offset <= a[i].pts
      BY <2>2
    <3>4. QED
      BY <1>2, <3>1, <3>2, <3>3
  <2>5. QED
    BY <1>3, <1>5, <2>1, <2>2, <2>3, <2>4
<1>6. QED
  BY <1>4, <1>5

(* It holds at first.                                                       *)
LEMMA InitAudioInv == Init => AudioInv
<1> SUFFICES ASSUME Init PROVE AudioInv
  OBVIOUS
<1>1. /\ source \in Sources /\ sent = [k \in Sink |-> 0] /\ queue = [k \in Sink |-> <<>>]
      /\ audioBuf = NewAudio(source.offset) /\ out = <<>>
  BY DEF Init, InitPipeline, InitIter
<1>2. source.offset \in Nat
  BY <1>1, SourceFields
<1>3. audioBuf = [buffer |-> <<>>, startIdx |-> 0, shift |-> None, startOffset |-> source.offset]
  BY <1>1 DEF NewAudio
<1>4. audioBuf \in AudioState
  BY <1>2, <1>3 DEF AudioState
<1>5. sent["audio"] = 0 /\ queue["audio"] = <<>>
  BY <1>1 DEF Sink
<1>6. AudioPulled = 0
  <2>1. Len(queue["audio"]) = 0
    BY <1>5
  <2>2. PICK x, y : x = sent["audio"] /\ y = Len(queue["audio"]) /\ x = 0 /\ y = 0
    BY <1>5, <2>1
  <2>3. x - y = 0
    BY <2>2
  <2>4. QED
    BY <2>2, <2>3 DEF AudioPulled
<1>7. AudioWaits
  BY <1>1, <1>5, AudioFields DEF AudioWaits
<1>8. AudioShifted
  BY <1>3, <1>6 DEF AudioShifted
<1>9. FramePlaces = {} /\ SlicePlaces = {}
  BY <1>1 DEF FramePlaces, SlicePlaces
<1>10. KeptFrom(0)
  BY <1>3, <1>6 DEF KeptFrom
<1>11. GoesOnAt(0)
  BY <1>3, <1>9 DEF GoesOnAt
<1>12. SlicesMeet
  BY <1>9 DEF SlicesMeet
<1>13. AudioHeld
  BY <1>10, <1>11 DEF AudioHeld
<1>14. Drained
  BY <1>6 DEF Drained
<1>15. QED
  BY <1>4, <1>7, <1>8, <1>12, <1>13, <1>14 DEF AudioInv

(* What the slices say stays while they do.                                 *)
LEMMA KeepsSlices ==
  ASSUME UNCHANGED source, SlicePlaces' = SlicePlaces, \A k \in SlicePlaces : out'[k] = out[k],
         audioBuf'.startIdx = audioBuf.startIdx
  PROVE  /\ SlicesMeet => SlicesMeet'
         /\ \A p \in Nat : GoesOnAt(p) => GoesOnAt(p)'
<1>2. PICK S, A : S = SlicePlaces /\ A = Stream("audio") /\ S = SlicePlaces' /\ A = Stream("audio")'
  BY DEF Stream
<1>3. \A k \in S : out'[k] = out[k]
  BY <1>2
<1>4. ASSUME SlicesMeet PROVE SlicesMeet'
  <2>1. ASSUME NEW k \in S, \A l \in S : k <= l PROVE Begins(A, out'[k].audio)
    BY <1>2, <1>3, <1>4, <2>1 DEF SlicesMeet
  <2>2. ASSUME NEW k \in S, NEW l \in S, k < l, \A m \in S : m <= k \/ l <= m
        PROVE  Meet(A, out'[k].audio, out'[l].audio)
    BY <1>2, <1>3, <1>4, <2>2 DEF SlicesMeet
  <2>3. QED
    BY <1>2, <2>1, <2>2 DEF SlicesMeet
<1>5. ASSUME NEW p \in Nat, GoesOnAt(p) PROVE GoesOnAt(p)'
  <2>1. CASE SlicePlaces = {} /\ p = 0 /\ audioBuf.startIdx = 0
    BY <2>1 DEF GoesOnAt
  <2>2. CASE \E k \in S, i, j \in DOMAIN A :
          /\ \A l \in S : l <= k
          /\ IsRun(A, out[k].audio.buffers, i, j)
          /\ p + 1 = NextBuffer(out[k].audio, j) /\ audioBuf.startIdx = NextByte(out[k].audio)
          /\ out[k].audio.end # None => ReachesInto(k, j)
    <3>1. PICK k \in S, i, j \in DOMAIN A :
          /\ \A l \in S : l <= k
          /\ IsRun(A, out[k].audio.buffers, i, j)
          /\ p + 1 = NextBuffer(out[k].audio, j) /\ audioBuf.startIdx = NextByte(out[k].audio)
          /\ out[k].audio.end # None => ReachesInto(k, j)
      BY <2>2
    <3>2. out'[k] = out[k]
      BY <1>3
    <3>3. ReachesInto(k, j) => ReachesInto(k, j)'
      BY <1>2, <3>2 DEF ReachesInto, AudioStart
    <3>4. /\ \A l \in SlicePlaces' : l <= k
          /\ IsRun(Stream("audio")', out'[k].audio.buffers, i, j)
          /\ p + 1 = NextBuffer(out'[k].audio, j) /\ audioBuf'.startIdx = NextByte(out'[k].audio)
          /\ out'[k].audio.end # None => ReachesInto(k, j)'
      BY <1>2, <3>1, <3>2, <3>3
    <3>5. k \in SlicePlaces' /\ i \in DOMAIN Stream("audio")' /\ j \in DOMAIN Stream("audio")'
      BY <1>2
    <3>6. QED
      BY <3>4, <3>5 DEF GoesOnAt
  <2>3. QED
    BY <1>2, <1>5, <2>1, <2>2 DEF GoesOnAt
<1>6. QED
  BY <1>4, <1>5

(* A step that leaves what was pulled of the audio and what was returned.   *)
LEMMA LeavesAudio ==
  ASSUME AudioInv, UNCHANGED <<source, audioBuf>>,
         FramePlaces \subseteq FramePlaces', SlicePlaces' = SlicePlaces,
         \A k \in FramePlaces : out'[k] = out[k],
         Active' => Active /\ AudioWaits' /\ AudioPulled' = AudioPulled
  PROVE  AudioInv'
<1>1. /\ SlicesMeet => SlicesMeet'
      /\ \A p \in Nat : GoesOnAt(p) => GoesOnAt(p)'
  <2>1. \A k \in SlicePlaces : out'[k] = out[k]
    BY DEF SlicePlaces
  <2>2. QED
    BY <2>1, KeepsSlices
<1>2. ASSUME Active' PROVE AudioShifted' /\ \A p \in Nat : KeptFrom(p) => KeptFrom(p)'
  BY <1>2 DEF AudioInv, AudioShifted, AudioStart, KeptFrom, Stream
<1>3. ASSUME Active' PROVE AudioHeld'
  <2>1. PICK p \in Nat : KeptFrom(p) /\ GoesOnAt(p)
    BY <1>1, <1>3 DEF AudioInv, AudioHeld
  <2>2. KeptFrom(p)' /\ GoesOnAt(p)'
    BY <1>1, <1>2, <1>3, <2>1
  <2>3. QED
    BY <2>2 DEF AudioHeld
<1>4. audioBuf' \in AudioState
  BY DEF AudioInv
<1>5. ASSUME Active' PROVE Drained'
  <2>1. Drained /\ AudioPulled' = AudioPulled
    BY <1>5 DEF AudioInv
  <2>2. \A k \in FramePlaces : \A j : Outlasts(k, j) => Outlasts(k, j)' /\ k \in FramePlaces'
    BY DEF Outlasts, AudioStart, Stream
  <2>3. QED
    BY <2>1, <2>2 DEF Drained
<1>6. QED
  BY <1>1, <1>2, <1>3, <1>4, <1>5 DEF AudioInv

(* The same, as long as the audio sink is not touched while frames are to   *)
(* come.                                                                    *)
LEMMA LeavesAudioSink ==
  ASSUME AudioInv, UNCHANGED <<source, audioBuf>>,
         FramePlaces \subseteq FramePlaces', SlicePlaces' = SlicePlaces,
         \A k \in FramePlaces : out'[k] = out[k],
         Active' => /\ Active /\ sent'["audio"] = sent["audio"]
                    /\ queue'["audio"] = queue["audio"]
  PROVE  AudioInv'
<1>1. ASSUME Active' PROVE Active /\ AudioWaits' /\ AudioPulled' = AudioPulled
  <2>1. AudioPulled' = AudioPulled /\ AudioWaits
    BY <1>1 DEF AudioPulled, AudioInv
  <2>2. QED
    BY <1>1, <2>1 DEF AudioWaits, Stream
<1>2. QED
  BY <1>1, LeavesAudio

(* A buffer is delivered: it comes after those that wait.                   *)
LEMMA DeliverSampleAudio ==
  ASSUME PullInv, AudioInv, NEW k \in Sink, DeliverSample(k)
  PROVE  AudioInv'
<1>1. Typed /\ source \in Sources
  BY DEF PullInv, IterInv, Pulling
<1>2. /\ sent[k] < Len(Stream(k)) /\ sent' = [sent EXCEPT ![k] = @ + 1]
      /\ queue' = [queue EXCEPT ![k] = Append(@, sent[k] + 1)]
      /\ UNCHANGED <<source, pc, fused, audioBuf, out>>
  BY DEF DeliverSample, iterVars
<1>3. Active' = Active
  BY <1>2 DEF Active
<1>4. SlicePlaces' = SlicePlaces /\ FramePlaces' = FramePlaces /\ out' = out
  BY <1>2 DEF SlicePlaces, FramePlaces
<1>5. CASE k = "audio"
  <2>1. PICK q, s : q = queue["audio"] /\ s = sent["audio"]
    OBVIOUS
  <2>2. q \in Seq(Nat) /\ s \in Nat
    BY <1>1, <2>1 DEF Typed, Sink
  <2>3. queue'["audio"] = Append(q, s + 1) /\ sent'["audio"] = s + 1
    BY <1>1, <1>2, <1>5, <2>1 DEF Typed
  <2>4. PICK n \in Nat : n = Len(q) /\ DOMAIN q = 1..n
    BY <2>2
  <2>5. PICK p : p = Append(q, s + 1)
    OBVIOUS
  <2>6. Len(p) = n + 1 /\ DOMAIN p = 1..(n + 1) /\ p[n + 1] = s + 1
        /\ \A j \in 1..n : p[j] = q[j]
    BY <2>2, <2>4, <2>5
  <2>7. queue'["audio"] = p
    BY <2>3, <2>5
  <2>8. AudioPulled' = s - n /\ AudioPulled = s - n
    <3>1. AudioPulled' = (s + 1) - (n + 1)
      BY <2>3, <2>6, <2>7 DEF AudioPulled
    <3>2. AudioPulled = s - n
      BY <2>1, <2>4 DEF AudioPulled
    <3>3. QED
      BY <2>2, <2>4, <3>1, <3>2
  <2>9. PICK l \in Nat : l = Len(Stream("audio"))
    BY <1>1, AudioFields
  <2>10. Len(Stream("audio"))' = l
    BY <1>2, <2>9 DEF Stream
  <2>11. ASSUME Active' PROVE AudioWaits'
    <3>1. n <= s /\ \A j \in 1..n : q[j] = (s - n) + j
      <4>1. AudioWaits
        BY <1>3, <2>11 DEF AudioInv
      <4>2. QED
        BY <2>1, <2>4, <2>8, <4>1 DEF AudioWaits
    <3>2. s + 1 \in 0..l
      <4>1. s < l
        BY <1>2, <1>5, <2>1, <2>9
      <4>2. QED
        BY <2>2, <2>9, <4>1
    <3>3. \A j \in 1..(n + 1) : p[j] = (s - n) + j
      <4>1. \A j \in 1..(n + 1) : j \in 1..n \/ j = n + 1
        BY <2>4
      <4>2. (s - n) + (n + 1) = s + 1
        BY <2>2, <2>4
      <4>3. QED
        BY <2>6, <3>1, <4>1, <4>2
    <3>4. Len(p) <= s + 1
      BY <2>2, <2>4, <2>6, <3>1
    <3>5. QED
      BY <2>3, <2>6, <2>7, <2>8, <2>10, <3>2, <3>3, <3>4 DEF AudioWaits
  <2>12. AudioPulled' = AudioPulled
    BY <2>8
  <2>13. QED
    BY <1>2, <1>3, <1>4, <2>11, <2>12, LeavesAudio
<1>6. CASE k # "audio"
  <2>1. sent'["audio"] = sent["audio"] /\ queue'["audio"] = queue["audio"]
    BY <1>1, <1>2, <1>6 DEF Typed, Sink
  <2>2. QED
    BY <1>2, <1>3, <1>4, <2>1, LeavesAudioSink
<1>7. QED
  BY <1>5, <1>6

(* A step that leaves the audio and what was returned alone.                *)
LEMMA AroundAudio ==
  ASSUME PullInv, AudioInv,
         \/ (\E k \in Sink : DeliverEos(k)) \/ (\E isError \in BOOLEAN : PostMessage(isError))
         \/ PadAdded \/ NextFused \/ NextBegin \/ CheckAudio \/ PullVideo \/ UNCHANGED vars
  PROVE  AudioInv'
<1>1. Typed
  BY DEF PullInv, IterInv
<1>2. UNCHANGED <<source, sent, fused, audioBuf, out>>
  BY DEF DeliverEos, PostMessage, PadAdded, NextFused, NextBegin, CheckAudio, PullVideo,
         vars, gstVars, iterVars
<1>3. Active' => Active
  <2>1. CASE PullVideo
    BY <2>1 DEF PullVideo, Active
  <2>2. CASE ~ PullVideo
    <3>1. \/ pc' = pc
          \/ pc = "new" /\ pc' = "aborted"
          \/ pc = "idle" /\ fused /\ pc' = "ended"
          \/ pc = "idle" /\ ~ fused /\ pc' = "video"
          \/ pc = "check" /\ pc' \in {"yield", "audio"}
      BY <2>2 DEF DeliverEos, PostMessage, PadAdded, NextFused, NextBegin, CheckAudio,
                  vars, gstVars, iterVars
    <3>2. QED
      BY <1>2, <3>1 DEF Active
  <2>3. QED
    BY <2>1, <2>2
<1>4. queue'["audio"] = queue["audio"]
  <2>1. CASE UNCHANGED queue
    BY <2>1
  <2>2. CASE queue' = [queue EXCEPT !["video"] = Tail(@)]
    BY <1>1, <2>2 DEF Typed, Sink
  <2>3. QED
    BY <2>1, <2>2 DEF DeliverEos, PostMessage, PadAdded, NextFused, NextBegin, CheckAudio,
                      PullVideo, vars, gstVars, iterVars
<1>5. SlicePlaces' = SlicePlaces /\ FramePlaces' = FramePlaces /\ out' = out
  BY <1>2 DEF SlicePlaces, FramePlaces
<1>6. QED
  BY <1>2, <1>3, <1>4, <1>5, LeavesAudioSink

(* The pipeline is opened or dropped.                                       *)
LEMMA OpenDropAudio ==
  ASSUME PullInv, AudioInv, OpenPipeline \/ Drop
  PROVE  AudioInv'
<1>1. UNCHANGED <<source, sent, fused, audioBuf, out>>
  BY DEF OpenPipeline, Drop
<1>2. Active' => Active /\ queue'["audio"] = queue["audio"]
  <2>1. CASE Drop
    <3>1. pc \in Droppable /\ pc' \in {"dropped", "leaked"}
      BY <2>1 DEF Drop
    <3>2. QED
      BY <3>1 DEF Active, Droppable
  <2>2. CASE OpenPipeline
    <3>1. PICK o \in Open(source.offset, MayFail) :
            /\ SetGst(o.state)
            /\ pc' = CASE o.res = "ok" -> "idle" [] o.res = "error" -> "failed"
                       [] o.res = "panic" -> "panicked"
      BY <2>2 DEF OpenPipeline
    <3>2. o \in Outcome /\ (o.res = "ok" => o.state = "Playing")
      <4>1. PICK offset, mayFail : offset = source.offset /\ mayFail = MayFail
        OBVIOUS
      <4>2. o \in Open(offset, mayFail)
        BY <3>1, <4>1
      <4>3. QED
        BY <4>2, OpenPlays
    <3>3. (o.res = "ok" /\ pc' = "idle") \/ pc' \in {"failed", "panicked"}
      BY <3>1, <3>2 DEF Outcome
    <3>4. o.res = "ok" => queue' = queue
      BY <3>1, <3>2 DEF SetGst
    <3>5. pc = "new"
      BY <2>2 DEF OpenPipeline
    <3>6. QED
      BY <3>3, <3>4, <3>5 DEF Active
  <2>3. QED
    BY <2>1, <2>2
<1>3. SlicePlaces' = SlicePlaces /\ FramePlaces' = FramePlaces /\ out' = out
  BY <1>1 DEF SlicePlaces, FramePlaces
<1>4. QED
  BY <1>1, <1>2, <1>3, LeavesAudioSink

(* An error is returned, on the way or at the end.                          *)
LEMMA ErrorAudio ==
  ASSUME PullInv, AudioInv, NextBusError \/ \E k \in Sink : GiveUp(k)
  PROVE  AudioInv'
<1>1. Typed
  BY DEF PullInv, IterInv
<1>2. /\ UNCHANGED <<source, audioBuf>>
      /\ out' = out \/ \E e : out' = Append(out, ErrorItem(e))
      /\ Active' => Active /\ UNCHANGED <<sent, queue>>
  BY DEF NextBusError, GiveUp, Active
<1>3. FramePlaces' = FramePlaces /\ \A k \in FramePlaces : out'[k] = out[k]
  <2>1. CASE out' = out
    BY <2>1 DEF FramePlaces
  <2>2. CASE \E e : out' = Append(out, ErrorItem(e))
    <3>1. PICK x : x.kind = "error" /\ out' = Append(out, x)
      BY <2>2 DEF ErrorItem
    <3>2. QED
      BY <1>1, <3>1, ErrorIsNoFrame DEF Typed
  <2>3. QED
    BY <1>2, <2>1, <2>2
<1>4. SlicePlaces' = SlicePlaces /\ \A k \in SlicePlaces : out'[k] = out[k]
  BY <1>3 DEF SlicePlaces
<1>5. QED
  BY <1>2, <1>3, <1>4, LeavesAudioSink

(* The buffer pulled next is the one after the last, and the others go on   *)
(* waiting.                                                                 *)
LEMMA NextAudioWaits ==
  ASSUME Typed, source \in Sources, AudioWaits, queue["audio"] # <<>>,
         queue' = [queue EXCEPT !["audio"] = Tail(@)], UNCHANGED <<source, sent>>
  PROVE  /\ AudioPulled \in Nat /\ AudioPulled + 1 \in DOMAIN Stream("audio")
         /\ Head(queue["audio"]) = AudioPulled + 1
         /\ AudioPulled' = AudioPulled + 1 /\ AudioWaits'
<1>1. PICK q, s : q = queue["audio"] /\ s = sent["audio"]
  OBVIOUS
<1>2. q \in Seq(Nat) /\ s \in Nat /\ q # <<>>
  BY <1>1 DEF Typed, Sink
<1>3. PICK m \in Nat : m = Len(q) /\ DOMAIN q = 1..m
  BY <1>2
<1>4. m # 0 /\ Head(q) = q[1]
  BY <1>2, <1>3
<1>5. PICK r : r = Tail(q)
  OBVIOUS
<1>6. Len(r) = m - 1 /\ DOMAIN r = 1..(m - 1) /\ \A j \in 1..(m - 1) : r[j] = q[j + 1]
  BY <1>2, <1>3, <1>4, <1>5
<1>7. queue'["audio"] = r /\ sent'["audio"] = s
  BY <1>1, <1>5 DEF Typed, Sink
<1>8. PICK p \in Int : p = s - m
  BY <1>2
<1>9. AudioPulled = p
  BY <1>1, <1>3, <1>8 DEF AudioPulled
<1>10. AudioPulled' = p + 1
  <2>1. AudioPulled' = s - (m - 1)
    BY <1>6, <1>7 DEF AudioPulled
  <2>2. QED
    BY <1>2, <1>8, <2>1
<1>11. PICK A : A = Stream("audio") /\ Len(A) \in Nat /\ DOMAIN A = 1..Len(A)
  BY AudioFields
<1>12. PICK l \in Nat : l = Len(A)
  BY <1>11
<1>13. A = Stream("audio")'
  BY <1>11 DEF Stream
<1>14. m <= s /\ s \in 0..l /\ \A j \in 1..m : q[j] = p + j
  BY <1>1, <1>3, <1>9, <1>11, <1>12 DEF AudioWaits
<1>15. p \in Nat /\ q[1] = p + 1
  BY <1>2, <1>4, <1>8, <1>14
<1>16. p + 1 \in 1..l
  BY <1>2, <1>4, <1>8, <1>11, <1>14, <1>15
<1>17. \A j \in 1..(m - 1) : r[j] = (p + 1) + j
  <2> SUFFICES ASSUME NEW j \in 1..(m - 1) PROVE r[j] = (p + 1) + j
    OBVIOUS
  <2>1. j + 1 \in 1..m /\ p + (j + 1) = (p + 1) + j
    BY <1>4, <1>15
  <2>2. QED
    BY <1>6, <1>14, <2>1
<1>18. m - 1 <= s
  BY <1>2, <1>14
<1>19. AudioWaits'
  BY <1>6, <1>7, <1>10, <1>11, <1>12, <1>13, <1>14, <1>17, <1>18 DEF AudioWaits
<1>20. QED
  BY <1>1, <1>4, <1>9, <1>10, <1>11, <1>12, <1>15, <1>16, <1>19

(* A buffer is pulled: it is kept behind the others, and the first one sets *)
(* by how much the audio is moved.                                          *)
LEMMA PullAudioAudio ==
  ASSUME PullInv, AudioInv, PullAudio
  PROVE  AudioInv'
<1>1. Typed /\ source \in Sources
  BY DEF PullInv, IterInv, Pulling
<1>2. /\ pc = "audio" /\ queue["audio"] # <<>>
      /\ queue' = [queue EXCEPT !["audio"] = Tail(@)]
      /\ audioBuf' = AddSample(audioBuf, source.audio[Head(queue["audio"])])
      /\ UNCHANGED <<source, sent, pc, fused, out>>
  BY DEF PullAudio
<1>3. Active /\ AudioWaits /\ AudioShifted
  BY <1>2 DEF Active, AudioInv
<1>4. PICK A : A = Stream("audio")
  OBVIOUS
<1>5. PICK n \in Nat : n = AudioPulled
  BY <1>1, <1>2, <1>3, NextAudioWaits
<1>6. /\ n + 1 \in DOMAIN A /\ Head(queue["audio"]) = n + 1 /\ AudioPulled' = n + 1 /\ AudioWaits'
  BY <1>1, <1>2, <1>3, <1>4, <1>5, NextAudioWaits
<1>7. A # <<>>
  BY <1>6
<1>8. /\ A = source.audio /\ A[n + 1] \in AudioSample /\ A[n + 1].pts - source.offset \in Nat
      /\ A = Stream("audio")'
  BY <1>1, <1>2, <1>4, <1>5, <1>6, <1>7, AudioFields DEF Stream
<1>9. PICK a, x, b : a = audioBuf /\ x = A[n + 1] /\ b = a.buffer
  OBVIOUS
<1>10. /\ a \in AudioState /\ b \in Seq(AudioSample)
      /\ a = [buffer |-> b, startIdx |-> a.startIdx, shift |-> a.shift, startOffset |-> a.startOffset]
      /\ a.startIdx \in Nat /\ a.startOffset = source.offset /\ a.startOffset \in Nat
  BY <1>3, <1>9 DEF AudioInv, AudioState, AudioShifted
<1>11. PICK t \in Nat : t = IF a.shift = None THEN x.pts - source.offset ELSE a.shift
  <2>1. a.shift \in Nat \cup {None}
    BY <1>10 DEF AudioState
  <2>2. QED
    BY <1>8, <1>9, <2>1
<1>12. audioBuf' = [buffer |-> Append(b, x), startIdx |-> a.startIdx, shift |-> t,
                    startOffset |-> a.startOffset]
  <2>1. audioBuf' = [a EXCEPT !.buffer = Append(@, x),
                              !.shift = IF @ = None THEN x.pts - a.startOffset ELSE @]
    BY <1>2, <1>6, <1>8, <1>9 DEF AddSample
  <2>2. t = IF a.shift = None THEN x.pts - a.startOffset ELSE a.shift
    BY <1>10, <1>11
  <2>3. audioBuf' = [a EXCEPT !.buffer = Append(b, x), !.shift = t]
    BY <1>9, <2>1, <2>2
  <2>4. QED
    BY <1>10, <2>3
<1>13. audioBuf' \in AudioState
  <2>1. Append(b, x) \in Seq(AudioSample)
    BY <1>8, <1>9, <1>10
  <2>2. QED
    BY <1>10, <1>12, <2>1 DEF AudioState
<1>14. AudioShifted'
  <2>1. a.shift = IF n = 0 THEN None ELSE A[1].pts - source.offset
    BY <1>3, <1>4, <1>5, <1>9 DEF AudioShifted, AudioStart
  <2>2. t = A[1].pts - source.offset
    <3>1. CASE n = 0
      BY <1>9, <1>11, <2>1, <3>1
    <3>2. CASE n # 0
      <4>1. A[1].pts - source.offset \in Nat
        <5>1. 1 \in DOMAIN A
          BY <1>1, <1>4, <1>5, <1>6, <3>2, AudioFields
        <5>2. QED
          BY <1>1, <1>4, <1>5, <5>1, AudioFields
      <4>2. a.shift # None
        BY <2>1, <3>2, <4>1, AudioAssumption
      <4>3. QED
        BY <1>11, <2>1, <3>2, <4>2
    <3>3. QED
      BY <3>1, <3>2
  <2>3. n + 1 # 0
    BY <1>4, <1>5
  <2>4. QED
    BY <1>2, <1>6, <1>8, <1>10, <1>12, <2>2, <2>3 DEF AudioShifted, AudioStart
<1>15. SlicePlaces' = SlicePlaces /\ \A k \in SlicePlaces : out'[k] = out[k]
  BY <1>2 DEF SlicePlaces, FramePlaces
<1>16. audioBuf'.startIdx = audioBuf.startIdx
  BY <1>9, <1>12
<1>17. /\ SlicesMeet => SlicesMeet'
       /\ \A p \in Nat : GoesOnAt(p) => GoesOnAt(p)'
  BY <1>2, <1>15, <1>16, KeepsSlices
<1>18. ASSUME NEW p \in Nat, KeptFrom(p) PROVE KeptFrom(p)'
  <2>1. p <= n /\ Len(b) = n - p /\ \A i \in 1..(n - p) : b[i] = A[p + i]
    BY <1>4, <1>5, <1>9, <1>18 DEF KeptFrom
  <2>2. PICK c : c = Append(b, x)
    OBVIOUS
  <2>3. PICK m \in Nat : m = n - p
    BY <1>4, <1>5, <2>1
  <2>4. Len(b) = m /\ DOMAIN b = 1..m
    BY <1>10, <2>1, <2>3
  <2>5. Len(c) = m + 1 /\ c[m + 1] = x /\ \A i \in 1..m : c[i] = b[i]
    BY <1>8, <1>9, <1>10, <2>2, <2>4
  <2>6. \A i \in 1..m : c[i] = A[p + i]
    BY <2>1, <2>3, <2>5
  <2>7. c[m + 1] = A[p + (m + 1)]
    <3>1. p + (m + 1) = n + 1
      BY <1>4, <1>5, <2>3
    <3>2. QED
      BY <1>9, <2>5, <3>1
  <2>8. \A i \in 1..(m + 1) : c[i] = A[p + i]
    <3>1. \A i \in 1..(m + 1) : i \in 1..m \/ i = m + 1
      BY <2>3
    <3>2. QED
      BY <2>6, <2>7, <3>1
  <2>9. (n + 1) - p = m + 1 /\ p \in 0..(n + 1)
    BY <1>4, <1>5, <2>1, <2>3
  <2>10. audioBuf'.buffer = c
    BY <1>12, <2>2
  <2>11. QED
    BY <1>6, <1>8, <2>5, <2>8, <2>9, <2>10 DEF KeptFrom
<1>19. Active' = Active
  BY <1>2 DEF Active
<1>20. AudioHeld'
  BY <1>3, <1>17, <1>18 DEF AudioInv, AudioHeld
<1>21. Drained'
  <2>1. PICK c : c = Append(b, x)
    OBVIOUS
  <2>2. Len(c) # 0
    BY <1>8, <1>9, <1>10, <2>1
  <2>3. c # <<>>
    BY <2>2
  <2>4. QED
    BY <1>12, <2>1, <2>3 DEF Drained
<1>22. QED
  BY <1>3, <1>6, <1>13, <1>14, <1>17, <1>19, <1>20, <1>21 DEF AudioInv

(* A frame with a slice that is none, or empty, adds no slice.              *)
LEMMA ReturnsNoSlice ==
  ASSUME Typed, NEW x, x.kind = "frame", x.audio = None \/ x.audio.buffers = <<>>,
         out' = Append(out, x)
  PROVE  /\ SlicePlaces' = SlicePlaces /\ FramePlaces \subseteq FramePlaces'
         /\ \A k \in FramePlaces : out'[k] = out[k]
<1>1. PICK K \in Nat :
         /\ FramePlaces' = FramePlaces \cup {K} /\ out'[K] = x
         /\ FramePlaces \in SUBSET Nat /\ IsFiniteSet(FramePlaces)
         /\ \A k \in FramePlaces : k < K /\ out'[k] = out[k]
  BY ReturnsFrame DEF Typed
<1>2. \A k \in FramePlaces' : k \in FramePlaces \/ k = K
  BY <1>1
<1>3. K \notin SlicePlaces'
  BY <1>1 DEF SlicePlaces
<1>4. \A k \in FramePlaces : out'[k].audio = out[k].audio /\ k \in FramePlaces'
  BY <1>1
<1>5. \A k \in FramePlaces : k \in SlicePlaces' <=> k \in SlicePlaces
  BY <1>4 DEF SlicePlaces
<1>6. SlicePlaces \subseteq FramePlaces /\ SlicePlaces' \subseteq FramePlaces'
  BY DEF SlicePlaces
<1>7. QED
  BY <1>1, <1>2, <1>3, <1>5, <1>6

(* One with a slice adds it behind all others.                              *)
LEMMA ReturnsSlice ==
  ASSUME Typed, NEW x, x.kind = "frame", x.audio # None, x.audio.buffers # <<>>,
         out' = Append(out, x)
  PROVE  \E K \in Nat :
           /\ SlicePlaces' = SlicePlaces \cup {K} /\ out'[K] = x
           /\ SlicePlaces \in SUBSET Nat
           /\ \A k \in SlicePlaces : k < K /\ out'[k] = out[k]
<1>1. PICK K \in Nat :
         /\ FramePlaces' = FramePlaces \cup {K} /\ out'[K] = x
         /\ FramePlaces \in SUBSET Nat /\ IsFiniteSet(FramePlaces)
         /\ \A k \in FramePlaces : k < K /\ out'[k] = out[k]
  BY ReturnsFrame DEF Typed
<1>2. \A k \in FramePlaces' : k \in FramePlaces \/ k = K
  BY <1>1
<1>3. K \in SlicePlaces'
  BY <1>1 DEF SlicePlaces
<1>4. \A k \in FramePlaces : out'[k].audio = out[k].audio /\ k \in FramePlaces'
  BY <1>1
<1>5. \A k \in FramePlaces : k \in SlicePlaces' <=> k \in SlicePlaces
  BY <1>4 DEF SlicePlaces
<1>6. SlicePlaces \subseteq FramePlaces /\ SlicePlaces' \subseteq FramePlaces'
  BY DEF SlicePlaces
<1>7. SlicePlaces' = SlicePlaces \cup {K}
  BY <1>2, <1>3, <1>5, <1>6
<1>8. QED
  BY <1>1, <1>6, <1>7

(* The next slice meets the one before it.                                  *)
LEMMA SliceMeetsLast ==
  ASSUME NEW A, A = Stream("audio"), A = Stream("audio")', NEW K \in Nat, NEW p \in Nat,
         SlicePlaces' = SlicePlaces \cup {K}, SlicePlaces \in SUBSET Nat,
         \A k \in SlicePlaces : k < K /\ out'[k] = out[k],
         SlicesMeet, GoesOnAt(p),
         out'[K].audio.start = audioBuf.startIdx,
         NEW j \in DOMAIN A, IsRun(A, out'[K].audio.buffers, p + 1, j)
  PROVE  SlicesMeet'
<1>1. PICK S : S = SlicePlaces /\ S \in SUBSET Nat /\ SlicePlaces' = S \cup {K}
  OBVIOUS
<1>2. PICK t : t = out'[K].audio
  OBVIOUS
<1>3. \A k \in S : k \in Nat /\ k < K /\ out'[k] = out[k] /\ k # K /\ ~ (K < k) /\ ~ (K <= k)
  BY <1>1
<1>4. ASSUME NEW k \in SlicePlaces', \A l \in SlicePlaces' : k <= l
      PROVE  Begins(A, out'[k].audio)
  <2>1. \A l \in S : k <= l
    BY <1>1, <1>4
  <2>2. CASE k \in S
    <3>1. Begins(A, out[k].audio)
      BY <1>1, <2>1, <2>2 DEF SlicesMeet
    <3>2. QED
      BY <1>3, <2>2, <3>1
  <2>3. CASE k = K
    <3>1. S = {}
      BY <1>3, <2>1, <2>3
    <3>2. p = 0 /\ audioBuf.startIdx = 0
      BY <1>1, <3>1 DEF GoesOnAt
    <3>3. t.start = 0 /\ IsRun(A, t.buffers, 1, j)
      BY <1>2, <3>2
    <3>4. QED
      BY <1>2, <2>3, <3>3 DEF Begins
  <2>4. QED
    BY <1>1, <2>2, <2>3
<1>5. ASSUME NEW k \in SlicePlaces', NEW l \in SlicePlaces', k < l,
             \A m \in SlicePlaces' : m <= k \/ l <= m
      PROVE  Meet(A, out'[k].audio, out'[l].audio)
  <2>1. \A m \in S : m <= k \/ l <= m
    BY <1>1, <1>5
  <2>2. ~ (K < K)
    OBVIOUS
  <2>3. k \in S
    <3>1. CASE k = K
      <4>1. l \in S \/ l = K
        BY <1>1
      <4>2. QED
        BY <1>3, <1>5, <2>2, <3>1, <4>1
    <3>2. QED
      BY <1>1, <3>1
  <2>4. CASE l \in S
    <3>1. Meet(A, out[k].audio, out[l].audio)
      BY <1>1, <1>5, <2>1, <2>3, <2>4 DEF SlicesMeet
    <3>2. QED
      BY <1>3, <2>3, <2>4, <3>1
  <2>5. CASE l = K
    <3>1. \A m \in S : m <= k
      BY <1>3, <2>1, <2>5
    <3>2. PICK h \in S, i \in DOMAIN A, f \in DOMAIN A :
            /\ \A m \in S : m <= h
            /\ IsRun(A, out[h].audio.buffers, f, i)
            /\ p + 1 = NextBuffer(out[h].audio, i) /\ audioBuf.startIdx = NextByte(out[h].audio)
      BY <1>1, <2>3 DEF GoesOnAt
    <3>3. h = k
      <4>1. h \in Nat /\ k \in Nat /\ h <= k /\ k <= h
        BY <1>3, <2>3, <3>1, <3>2
      <4>2. QED
        BY <4>1
    <3>4. PICK s : s = out[k].audio /\ s = out'[k].audio
      BY <1>3, <2>3
    <3>5. /\ t.start = NextByte(s)
          /\ IsRun(A, s.buffers, f, i) /\ IsRun(A, t.buffers, NextBuffer(s, i), j)
      BY <1>2, <3>2, <3>3, <3>4
    <3>6. Meet(A, s, t)
      BY <3>5 DEF Meet
    <3>7. QED
      BY <1>2, <2>5, <3>4, <3>6
  <2>6. QED
    BY <1>1, <2>4, <2>5
<1>6. QED
  BY <1>4, <1>5 DEF SlicesMeet

(* The frame at hand comes as much later than one that was returned as it   *)
(* does in the video.                                                       *)
LEMMA HeldIsLater ==
  ASSUME PullInv, Regular, pc \in {"yield", "audio"}
  PROVE  /\ held # None /\ held.n \in DOMAIN source.video /\ held.ts \in Int
         /\ \A k \in FramePlaces :
               /\ out[k].n \in DOMAIN source.video /\ out[k].n < held.n /\ out[k].ts \in Int
               /\ out[k].ts + source.video[held.n].pts = held.ts + source.video[out[k].n].pts
<1>1. source \in Sources /\ HoldsPulled /\ Progress /\ FramesExact /\ held # None /\ Held = 1
  BY DEF PullInv, Pulling, Active, Held
<1>2. /\ DOMAIN source.video = 1..Len(source.video) /\ Len(source.video) \in Nat
      /\ source.offset \in Nat /\ \A n \in DOMAIN source.video : source.video[n].pts \in Nat
  BY <1>1, SourceFields
<1>3. PICK p, f : p = Pulled /\ f = First
  OBVIOUS
<1>4. /\ held.n = p /\ p \in DOMAIN source.video /\ shift \in Nat
      /\ held.ts = source.video[p].pts - shift
      /\ \A k \in FramePlaces : out[k].n \in 1..(p - 1)
  BY <1>1, <1>3 DEF HoldsPulled
<1>5. p \in Nat /\ p <= Len(source.video) /\ f \in 1..(Len(source.video) + 1)
  BY <1>1, <1>2, <1>3, <1>4, FirstIsUncut
<1>6. held.ts \in Int
  BY <1>2, <1>4
<1>7. ASSUME NEW k \in FramePlaces
      PROVE  /\ out[k].n \in DOMAIN source.video /\ out[k].n < held.n /\ out[k].ts \in Int
             /\ out[k].ts + source.video[held.n].pts = held.ts + source.video[out[k].n].pts
  <2>1. PICK n \in Nat : n = out[k].n /\ 1 <= n /\ n < p
    BY <1>4, <1>5
  <2>2. n \in DOMAIN source.video
    BY <1>2, <1>5, <2>1
  <2>3. /\ n = f + Cardinality({ j \in FramePlaces : j < k })
        /\ out[k].ts = source.offset + source.video[n].pts - source.video[f].pts
    BY <1>1, <1>3, <2>1 DEF FramesExact
  <2>4. f <= n
    <3>1. IsFiniteSet({ j \in FramePlaces : j < k })
      <4>1. out \in Seq(Returned)
        BY DEF PullInv, IterInv, Typed
      <4>2. PICK R : R = Returned
        OBVIOUS
      <4>3. DOMAIN out = 1..Len(out) /\ Len(out) \in Nat
        BY <4>1, <4>2
      <4>4. IsFiniteSet(1..Len(out))
        BY <4>3, FS_Interval
      <4>5. { j \in FramePlaces : j < k } \subseteq 1..Len(out)
        BY <4>3 DEF FramePlaces
      <4>6. QED
        BY <4>4, <4>5, FS_Subset
    <3>2. PICK c \in Nat : c = Cardinality({ j \in FramePlaces : j < k })
      BY <3>1, FS_CardinalityType
    <3>3. QED
      BY <1>5, <2>1, <2>3, <3>2
  <2>5. f \in DOMAIN source.video
    BY <1>2, <1>5, <2>1, <2>4
  <2>6. shift = source.video[f].pts - source.offset
    <3>1. ~ (p < f)
      BY <1>5, <2>1, <2>4
    <3>2. QED
      BY <1>1, <1>3, <3>1 DEF Progress
  <2>7. PICK x \in Nat, y \in Nat, z \in Nat, o \in Nat :
          /\ x = source.video[n].pts /\ y = source.video[f].pts /\ z = source.video[p].pts
          /\ o = source.offset
    BY <1>2, <1>4, <2>2, <2>5
  <2>8. out[k].ts = o + x - y /\ held.ts = z - (y - o)
    BY <1>4, <2>3, <2>6, <2>7
  <2>9. out[k].ts \in Int /\ out[k].ts + z = held.ts + x
    BY <2>7, <2>8
  <2>10. QED
    BY <1>4, <2>1, <2>2, <2>7, <2>9
<1>8. QED
  BY <1>1, <1>4, <1>6, <1>7

(* A slice that is not empty begins where the last one ended; no audio is   *)
(* repeated behind one that is.                                             *)
LEMMA EmptySliceKeeps ==
  ASSUME PullInv, Regular, pc \in {"yield", "audio"}, NEW p \in Nat, GoesOnAt(p),
         Stream("audio")[p + 1].pts \in Nat, AudioStart \in Nat, NEW x \in Nat, x < Slack \/ x = 0,
         FrameEnd + AudioStart = Stream("audio")[p + 1].pts + x
  PROVE  audioBuf.startIdx = 0
<1>1. SUFFICES ASSUME audioBuf.startIdx # 0 PROVE FALSE
  OBVIOUS
<1>2. PICK k \in SlicePlaces, j \in DOMAIN Stream("audio") :
         /\ p + 1 = NextBuffer(out[k].audio, j) /\ audioBuf.startIdx = NextByte(out[k].audio)
         /\ out[k].audio.end # None => ReachesInto(k, j)
  BY <1>1 DEF GoesOnAt
<1>3. out[k].audio.end # None
  BY <1>1, <1>2 DEF NextByte
<1>4. p + 1 = j /\ ReachesInto(k, j)
  BY <1>2, <1>3 DEF NextBuffer
<1>5. k \in FramePlaces
  BY DEF SlicePlaces
<1>6. /\ held.n \in DOMAIN source.video /\ held.ts \in Int
      /\ out[k].n \in DOMAIN source.video /\ out[k].n < held.n /\ out[k].ts \in Int
      /\ out[k].ts + source.video[held.n].pts = held.ts + source.video[out[k].n].pts
  BY <1>5, HeldIsLater
<1>7. PICK a \in Nat, s \in Nat, v \in Nat, w \in Nat, t \in Int, u \in Int :
         /\ a = Stream("audio")[j].pts /\ s = AudioStart /\ v = source.video[out[k].n].pts
         /\ w = source.video[held.n].pts /\ t = out[k].ts /\ u = held.ts
  BY <1>4, <1>6, SourceFields DEF PullInv, Pulling
<1>8. a + v + Slack < t + FrameTime + s + w
  BY <1>4, <1>6, <1>7 DEF ReachesInto
<1>9. t + w = u + v /\ u + FrameTime + s = a + x
  BY <1>4, <1>6, <1>7 DEF FrameEnd
<1>10. FrameTime \in Nat /\ Slack \in Nat
  BY IterAssumption, AudioAssumption
<1>11. QED
  BY <1>7, <1>8, <1>9, <1>10

(* Frames are to come, or the iterator goes on after it has returned one:   *)
(* nothing but what AudioBuffer holds is new.                               *)
LEMMA YieldRest ==
  ASSUME PullInv, AudioInv, pc \in {"yield", "audio"}, UNCHANGED <<source, sent, queue>>,
         SlicesMeet', audioBuf' \in AudioState,
         audioBuf'.shift = audioBuf.shift, audioBuf'.startOffset = audioBuf.startOffset,
         Drained', NEW p \in Nat, KeptFrom(p)', GoesOnAt(p)'
  PROVE  AudioInv'
<1>1. AudioWaits /\ AudioShifted
  BY DEF AudioInv, Active
<1>2. AudioPulled' = AudioPulled
  BY DEF AudioPulled
<1>3. AudioWaits' /\ AudioShifted'
  BY <1>1, <1>2 DEF AudioWaits, AudioShifted, AudioStart, Stream
<1>4. AudioHeld'
  BY DEF AudioHeld
<1>5. QED
  BY <1>3, <1>4 DEF AudioInv

(* What is held, of the stream.                                             *)
LEMMA HeldBuffers ==
  ASSUME PullInv, AudioInv, AudioGoesOn(source), pc \in {"yield", "audio"},
         NEW p \in Nat, KeptFrom(p), audioBuf.buffer # <<>>
  PROVE  /\ audioBuf.shift = AudioStart /\ AudioStart \in Nat
         /\ p + 1 \in DOMAIN Stream("audio") /\ audioBuf.buffer[1] = Stream("audio")[p + 1]
         /\ Stream("audio")[p + 1].pts \in Nat /\ Stream("audio")[p + 1].dur \in Nat \ {0}
         /\ AudioPulled \in Nat /\ 1..AudioPulled \subseteq DOMAIN Stream("audio")
<1>1. source \in Sources
  BY DEF PullInv, Pulling
<1>2. AudioWaits /\ AudioShifted /\ audioBuf \in AudioState
  BY DEF AudioInv, Active
<1>3. PICK A : A = Stream("audio")
  OBVIOUS
<1>4. PICK l \in Nat : l = Len(A) /\ DOMAIN A = 1..l
  BY <1>1, <1>3, AudioFields
<1>5. PICK b : b = audioBuf.buffer
  OBVIOUS
<1>6. Len(b) \in Nat /\ Len(b) # 0
  BY <1>2, <1>5 DEF AudioState
<1>7. PICK s \in Nat, q \in Nat : s = sent["audio"] /\ q = Len(queue["audio"]) /\ q <= s /\ s <= l
  <2>1. sent["audio"] \in Nat /\ queue["audio"] \in Seq(Nat)
    BY DEF PullInv, IterInv, Typed, Sink
  <2>2. Len(queue["audio"]) \in Nat
    BY <2>1
  <2>3. QED
    BY <1>2, <1>3, <1>4, <2>1, <2>2 DEF AudioWaits
<1>8. PICK n \in Nat : n = AudioPulled /\ n <= l
  BY <1>7 DEF AudioPulled
<1>9. p \in 0..n /\ Len(b) = n - p /\ \A i \in 1..(n - p) : b[i] = A[p + i]
  BY <1>3, <1>5, <1>8 DEF KeptFrom
<1>10. n # 0 /\ 1 \in 1..(n - p) /\ p + 1 \in 1..l /\ 1 \in 1..l
  BY <1>6, <1>8, <1>9
<1>11. b[1] = A[p + 1]
  BY <1>9, <1>10
<1>12. audioBuf.shift = AudioStart
  BY <1>2, <1>8, <1>10 DEF AudioShifted
<1>13. A # <<>>
  BY <1>4, <1>10
<1>14. /\ A = source.audio /\ source.audio # None
       /\ A[p + 1].pts \in Nat /\ A[p + 1].dur \in Nat /\ A[1].pts - source.offset \in Nat
  BY <1>1, <1>3, <1>4, <1>10, <1>13, AudioFields
<1>15. A[p + 1].dur # 0
  BY <1>4, <1>10, <1>14 DEF AudioGoesOn
<1>16. QED
  BY <1>3, <1>4, <1>5, <1>8, <1>10, <1>11, <1>12, <1>14, <1>15 DEF AudioStart

(* The buffers behind the cut stay.                                         *)
LEMMA RestIsKept ==
  ASSUME NEW p \in Nat, KeptFrom(p), NEW w \in Nat, w <= Len(audioBuf.buffer),
         AudioPulled \in Nat, UNCHANGED <<source, sent, queue>>,
         Len(audioBuf'.buffer) = Len(audioBuf.buffer) - w,
         \A i \in 1..(Len(audioBuf.buffer) - w) : audioBuf'.buffer[i] = audioBuf.buffer[w + i]
  PROVE  KeptFrom(p + w)'
<1>1. PICK A, b, c : A = Stream("audio") /\ b = audioBuf.buffer /\ c = audioBuf'.buffer
  OBVIOUS
<1>2. PICK n \in Nat : n = AudioPulled
  OBVIOUS
<1>3. p \in 0..n /\ Len(b) = n - p /\ \A i \in 1..(n - p) : b[i] = A[p + i]
  BY <1>1, <1>2 DEF KeptFrom
<1>4. A = Stream("audio")' /\ n = AudioPulled'
  BY <1>1, <1>2 DEF Stream, AudioPulled
<1>5. w <= n - p /\ Len(c) = (n - p) - w /\ \A i \in 1..((n - p) - w) : c[i] = b[w + i]
  BY <1>1, <1>3
<1>6. p + w \in 0..n /\ (n - p) - w = n - (p + w)
  BY <1>3, <1>5
<1>7. ASSUME NEW i \in 1..(n - (p + w)) PROVE c[i] = A[(p + w) + i]
  <2>1. w + i \in 1..(n - p) /\ p + (w + i) = (p + w) + i /\ i \in 1..((n - p) - w)
    BY <1>3, <1>5, <1>6
  <2>2. QED
    BY <1>3, <1>5, <2>1
<1>8. QED
  BY <1>1, <1>4, <1>5, <1>6, <1>7 DEF KeptFrom

(* A frame that ends within a buffer, by more than what counts as no        *)
(* remainder, reaches into it.                                              *)
LEMMA ReachesNext ==
  ASSUME PullInv, Regular, AudioGoesOn(source), pc \in {"yield", "audio"}, UNCHANGED source,
         NEW p \in Nat, NEW w \in Nat, NEW x \in Nat, Slack <= x, AudioStart \in Nat,
         p + 1 \in DOMAIN Stream("audio"), p + (w + 1) \in DOMAIN Stream("audio"),
         FrameEnd + AudioStart
           = Stream("audio")[p + 1].pts + (Stream("audio")[p + 1].dur * w + x),
         NEW K, out'[K].n = held.n, out'[K].ts = held.ts
  PROVE  ReachesInto(K, p + (w + 1))'
<1>1. source \in Sources
  BY DEF PullInv, Pulling
<1>2. PICK A, j : A = Stream("audio") /\ j = p + (w + 1)
  OBVIOUS
<1>3. A = Stream("audio")' /\ AudioStart' = AudioStart
  BY <1>2 DEF Stream, AudioStart
<1>4. A # <<>>
  BY <1>2
<1>5. /\ A = source.audio /\ source.audio # None /\ p + 1 \in DOMAIN A /\ j \in DOMAIN A
      /\ A[p + 1].pts \in Nat /\ A[p + 1].dur \in Nat /\ A[j].pts \in Nat
  BY <1>1, <1>2, <1>4, AudioFields
<1>6. held.n \in DOMAIN source.video /\ held.ts \in Int
  BY HeldIsLater
<1>7. ASSUME NEW n \in DOMAIN source.video, held.n < n
      PROVE  A[j].pts + source.video[held.n].pts + Slack
               < held.ts + FrameTime + AudioStart + source.video[n].pts
  <2>1. p + 1 <= j /\ j - (p + 1) = w
    BY <1>2
  <2>2. A[j].pts + source.video[held.n].pts
          < A[p + 1].pts + A[p + 1].dur * (j - (p + 1)) + source.video[n].pts
    BY <1>5, <1>6, <1>7, <2>1 DEF AudioGoesOn
  <2>3. PICK a \in Nat, h \in Nat, v \in Nat, u \in Nat, t \in Int, s \in Nat, f \in Nat, y \in Nat :
          /\ a = A[j].pts /\ h = A[p + 1].pts /\ v = source.video[held.n].pts
          /\ u = source.video[n].pts /\ t = held.ts /\ s = AudioStart /\ f = FrameTime
          /\ y = A[p + 1].dur * w
    <3>1. A[p + 1].dur * w \in Nat
      BY <1>5
    <3>2. FrameTime \in Nat
      BY IterAssumption
    <3>3. source.video[held.n].pts \in Nat /\ source.video[n].pts \in Nat
      BY <1>1, <1>6, <1>7, SourceFields
    <3>4. QED
      BY <1>5, <1>6, <3>1, <3>2, <3>3
  <2>4. a + v < h + y + u
    BY <2>1, <2>2, <2>3
  <2>5. t + f + s = h + (y + x)
    BY <1>2, <2>3 DEF FrameEnd
  <2>6. Slack \in Nat
    BY AudioAssumption
  <2>7. a + v + Slack < t + f + s + u
    BY <2>3, <2>4, <2>5, <2>6
  <2>8. QED
    BY <2>3, <2>7
<1>8. QED
  BY <1>2, <1>3, <1>7 DEF ReachesInto

(* A frame that takes all there is outlasts it.                             *)
LEMMA OutlastsNext ==
  ASSUME PullInv, Regular, AudioGoesOn(source), pc \in {"yield", "audio"}, UNCHANGED source,
         NEW p \in Nat, NEW w \in Nat \ {0}, NEW x \in Nat, AudioStart \in Nat,
         p + 1 \in DOMAIN Stream("audio"), p + w \in DOMAIN Stream("audio"),
         FrameEnd + AudioStart
           = Stream("audio")[p + 1].pts + (Stream("audio")[p + 1].dur * w + x),
         NEW K, out'[K].n = held.n, out'[K].ts = held.ts
  PROVE  Outlasts(K, p + w)'
<1>1. source \in Sources
  BY DEF PullInv, Pulling
<1>2. PICK A, j : A = Stream("audio") /\ j = p + w
  OBVIOUS
<1>3. A = Stream("audio")' /\ AudioStart' = AudioStart
  BY <1>2 DEF Stream, AudioStart
<1>4. A # <<>>
  BY <1>2
<1>5. /\ A = source.audio /\ source.audio # None /\ p + 1 \in DOMAIN A /\ j \in DOMAIN A
      /\ A[p + 1].pts \in Nat /\ A[p + 1].dur \in Nat /\ A[j].pts \in Nat /\ A[j].dur \in Nat
  BY <1>1, <1>2, <1>4, AudioFields
<1>6. held.n \in DOMAIN source.video /\ held.ts \in Int
  BY HeldIsLater
<1>7. ASSUME NEW n \in DOMAIN source.video, held.n < n
      PROVE  A[j].pts + A[j].dur + source.video[held.n].pts
               < held.ts + FrameTime + AudioStart + source.video[n].pts
  <2>1. p + 1 <= j /\ j + 1 - (p + 1) = w
    BY <1>2
  <2>2. A[j].pts + A[j].dur + source.video[held.n].pts
          < A[p + 1].pts + A[p + 1].dur * (j + 1 - (p + 1)) + source.video[n].pts
    BY <1>5, <1>6, <1>7, <2>1 DEF AudioGoesOn
  <2>3. PICK a \in Nat, d \in Nat, h \in Nat, v \in Nat, u \in Nat, t \in Int, s \in Nat,
             f \in Nat, y \in Nat :
          /\ a = A[j].pts /\ d = A[j].dur /\ h = A[p + 1].pts /\ v = source.video[held.n].pts
          /\ u = source.video[n].pts /\ t = held.ts /\ s = AudioStart /\ f = FrameTime
          /\ y = A[p + 1].dur * w
    <3>1. A[p + 1].dur * w \in Nat
      BY <1>5
    <3>2. FrameTime \in Nat
      BY IterAssumption
    <3>3. source.video[held.n].pts \in Nat /\ source.video[n].pts \in Nat
      BY <1>1, <1>6, <1>7, SourceFields
    <3>4. QED
      BY <1>5, <1>6, <3>1, <3>2, <3>3
  <2>4. a + d + v < h + y + u
    BY <2>1, <2>2, <2>3
  <2>5. t + f + s = h + (y + x)
    BY <1>2, <2>3 DEF FrameEnd
  <2>6. a + d + v < t + f + s + u
    BY <2>3, <2>4, <2>5
  <2>7. QED
    BY <2>3, <2>6
<1>8. QED
  BY <1>2, <1>3, <1>7 DEF Outlasts

(* The frame is returned with a slice.                                      *)
LEMMA YieldSlice ==
  ASSUME PullInv, AudioInv, Regular, AudioGoesOn(source), pc \in {"yield", "audio"},
         UNCHANGED <<source, sent, queue>>,
         audioBuf.buffer # <<>>,
         NEW p \in Nat, KeptFrom(p), GoesOnAt(p),
         NEW w \in 0..Len(audioBuf.buffer), NEW x \in Nat, NEW m \in 0..Len(audioBuf.buffer),
         IsPop(audioBuf, FrameEnd, w, x, m),
         audioBuf' = PopUntil(audioBuf, FrameEnd).rest,
         NEW y, y.kind = "frame", y.n = held.n, y.ts = held.ts,
         y.audio = PopUntil(audioBuf, FrameEnd).audio, out' = Append(out, y)
  PROVE  AudioInv'
<1>1. PICK A, b, s : A = Stream("audio") /\ b = audioBuf.buffer /\ s = y.audio
  OBVIOUS
<1>2. Typed /\ audioBuf \in AudioState /\ SlicesMeet
  BY DEF PullInv, IterInv, AudioInv
<1>3. /\ audioBuf.shift = AudioStart /\ AudioStart \in Nat
      /\ p + 1 \in DOMAIN A /\ b[1] = A[p + 1]
      /\ A[p + 1].pts \in Nat /\ A[p + 1].dur \in Nat \ {0}
      /\ AudioPulled \in Nat /\ 1..AudioPulled \subseteq DOMAIN A
  BY <1>1, HeldBuffers
<1>4. PICK l \in Nat : l = Len(b)
  BY <1>1, <1>2 DEF AudioState
<1>5. PICK n \in Nat : n = AudioPulled
  BY <1>3
<1>6. p \in 0..n /\ l = n - p /\ \A i \in 1..(n - p) : b[i] = A[p + i]
  BY <1>1, <1>4, <1>5 DEF KeptFrom
<1>7. w \in 0..l /\ m \in 0..l
  BY <1>1, <1>4
<1>8. /\ FrameEnd + AudioStart = A[p + 1].pts + (A[p + 1].dur * w + x)
      /\ s \in Slice /\ Len(s.buffers) = m /\ \A i \in 1..m : s.buffers[i] = b[i]
      /\ s.start = audioBuf.startIdx
      /\ IF x < Slack \/ x = 0 THEN m = w /\ s.end = None ELSE m = w + 1 /\ s.end # None
      /\ audioBuf' \in AudioState
      /\ Len(audioBuf'.buffer) = l - w /\ \A i \in 1..(l - w) : audioBuf'.buffer[i] = b[w + i]
      /\ audioBuf'.startIdx = NextByte(s)
      /\ audioBuf'.shift = audioBuf.shift /\ audioBuf'.startOffset = audioBuf.startOffset
  BY <1>1, <1>3, <1>4 DEF IsPop
<1>9. KeptFrom(p + w)'
  <2>1. w \in Nat /\ w <= l
    BY <1>7
  <2>2. audioBuf.buffer = b /\ Len(audioBuf.buffer) = l
    BY <1>1, <1>4
  <2>3. /\ Len(audioBuf'.buffer) = Len(audioBuf.buffer) - w
        /\ \A i \in 1..(Len(audioBuf.buffer) - w) : audioBuf'.buffer[i] = audioBuf.buffer[w + i]
    BY <1>8, <2>2, Zenon
  <2>4. w <= Len(audioBuf.buffer)
    BY <2>1, <2>2
  <2>5. QED
    BY <1>3, <2>1, <2>3, <2>4, RestIsKept, Zenon
<1>10. A = Stream("audio")'
  BY <1>1 DEF Stream
<1>11. Drained'
  <2>1. SUFFICES ASSUME audioBuf'.buffer = <<>> PROVE \E k \in FramePlaces' : Outlasts(k, AudioPulled)'
    BY DEF Drained
  <2>2. w = l
    <3>1. Len(audioBuf'.buffer) = 0
      BY <2>1
    <3>2. QED
      BY <1>4, <1>7, <1>8, <3>1
  <2>3. l # 0
    <3>1. b \in Seq(AudioSample) /\ b # <<>>
      BY <1>1, <1>2 DEF AudioState
    <3>2. QED
      BY <1>4, <3>1
  <2>4. p + w = n /\ n \in 1..n
    BY <1>5, <1>6, <2>2, <2>3
  <2>5. AudioPulled' = p + w
    BY <1>5, <2>4 DEF AudioPulled
  <2>6. PICK K \in FramePlaces' : out'[K] = y
    <3>1. out \in Seq(Returned)
      BY <1>2 DEF Typed
    <3>2. QED
      BY <3>1, ReturnsFrame
  <2>7. Outlasts(K, p + w)'
    <3>1. /\ w \in Nat \ {0} /\ p + 1 \in DOMAIN Stream("audio") /\ p + w \in DOMAIN Stream("audio")
      BY <1>1, <1>3, <1>4, <1>5, <2>2, <2>3, <2>4
    <3>2. /\ FrameEnd + AudioStart
               = Stream("audio")[p + 1].pts + (Stream("audio")[p + 1].dur * w + x)
          /\ out'[K].n = held.n /\ out'[K].ts = held.ts
      BY <1>1, <1>8, <2>6
    <3>3. QED
      BY <1>3, <3>1, <3>2, OutlastsNext, Zenon
  <2>8. QED
    BY <2>5, <2>6, <2>7
<1>12. CASE m = 0
  <2>1. w = 0 /\ (x < Slack \/ x = 0) /\ s.end = None
    BY <1>7, <1>8, <1>12
  <2>2. s.buffers = <<>>
    <3>1. s.buffers \in Seq(AudioSample)
      BY <1>8 DEF Slice
    <3>2. QED
      BY <1>8, <1>12, <3>1
  <2>3. SlicePlaces' = SlicePlaces /\ \A k \in SlicePlaces : out'[k] = out[k]
    BY <1>1, <1>2, <2>2, ReturnsNoSlice DEF SlicePlaces
  <2>4. FrameEnd + AudioStart = A[p + 1].pts + x
    <3>1. A[p + 1].dur * w = 0
      BY <1>3, <2>1
    <3>2. QED
      BY <1>3, <1>8, <3>1
  <2>5. audioBuf.startIdx = 0
    BY <1>1, <1>3, <2>1, <2>4, EmptySliceKeeps
  <2>6. audioBuf'.startIdx = audioBuf.startIdx
    BY <1>8, <2>1, <2>5 DEF NextByte
  <2>7. SlicesMeet' /\ GoesOnAt(p)'
    BY <1>2, <2>3, <2>6, KeepsSlices
  <2>8. KeptFrom(p)'
    BY <1>9, <2>1
  <2>9. QED
    BY <1>8, <1>11, <2>7, <2>8, YieldRest
<1>13. CASE m # 0
  <2>1. s # None /\ s.buffers # <<>>
    <3>1. s # None
      BY <1>8, IterAssumption DEF Slice, AudioSample
    <3>2. QED
      BY <1>8, <1>13, <3>1
  <2>2. PICK K \in Nat :
           /\ SlicePlaces' = SlicePlaces \cup {K} /\ out'[K] = y
           /\ SlicePlaces \in SUBSET Nat
           /\ \A k \in SlicePlaces : k < K /\ out'[k] = out[k]
    BY <1>1, <1>2, <2>1, ReturnsSlice
  <2>3. PICK j \in Nat : j = p + m
    BY <1>7
  <2>4. j \in DOMAIN A
    <3>1. j \in 1..n
      BY <1>6, <1>7, <1>13, <2>3
    <3>2. QED
      BY <1>3, <1>5, <3>1
  <2>5. IsRun(A, s.buffers, p + 1, j)
    <3>1. p + 1 \in 1..j /\ j - (p + 1) + 1 = m
      BY <1>7, <1>13, <2>3
    <3>2. ASSUME NEW i \in 1..m PROVE s.buffers[i] = A[(p + 1) + i - 1]
      <4>1. i \in 1..(n - p) /\ (p + 1) + i - 1 = p + i
        BY <1>6, <1>7
      <4>2. QED
        BY <1>6, <1>8, <4>1
    <3>3. QED
      BY <1>8, <2>4, <3>1, <3>2 DEF IsRun
  <2>6. out'[K].audio = s
    BY <1>1, <2>2
  <2>7. SlicesMeet'
    <3>1. /\ A = Stream("audio") /\ A = Stream("audio")'
          /\ out'[K].audio.start = audioBuf.startIdx
          /\ IsRun(A, out'[K].audio.buffers, p + 1, j)
      BY <1>1, <1>8, <1>10, <2>5, <2>6
    <3>2. QED
      BY <1>2, <2>2, <2>4, <3>1, SliceMeetsLast, Zenon
  <2>8. (p + w) + 1 = NextBuffer(s, j)
    BY <1>7, <1>8, <2>3 DEF NextBuffer
  <2>9. ASSUME s.end # None PROVE ReachesInto(K, j)'
    <3>1. m = w + 1 /\ Slack <= x /\ j = p + (w + 1)
      BY <1>7, <1>8, <2>3, <2>9, AudioAssumption
    <3>2. ReachesInto(K, p + (w + 1))'
      <4>1. /\ w \in Nat /\ p + 1 \in DOMAIN Stream("audio")
            /\ p + (w + 1) \in DOMAIN Stream("audio")
            /\ FrameEnd + AudioStart
                 = Stream("audio")[p + 1].pts + (Stream("audio")[p + 1].dur * w + x)
            /\ out'[K].n = held.n /\ out'[K].ts = held.ts
        BY <1>1, <1>3, <1>7, <1>8, <2>2, <2>4, <3>1
      <4>2. QED
        BY <1>3, <3>1, <4>1, ReachesNext, Zenon
    <3>3. QED
      BY <3>1, <3>2
  <2>10. \A k \in SlicePlaces' : k <= K
    <3>1. \A k \in SlicePlaces' : k \in SlicePlaces \/ k = K
      BY <2>2
    <3>2. \A k \in SlicePlaces : k \in Nat /\ k < K
      BY <2>2
    <3>3. QED
      BY <3>1, <3>2
  <2>11. GoesOnAt(p + w)'
    <3>1. K \in SlicePlaces' /\ p + 1 \in DOMAIN Stream("audio")' /\ j \in DOMAIN Stream("audio")'
      BY <1>3, <1>10, <2>2, <2>4
    <3>2. /\ IsRun(Stream("audio")', out'[K].audio.buffers, p + 1, j)
          /\ (p + w) + 1 = NextBuffer(out'[K].audio, j)
          /\ audioBuf'.startIdx = NextByte(out'[K].audio)
          /\ out'[K].audio.end # None => ReachesInto(K, j)'
      BY <1>8, <1>10, <2>5, <2>6, <2>8, <2>9
    <3>3. QED
      BY <2>10, <3>1, <3>2 DEF GoesOnAt
  <2>12. p + w \in Nat
    BY <1>7
  <2>13. QED
    BY <1>8, <1>9, <1>11, <2>7, <2>11, <2>12, YieldRest
<1>14. QED
  BY <1>12, <1>13

(* The frame at hand is returned.                                           *)
LEMMA YieldAudio ==
  ASSUME PullInv, AudioInv, Regular, AudioGoesOn(source), Yield
  PROVE  AudioInv'
<1>1. /\ pc \in {"yield", "audio"} /\ UNCHANGED <<source, sent, queue>>
  BY DEF Yield, gstVars
<1>2. CASE PopPanics(audioBuf, FrameEnd)
  <2>1. pc' = "panicked" /\ UNCHANGED <<audioBuf, out>>
    BY <1>2 DEF Yield
  <2>2. ~ Active'
    BY <2>1 DEF Active
  <2>3. SlicePlaces' = SlicePlaces /\ FramePlaces' = FramePlaces /\ out' = out
    BY <2>1 DEF SlicePlaces, FramePlaces
  <2>4. QED
    BY <1>1, <2>1, <2>2, <2>3, LeavesAudio
<1>3. CASE ~ PopPanics(audioBuf, FrameEnd)
  <2>1. PICK y : /\ y.kind = "frame" /\ y.n = held.n /\ y.ts = held.ts
                 /\ y.audio = PopUntil(audioBuf, FrameEnd).audio /\ out' = Append(out, y)
    BY <1>3 DEF Yield, FrameItem
  <2>2. audioBuf' = PopUntil(audioBuf, FrameEnd).rest
    BY <1>3 DEF Yield
  <2>3. Typed /\ audioBuf \in AudioState
    BY DEF PullInv, IterInv, AudioInv
  <2>4. CASE ~ HasAudioUntil(audioBuf, FrameEnd)
    <3>1. y.audio = None /\ audioBuf' = audioBuf
      BY <2>1, <2>2, <2>4 DEF PopUntil
    <3>2. /\ SlicePlaces' = SlicePlaces /\ FramePlaces \subseteq FramePlaces'
          /\ \A k \in FramePlaces : out'[k] = out[k]
      BY <2>1, <2>3, <3>1, ReturnsNoSlice
    <3>3. Active
      BY <1>1 DEF Active
    <3>4. QED
      BY <1>1, <3>1, <3>2, <3>3, LeavesAudioSink
  <2>5. CASE HasAudioUntil(audioBuf, FrameEnd)
    <3>1. audioBuf.buffer # <<>>
      BY <2>5 DEF HasAudioUntil
    <3>2. PICK p \in Nat : KeptFrom(p) /\ GoesOnAt(p)
      BY <1>1 DEF AudioInv, AudioHeld, Active
    <3>3. audioBuf.shift \in Nat /\ audioBuf.buffer[1].dur # 0
      <4>1. /\ audioBuf.shift = AudioStart /\ AudioStart \in Nat
            /\ audioBuf.buffer[1] = Stream("audio")[p + 1]
            /\ Stream("audio")[p + 1].dur \in Nat \ {0}
        BY <1>1, <3>1, <3>2, HeldBuffers
      <4>2. QED
        BY <4>1
    <3>4. FrameEnd \in Int
      <4>1. held.ts \in Int /\ FrameTime \in Nat
        BY <1>1, HeldIsLater, IterAssumption
      <4>2. QED
        BY <4>1 DEF FrameEnd
    <3>5. PICK w \in 0..Len(audioBuf.buffer), x \in Nat, m \in 0..Len(audioBuf.buffer) :
            IsPop(audioBuf, FrameEnd, w, x, m)
      <4>1. PICK a, E : a = audioBuf /\ E = FrameEnd
        OBVIOUS
      <4>2. \E w \in 0..Len(a.buffer), x \in Nat, m \in 0..Len(a.buffer) : IsPop(a, E, w, x, m)
        BY <1>3, <2>3, <2>5, <3>1, <3>3, <3>4, <4>1, PopIs
      <4>3. QED
        BY <4>1, <4>2
    <3>6. QED
      BY <1>1, <2>1, <2>2, <3>1, <3>2, <3>5, YieldSlice
  <2>6. QED
    BY <2>4, <2>5
<1>4. QED
  BY <1>2, <1>3

(* Every step keeps it.                                                     *)
LEMMA AudioStep ==
  ASSUME PullInv, AudioInv, Regular, AudioGoesOn(source), [Next]_vars
  PROVE  AudioInv'
<1>1. CASE Environment
  <2>1. CASE PadAdded
    BY <2>1, AroundAudio
  <2>2. ASSUME NEW k \in Sink, DeliverSample(k) PROVE AudioInv'
    BY <2>2, DeliverSampleAudio
  <2>3. CASE \E k \in Sink : DeliverEos(k)
    BY <2>3, AroundAudio
  <2>4. CASE \E isError \in BOOLEAN : PostMessage(isError)
    BY <2>4, AroundAudio
  <2>5. QED
    BY <1>1, <2>1, <2>2, <2>3, <2>4 DEF Environment
<1>2. CASE Iterate
  BY <1>2, OpenDropAudio, AroundAudio, ErrorAudio, PullAudioAudio, YieldAudio DEF Iterate
<1>3. CASE Drop
  BY <1>3, OpenDropAudio
<1>4. CASE UNCHANGED vars
  BY <1>4, AroundAudio
<1>5. QED
  BY <1>1, <1>2, <1>3, <1>4 DEF Next

(* buffer.rs:177-238: in a regular video, under audio that goes on, each    *)
(* slice begins in the buffer, and at the byte, where the one before it     *)
(* ended, and the first where the audio does.                               *)
THEOREM SlicesFollow == Spec => [](Regular /\ AudioGoesOn(source) => SlicesMeet)
<1> DEFINE Inv == Regular /\ AudioGoesOn(source) => AudioInv
<1>1. Init => Inv
  BY InitAudioInv
<1>2. PullInv /\ Inv /\ [Next]_vars => Inv'
  <2> SUFFICES ASSUME PullInv, Inv, [Next]_vars, Regular', AudioGoesOn(source') PROVE AudioInv'
    OBVIOUS
  <2>1. source' = source
    BY DEF Next, Environment, Iterate, PadAdded, DeliverSample, DeliverEos, PostMessage,
           OpenPipeline, NextFused, NextBusError, NextBegin, PullVideo, CheckAudio, PullAudio,
           Yield, GiveUp, Drop, vars
  <2>2. Regular /\ AudioGoesOn(source)
    BY <2>1 DEF Regular, First, IsCut
  <2>3. QED
    BY <2>2, AudioStep
<1>3. Inv => (Regular /\ AudioGoesOn(source) => SlicesMeet)
  BY DEF AudioInv
<1>4. QED
  BY <1>1, <1>2, <1>3, PullInvariant, PTL DEF Spec

(* That of the audio: it ends before the frame at hand does.                *)
LEMMA AudioGiveUpEnds ==
  ASSUME PullInv, Bounded, EosIsEnd, AudioInv, Regular, AudioGoesOn(source), Linked,
         GiveUp("audio"), pc' = "ended"
  PROVE  EndExplained'
<1>1. /\ Typed /\ pc = "audio" /\ Active /\ NeedsAudio /\ source \in Sources
      /\ AudioWaits /\ AudioShifted /\ AudioHeld /\ Drained /\ audioBuf \in AudioState
  BY DEF PullInv, IterInv, Pulling, AudioInv, GiveUp, Waiting, Active
<1>2. queue["audio"] = <<>> /\ sent["audio"] = Len(Stream("audio")) /\ UNCHANGED <<source, out>>
  BY GivesUpAtEnd DEF Sink
<1>3. source.audio # None
  BY <1>1, IterAssumption DEF Linked, IsSource
<1>4. PICK A : A = source.audio /\ A = Stream("audio") /\ A # <<>>
  BY <1>3 DEF Stream, AudioGoesOn
<1>5. PICK l \in Nat : l = Len(A) /\ DOMAIN A = 1..l
  BY <1>1, <1>4, AudioFields
<1>6. l # 0 /\ l \in DOMAIN A /\ 1 \in DOMAIN A /\ Last(A) = A[l]
  <2>1. A \in Seq(AudioSample)
    BY <1>1, <1>4, AudioFields
  <2>2. l # 0
    BY <1>4, <1>5, <2>1
  <2>3. QED
    BY <1>5, <2>2 DEF Last
<1>7. AudioPulled = l
  <2>1. Len(queue["audio"]) = 0
    BY <1>2
  <2>2. PICK m : m = Len(queue["audio"]) /\ m = 0
    BY <2>1
  <2>3. AudioPulled = l - m
    BY <1>2, <1>4, <1>5, <2>2 DEF AudioPulled
  <2>4. QED
    BY <2>2, <2>3
<1>8. PICK a \in Nat, d \in Nat, z \in Nat, o \in Nat, s \in Nat :
        /\ a = A[1].pts /\ z = A[l].pts /\ d = A[l].dur /\ o = source.offset /\ s = AudioStart
        /\ s = a - o
  <2>1. /\ A[1].pts \in Nat /\ A[l].pts \in Nat /\ A[l].dur \in Nat
        /\ A[1].pts - source.offset \in Nat
    BY <1>1, <1>4, <1>6, AudioFields
  <2>2. source.offset \in Nat
    BY <1>1, SourceFields
  <2>3. QED
    BY <1>4, <2>1, <2>2 DEF AudioStart
<1>9. audioBuf.shift = s
  BY <1>1, <1>6, <1>7, <1>8 DEF AudioShifted
<1>10. PICK f, p, c : f = First /\ p = Pulled /\ c = Count
  OBVIOUS
<1>11. /\ HoldsPulled /\ Progress /\ held # None /\ Held = 1 /\ c \in Nat
       /\ f \in 1..(Len(source.video) + 1) /\ Len(source.video) \in Nat
       /\ DOMAIN source.video = 1..Len(source.video)
  BY <1>1, <1>10, FirstIsUncut, SourceFields DEF PullInv, Pulling, Held
<1>12. p \in DOMAIN source.video /\ held.n = p /\ held.ts = source.video[p].pts - shift
  BY <1>10, <1>11 DEF HoldsPulled
<1>13. f <= p /\ p = f + c /\ shift = source.video[f].pts - o /\ f \in DOMAIN source.video
  <2>1. PICK n \in Nat : n = Len(source.video)
    BY <1>11
  <2>2. p \in Nat /\ f \in Nat /\ p <= n /\ 1 <= f
    BY <1>11, <1>12, <2>1
  <2>3. IF p < f THEN shift = None /\ c + 1 = 0
        ELSE shift = source.video[f].pts - o /\ c + 1 = p - f + 1
    BY <1>8, <1>10, <1>11 DEF Progress
  <2>4. f <= p /\ p = f + c /\ shift = source.video[f].pts - o
    BY <1>11, <2>2, <2>3
  <2>5. QED
    BY <1>11, <2>1, <2>2, <2>4
<1>14. PICK v \in Nat, u \in Nat, g \in Nat, t \in Int :
         /\ v = source.video[f].pts /\ u = source.video[p].pts /\ g = FrameTime
         /\ t = held.ts /\ t = u - (v - o)
  <2>1. source.video[f].pts \in Nat /\ source.video[p].pts \in Nat /\ FrameTime \in Nat
    BY <1>1, <1>12, <1>13, SourceFields, IterAssumption
  <2>2. QED
    BY <1>8, <1>12, <1>13, <2>1
<1>15. z + d < t + g + s
  <2>1. CASE audioBuf.buffer = <<>>
    <3>1. PICK k \in FramePlaces : Outlasts(k, l)
      BY <1>1, <1>6, <1>7, <2>1 DEF Drained
    <3>2. /\ out[k].n \in DOMAIN source.video /\ out[k].n < held.n /\ out[k].ts \in Int
          /\ out[k].ts + source.video[held.n].pts = held.ts + source.video[out[k].n].pts
      BY <1>1, HeldIsLater
    <3>3. z + d + source.video[out[k].n].pts < out[k].ts + g + s + u
      BY <1>4, <1>8, <1>12, <1>14, <3>1, <3>2 DEF Outlasts
    <3>4. PICK x \in Nat, y \in Int :
            x = source.video[out[k].n].pts /\ y = out[k].ts /\ y + u = t + x
      BY <1>1, <1>12, <1>14, <3>2, SourceFields
    <3>5. z + d + x < y + g + s + u
      BY <3>3, <3>4
    <3>6. QED
      BY <1>8, <1>14, <3>4, <3>5
  <2>2. CASE audioBuf.buffer # <<>>
    <3>1. PICK q \in Nat : KeptFrom(q)
      BY <1>1 DEF AudioHeld
    <3>2. PICK b : b = audioBuf.buffer
      OBVIOUS
    <3>3. b \in Seq(AudioSample) /\ b # <<>>
      BY <1>1, <2>2, <3>2 DEF AudioState
    <3>4. q \in 0..l /\ Len(b) = l - q /\ \A i \in 1..(l - q) : b[i] = A[q + i]
      BY <1>4, <1>7, <3>1, <3>2 DEF KeptFrom
    <3>5. PICK m \in Nat : m = l - q
      BY <3>4
    <3>6. m # 0
      BY <3>3, <3>4, <3>5
    <3>7. q + m = l /\ m \in 1..m
      BY <3>4, <3>5, <3>6
    <3>8. Last(b) = A[l]
      BY <3>4, <3>5, <3>7 DEF Last
    <3>9. z - s + d < t + g
      BY <1>1, <1>8, <1>9, <1>14, <2>2, <3>2, <3>8 DEF NeedsAudio, EndTimestamp, EndOf, FrameEnd
    <3>10. QED
      BY <1>8, <1>14, <3>9
  <2>3. QED
    BY <2>1, <2>2
<1>16. (z + d) - a < u - v + g
  BY <1>8, <1>14, <1>15
<1>17. AudioEnd = z + d
  BY <1>4, <1>6, <1>8 DEF AudioEnd
<1>18. AudioEnd - source.audio[1].pts
         < source.video[First + Count].pts - source.video[First].pts + FrameTime
  BY <1>4, <1>8, <1>10, <1>13, <1>14, <1>16, <1>17
<1>19. First' = First /\ Regular' = Regular /\ FramePlaces' = FramePlaces /\ AudioEnd' = AudioEnd
  BY <1>2 DEF First, Regular, IsCut, FramePlaces, AudioEnd
<1>20. QED
  BY <1>2, <1>3, <1>18, <1>19 DEF EndExplained, Count

(* iter.rs:91-126 and 187-205: the iterator never just stops.  When it ends *)
(* it has returned every frame from the first full one, or an error as its  *)
(* last item, or the audio, if it goes on, has ended before the frame that  *)
(* is missing; nothing follows a timeout, and no frame follows the one that *)
(* is last.                                                                 *)
THEOREM IteratorEndIsKnown == Spec => [](AudioGoesOn(source) => EndIsKnown)
<1> DEFINE Inv == Bounded /\ EndInv /\ (Regular /\ AudioGoesOn(source) => AudioInv)
<1>1. Init => Inv
  <2> SUFFICES ASSUME Init PROVE EndInv
    BY InitBounded, InitAudioInv
  <2>1. linked = {} /\ eos = {} /\ pc = "new"
    BY DEF Init, InitPipeline, InitIter
  <2>2. QED
    BY <2>1 DEF EndInv, Linked, EosIsEnd, ErrorIsLast, EndExplained
<1>2. PullInv /\ Inv /\ [Next]_vars => Inv'
  <2> SUFFICES ASSUME PullInv, Inv, [Next]_vars PROVE Inv'
    OBVIOUS
  <2>1. /\ Bounded /\ Linked /\ EosIsEnd /\ ErrorIsLast /\ (AudioGoesOn(source) => EndExplained)
        /\ IterInv /\ Typed /\ source \in Sources
    BY DEF EndInv, PullInv, Pulling, IterInv
  <2>2. Bounded' /\ Linked' /\ EosIsEnd' /\ ErrorIsLast'
    BY <2>1, BoundedKept, KeepsLinked, KeepsEosIsEnd, KeepsErrorLast
  <2>3. UNCHANGED source
    BY DEF Next, Environment, Iterate, PadAdded, DeliverSample, DeliverEos, PostMessage,
           OpenPipeline, NextFused, NextBusError, NextBegin, PullVideo, CheckAudio, PullAudio,
           Yield, GiveUp, Drop, vars
  <2>4. Regular' = Regular
    BY <2>3 DEF Regular, First, IsCut
  <2>5. ASSUME Regular', AudioGoesOn(source') PROVE AudioInv'
    BY <2>3, <2>4, <2>5, AudioStep
  <2>6. ASSUME AudioGoesOn(source') PROVE EndExplained'
    <3>1. AudioGoesOn(source) /\ EndExplained
      BY <2>1, <2>3, <2>6
    <3>2. CASE pc' # "ended" \/ ~ Regular
      BY <2>4, <3>2 DEF EndExplained
    <3>3. ASSUME NEW k \in Sink, GiveUp(k), pc' = "ended", Regular PROVE EndExplained'
      <4>1. AudioInv
        BY <3>1, <3>3
      <4>2. k = "video" \/ k = "audio"
        BY DEF Sink
      <4>3. QED
        BY <2>1, <3>1, <3>3, <4>1, <4>2, VideoGiveUpEnds, AudioGiveUpEnds
    <3>4. CASE NextFused
      <4>1. out # <<>> /\ Last(out).kind = "error" /\ out' = out
        BY <2>1, <3>4 DEF ErrorIsLast, NextFused
      <4>2. QED
        BY <4>1 DEF EndExplained
    <3>5. CASE pc' = "ended" /\ (Environment \/ UNCHANGED vars)
      <4>1. pc = "ended" /\ out' = out
        BY <3>5 DEF Environment, PadAdded, DeliverSample, DeliverEos, PostMessage, vars, iterVars
      <4>2. First' = First /\ FramePlaces' = FramePlaces /\ AudioEnd' = AudioEnd
        BY <2>3, <4>1 DEF First, IsCut, FramePlaces, AudioEnd
      <4>3. QED
        BY <2>3, <2>4, <3>1, <4>1, <4>2 DEF EndExplained
    <3>6. CASE \/ OpenPipeline \/ Drop \/ NextBusError \/ NextBegin \/ PullVideo \/ CheckAudio
               \/ PullAudio \/ Yield
      <4>1. pc' # "ended"
        BY <3>6, OpensAnywhere
           DEF NextBusError, NextBegin, PullVideo, CheckAudio, PullAudio, Yield
      <4>2. QED
        BY <3>2, <4>1
    <3>7. QED
      BY <3>2, <3>3, <3>4, <3>5, <3>6 DEF Next, Iterate
  <2>7. QED
    BY <2>2, <2>5, <2>6 DEF EndInv
<1>3. PullInv /\ Inv => (AudioGoesOn(source) => EndIsKnown)
  BY DEF EndInv, PullInv, IterInv, EndIsKnown
<1>4. QED
  BY <1>1, <1>2, <1>3, PullInvariant, PTL DEF Spec
=============================================================================
