---------------------------- MODULE SignerProofs ----------------------------
(***************************************************************************)
(* Signer for every frame rate, chunk limit, video and controller: each    *)
(* signing task works on exactly the most recent frames, whatever errors   *)
(* come between them and however long the task waits; when the stream of   *)
(* signatures is over each request has been answered exactly once; and     *)
(* each signature is over exactly the frames it is said to be over.        *)
(***************************************************************************)
EXTENDS Signer, FrameTimeProofs, SequenceTheorems, FiniteSetTheorems, TLAPS

(* The types of what the buffer and the tasks hold.                         *)
Typed ==
    /\ taken \in 0..VideoLen
    /\ thread \in {"peek", "take", "ask", "done"}
    /\ buffer \in Seq(Frames)
    /\ tasks \in Seq(Task)

RecentInv == Typed /\ RecentBuffer /\ RecentContext

(* The rate is one.                                                         *)
LEMMA RateIsRate == IsRate(Rate)
BY SignerAssumption DEF IsRate

(* The buffer has a place for at least one frame.                           *)
LEMMA CapacityPositive == Capacity(Rate) \in Nat \ {0}
BY RateIsRate, CapacityIsPositive

(* The frames kept, one more, and one less at the front.                    *)
LEMMA LastFramesProperties ==
  ASSUME NEW f \in Int, NEW n \in Nat
  PROVE  /\ LastFrames(f, n) \in Seq(Int)
         /\ Len(LastFrames(f, n)) = n
         /\ Append(LastFrames(f, n), f + 1) = LastFrames(f + 1, n + 1)
         /\ n > 0 => Tail(LastFrames(f, n)) = LastFrames(f, n - 1)
<1> DEFINE s == LastFrames(f, n)
<1>1. /\ s \in Seq(Int) /\ Len(s) = n
      /\ \A i \in 1..n : s[i] = f - n + i
  BY DEF LastFrames
<1>2. /\ LastFrames(f + 1, n + 1) \in Seq(Int) /\ Len(LastFrames(f + 1, n + 1)) = n + 1
      /\ \A i \in 1..(n + 1) : LastFrames(f + 1, n + 1)[i] = f - n + i
  BY DEF LastFrames
<1> HIDE DEF s
<1>3. Append(s, f + 1) = LastFrames(f + 1, n + 1)
  <2>1. /\ Append(s, f + 1) \in Seq(Int) /\ Len(Append(s, f + 1)) = n + 1
        /\ \A i \in 1..n : Append(s, f + 1)[i] = s[i]
        /\ Append(s, f + 1)[n + 1] = f + 1
    BY <1>1
  <2>2. \A i \in 1..(n + 1) : Append(s, f + 1)[i] = LastFrames(f + 1, n + 1)[i]
    BY <1>1, <1>2, <2>1
  <2>3. QED
    BY <1>2, <2>1, <2>2, SeqEqual
<1>4. n > 0 => Tail(s) = LastFrames(f, n - 1)
  <2> SUFFICES ASSUME n > 0 PROVE Tail(s) = LastFrames(f, n - 1)
    OBVIOUS
  <2>1. /\ Tail(s) \in Seq(Int) /\ Len(Tail(s)) = n - 1
        /\ \A i \in 1..(n - 1) : Tail(s)[i] = s[i + 1]
    BY <1>1
  <2>2. /\ LastFrames(f, n - 1) \in Seq(Int) /\ Len(LastFrames(f, n - 1)) = n - 1
        /\ \A i \in 1..(n - 1) : LastFrames(f, n - 1)[i] = f - (n - 1) + i
    BY DEF LastFrames
  <2>3. \A i \in 1..(n - 1) : Tail(s)[i] = LastFrames(f, n - 1)[i]
    BY <1>1, <2>1, <2>2
  <2>4. QED
    BY <2>1, <2>2, <2>3, SeqEqual
<1>5. QED
  BY <1>1, <1>3, <1>4 DEF s


(* Making room in the buffer: what is left are still the latest frames, all *)
(* of them but for the one that a full buffer has given up.                 *)
LEMMA PoppedProperties ==
  ASSUME Typed, RecentBuffer, thread = "take"
  PROVE  /\ Popped \in Seq(Frames)
         /\ Popped = LastFrames(taken - 1, Len(Popped))
         /\ \/ Len(Popped) = taken /\ taken < Capacity(Rate)
            \/ Len(Popped) = Capacity(Rate) - 1 /\ taken >= Capacity(Rate)
<1> DEFINE n == Len(buffer)
<1>1. taken \in Nat /\ n \in Nat /\ taken - 1 \in Int /\ buffer \in Seq(Frames)
  BY SignerAssumption DEF Typed
<1>2. Capacity(Rate) \in Nat \ {0}
  BY CapacityPositive
<1>3. buffer = LastFrames(taken - 1, n)
  BY DEF RecentBuffer
<1>4. \/ n = taken /\ taken < Capacity(Rate)
      \/ n = Capacity(Rate) /\ taken >= Capacity(Rate)
      \/ n = Capacity(Rate) - 1 /\ taken >= Capacity(Rate)
  <2>1. \/ n = Kept(taken - 1)
        \/ n = Capacity(Rate) - 1 /\ taken >= Capacity(Rate)
    BY DEF RecentBuffer
  <2>2. QED
    BY <2>1, <1>1, <1>2 DEF Kept
<1>5. CASE n = Capacity(Rate)
  <2>1. Popped = Tail(buffer)
    BY <1>5 DEF Popped
  <2>2. Tail(buffer) \in Seq(Frames) /\ Len(Tail(buffer)) = n - 1
    BY <1>1, <1>2, <1>5
  <2>3. Tail(buffer) = LastFrames(taken - 1, n - 1)
    <3> HIDE DEF n
    <3>1. n > 0
      BY <1>2, <1>5
    <3>2. Tail(LastFrames(taken - 1, n)) = LastFrames(taken - 1, n - 1)
      BY <3>1, <1>1, LastFramesProperties, Zenon
    <3>3. QED
      BY <3>2, <1>3
  <2>4. taken >= Capacity(Rate)
    BY <1>1, <1>2, <1>4, <1>5
  <2>5. QED
    BY <2>1, <2>2, <2>3, <2>4, <1>5
<1>6. CASE n # Capacity(Rate)
  <2>1. Popped = buffer
    BY <1>6 DEF Popped
  <2>2. QED
    BY <2>1, <1>1, <1>3, <1>4, <1>6
<1>7. QED
  BY <1>5, <1>6

(* The initial state satisfies the invariant.                               *)
LEMMA InitRecentInv == Init => RecentInv
<1> SUFFICES ASSUME Init PROVE RecentInv
  OBVIOUS
<1>1. taken = 0 /\ buffer = <<>> /\ tasks = <<>> /\ thread = "peek"
  BY DEF Init
<1>2. \A S : <<>> \in Seq(S) /\ Len(<<>>) = 0
  BY EmptySeq
<1>3. Typed
  BY <1>1, <1>2, SignerAssumption DEF Typed
<1>4. RecentBuffer
  <2>1. LastFrames(0 - 1, 0) = <<>>
    <3>1. LastFrames(0 - 1, 0) \in Seq(Int) /\ Len(LastFrames(0 - 1, 0)) = 0
      BY LastFramesProperties
    <3>2. QED
      BY <3>1, EmptySeq
  <2>2. Kept(0 - 1) = 0
    BY CapacityPositive DEF Kept
  <2>3. QED
    BY <1>1, <1>2, <2>1, <2>2 DEF RecentBuffer
<1>5. RecentContext
  BY <1>1, <1>2 DEF RecentContext
<1>6. QED
  BY <1>3, <1>4, <1>5 DEF RecentInv

(* A frame joins the buffer, after which the buffer holds every frame due.  *)
LEMMA TakeFrameRecentInv == RecentInv /\ TakeFrame => RecentInv'
<1> SUFFICES ASSUME RecentInv, TakeFrame PROVE RecentInv'
  OBVIOUS
<1> DEFINE n == Len(Popped)
<1>0. /\ thread = "take" /\ taken < VideoLen
      /\ taken' = taken + 1 /\ buffer' = Append(Popped, taken)
      /\ thread' = "ask" /\ tasks' = tasks
  BY DEF TakeFrame
<1>1. Typed /\ RecentBuffer /\ RecentContext
  BY DEF RecentInv
<1>2. /\ Popped \in Seq(Frames)
      /\ Popped = LastFrames(taken - 1, n)
      /\ \/ n = taken /\ taken < Capacity(Rate)
         \/ n = Capacity(Rate) - 1 /\ taken >= Capacity(Rate)
  BY <1>0, <1>1, PoppedProperties
<1>3. taken \in Nat /\ n \in Nat /\ Capacity(Rate) \in Nat \ {0} /\ VideoLen \in Nat
  BY <1>1, <1>2, CapacityPositive, SignerAssumption DEF Typed
<1>4. Typed'
  <2>1. taken \in Frames
    BY <1>0, <1>3 DEF Frames
  <2>2. Append(Popped, taken) \in Seq(Frames)
    BY <1>2, <2>1
  <2>3. QED
    BY <1>0, <1>1, <1>3, <2>2 DEF Typed
<1>5. buffer' = LastFrames(taken, n + 1)
  <2> HIDE DEF n
  <2>1. Append(LastFrames(taken - 1, n), (taken - 1) + 1) = LastFrames((taken - 1) + 1, n + 1)
    <3>1. taken - 1 \in Int /\ n \in Nat
      BY <1>3
    <3>2. QED
      BY <3>1, LastFramesProperties, Zenon
  <2>2. (taken - 1) + 1 = taken
    BY <1>3
  <2>3. QED
    BY <1>0, <1>2, <2>1, <2>2
<1>6. Len(buffer') = n + 1 /\ n + 1 = Kept(taken)
  <2>1. Len(Append(Popped, taken)) = n + 1
    BY <1>2
  <2>2. QED
    BY <1>0, <1>2, <1>3, <2>1 DEF Kept
<1>7. RecentBuffer'
  <2>1. taken' - 1 = taken /\ taken' > 0
    BY <1>0, <1>3
  <2>2. buffer' = LastFrames(taken' - 1, Len(buffer')) /\ Len(buffer') = Kept(taken' - 1)
    BY <1>5, <1>6, <2>1
  <2>3. QED
    BY <2>1, <2>2 DEF RecentBuffer, LastFrames, Kept
<1>8. RecentContext'
  BY <1>0, <1>1 DEF RecentContext, LastFrames, Kept
<1>9. QED
  BY <1>4, <1>7, <1>8 DEF RecentInv

(* An error pushes out at most the frame that the next one would push out.  *)
LEMMA TakeErrorRecentInv == RecentInv /\ TakeError => RecentInv'
<1> SUFFICES ASSUME RecentInv, TakeError PROVE RecentInv'
  OBVIOUS
<1>0. /\ thread = "take" /\ thread' = thread
      /\ taken' = taken /\ buffer' = Popped /\ tasks' = tasks
  BY DEF TakeError
<1>1. Typed /\ RecentBuffer /\ RecentContext
  BY DEF RecentInv
<1>2. /\ Popped \in Seq(Frames)
      /\ Popped = LastFrames(taken - 1, Len(Popped))
      /\ \/ Len(Popped) = taken /\ taken < Capacity(Rate)
         \/ Len(Popped) = Capacity(Rate) - 1 /\ taken >= Capacity(Rate)
  BY <1>0, <1>1, PoppedProperties
<1>3. taken \in Nat /\ Capacity(Rate) \in Nat \ {0}
  BY <1>1, CapacityPositive, SignerAssumption DEF Typed
<1>4. Typed'
  BY <1>0, <1>1, <1>2 DEF Typed
<1>5. \/ Len(Popped) = Kept(taken - 1)
      \/ Len(Popped) = Capacity(Rate) - 1 /\ taken >= Capacity(Rate)
  BY <1>2, <1>3 DEF Kept
<1>6. RecentBuffer'
  BY <1>0, <1>2, <1>5 DEF RecentBuffer, LastFrames, Kept
<1>7. RecentContext'
  BY <1>0, <1>1 DEF RecentContext, LastFrames, Kept
<1>8. QED
  BY <1>4, <1>6, <1>7 DEF RecentInv

(* What the controller asks for at a frame are requests, and a task for     *)
(* them gets the buffer as it is.                                           *)
LEMMA AskAsks ==
  ASSUME Typed, RecentBuffer, Ask
  PROVE  \E todo \in Seq(Request) :
           /\ tasks' = Append(tasks, [frame |-> taken - 1, context |-> buffer, todo |-> todo])
           /\ [frame |-> taken - 1, context |-> buffer, todo |-> todo] \in Task
           /\ asked' = asked \cup Range(todo)
           /\ \A k \in DOMAIN todo : todo[k].frame = taken - 1 /\ todo[k].k = k
<1>1. PICK wish \in Wishes :
        LET todo == [ k \in 1..Len(wish) |->
                        [frame |-> taken - 1, k |-> k, start |-> wish[k]] ]
        IN  /\ asked' = asked \cup Range(todo)
            /\ tasks' = Append(tasks, [frame |-> taken - 1, context |-> buffer, todo |-> todo])
  BY DEF Ask
<1>2. thread = "ask" /\ taken \in Nat /\ taken > 0 /\ taken <= VideoLen
  BY SignerAssumption DEF Typed, RecentBuffer, Ask
<1> DEFINE todo == [ k \in 1..Len(wish) |-> [frame |-> taken - 1, k |-> k, start |-> wish[k]] ]
<1>3. taken - 1 \in Frames
  BY <1>2, SignerAssumption DEF Frames
<1>4. wish \in Seq(Starts)
  <2>1. CASE wish = <<>>
    BY <2>1
  <2>2. ASSUME NEW s \in Starts, wish = <<s>>
        PROVE  wish \in Seq(Starts)
    BY <2>2
  <2>3. ASSUME NEW s \in Starts, NEW t \in Starts, wish = <<s, t>>
        PROVE  wish \in Seq(Starts)
    BY <2>3
  <2>4. QED
    BY <2>1, <2>2, <2>3 DEF Wishes
<1>5. todo \in Seq(Request)
  <2>1. Len(wish) \in Nat
    BY <1>4
  <2>2. \A k \in 1..Len(wish) : [frame |-> taken - 1, k |-> k, start |-> wish[k]] \in Request
    BY <1>3, <1>4, <2>1 DEF Request
  <2>3. QED
    BY <2>1, <2>2, IsASeq
<1>6. \A k \in DOMAIN todo : todo[k].frame = taken - 1 /\ todo[k].k = k
  OBVIOUS
<1> HIDE DEF todo
<1>7. [frame |-> taken - 1, context |-> buffer, todo |-> todo] \in Task
  BY <1>3, <1>5 DEF Task, Typed
<1>8. /\ asked' = asked \cup Range(todo)
      /\ tasks' = Append(tasks, [frame |-> taken - 1, context |-> buffer, todo |-> todo])
  BY <1>1 DEF todo
<1>9. QED
  BY <1>5, <1>6, <1>7, <1>8

(* The task is handed the buffer as it is for its frame.                    *)
LEMMA AskRecentInv == RecentInv /\ Ask => RecentInv'
<1> SUFFICES ASSUME RecentInv, Ask PROVE RecentInv'
  OBVIOUS
<1>1. Typed /\ RecentBuffer /\ RecentContext
  BY DEF RecentInv
<1>2. PICK todo \in Seq(Request) :
        /\ tasks' = Append(tasks, [frame |-> taken - 1, context |-> buffer, todo |-> todo])
        /\ [frame |-> taken - 1, context |-> buffer, todo |-> todo] \in Task
  BY <1>1, AskAsks
<1>3. thread = "ask" /\ thread' = "take" /\ taken' = taken /\ buffer' = buffer
  BY DEF Ask
<1>4. taken \in Nat /\ taken > 0 /\ taken <= VideoLen
  BY <1>1, <1>3, SignerAssumption DEF Typed, RecentBuffer
<1>5. buffer = LastFrames(taken - 1, Kept(taken - 1))
  BY <1>1, <1>3 DEF RecentBuffer
<1>6. PICK new \in Task : new = [frame |-> taken - 1, context |-> buffer, todo |-> todo]
  BY <1>2
<1>7. tasks \in Seq(Task) /\ tasks' = Append(tasks, new)
  BY <1>1, <1>2, <1>6 DEF Typed
<1>8. Typed'
  <2>1. Append(tasks, new) \in Seq(Task)
    BY <1>6, <1>7, AppendProperties
  <2>2. QED
    BY <1>1, <1>3, <1>7, <2>1 DEF Typed
<1>9. RecentBuffer'
  BY <1>3, <1>5, <1>1 DEF RecentBuffer, LastFrames, Kept
<1>10. RecentContext'
  <2> SUFFICES ASSUME NEW j \in DOMAIN tasks'
               PROVE  tasks'[j].context = LastFrames(tasks'[j].frame, Kept(tasks'[j].frame))
    BY DEF RecentContext, LastFrames, Kept
  <2>1. Len(tasks) \in Nat /\ DOMAIN tasks = 1..Len(tasks)
    BY <1>7
  <2>2. /\ DOMAIN tasks' = 1..(Len(tasks) + 1)
        /\ \A i \in 1..Len(tasks) : tasks'[i] = tasks[i]
        /\ tasks'[Len(tasks) + 1] = new
    BY <1>6, <1>7
  <2>3. CASE j = Len(tasks) + 1
    BY <1>5, <1>6, <2>2, <2>3
  <2>4. CASE j \in 1..Len(tasks)
    <3>1. tasks'[j] = tasks[j] /\ j \in DOMAIN tasks
      BY <2>1, <2>2, <2>4
    <3>2. QED
      BY <3>1, <1>1 DEF RecentContext
  <2>5. QED
    BY <2>1, <2>2, <2>3, <2>4
<1>11. QED
  BY <1>8, <1>9, <1>10 DEF RecentInv

(* Signing changes what a task has left to do, not what it works on.        *)
LEMMA SignRecentInv ==
  ASSUME RecentInv, NEW j \in DOMAIN tasks, Sign(j)
  PROVE  RecentInv'
<1>1. Typed /\ RecentBuffer /\ RecentContext
  BY DEF RecentInv
<1>2. /\ taken' = taken /\ thread' = thread /\ buffer' = buffer
      /\ tasks' = [tasks EXCEPT ![j].todo = Tail(tasks[j].todo)]
      /\ tasks[j].todo # <<>>
  BY DEF Sign
<1>3. tasks \in Seq(Task) /\ tasks[j] \in Task
  BY <1>1 DEF Typed
<1>4. Tail(tasks[j].todo) \in Seq(Request)
  BY <1>2, <1>3 DEF Task
<1>5. /\ tasks' = [tasks EXCEPT ![j] = [tasks[j] EXCEPT !.todo = Tail(tasks[j].todo)]]
      /\ [tasks[j] EXCEPT !.todo = Tail(tasks[j].todo)] \in Task
  BY <1>2, <1>3, <1>4 DEF Task
<1>6. tasks' \in Seq(Task)
  BY <1>3, <1>5
<1>7. Typed'
  BY <1>1, <1>2, <1>6 DEF Typed
<1>8. RecentBuffer'
  BY <1>1, <1>2 DEF RecentBuffer, LastFrames, Kept
<1>9. RecentContext'
  <2>1. /\ DOMAIN tasks' = DOMAIN tasks
        /\ \A i \in DOMAIN tasks : tasks'[i].frame = tasks[i].frame
                                  /\ tasks'[i].context = tasks[i].context
    BY <1>3, <1>5 DEF Task
  <2>2. QED
    BY <1>1, <2>1 DEF RecentContext, LastFrames, Kept
<1>10. QED
  BY <1>7, <1>8, <1>9 DEF RecentInv

(* The other steps touch neither the buffer nor the tasks.                  *)
LEMMA OtherRecentInv ==
  ASSUME RecentInv, Peek \/ TakeLast \/ TakeNone \/ Receive \/ ReceiveNone \/ UNCHANGED vars
  PROVE  RecentInv'
<1>1. Typed /\ RecentBuffer /\ RecentContext
  BY DEF RecentInv
<1>2. tasks' = tasks /\ buffer' = buffer
  BY DEF Peek, TakeLast, TakeNone, Receive, ReceiveNone, vars
<1>3. \/ taken' = taken
      \/ taken < VideoLen /\ taken' = taken + 1 /\ thread' = "done"
  BY DEF Peek, TakeLast, TakeNone, Receive, ReceiveNone, vars
<1>4. thread' \in {thread, "done"} \/ (thread = "peek" /\ thread' = "take")
  BY DEF Peek, TakeLast, TakeNone, Receive, ReceiveNone, vars
<1>5. Typed'
  BY <1>1, <1>2, <1>3, <1>4, SignerAssumption DEF Typed
<1>6. RecentBuffer'
  BY <1>1, <1>2, <1>3, <1>4 DEF RecentBuffer, LastFrames, Kept
<1>7. RecentContext'
  BY <1>1, <1>2 DEF RecentContext, LastFrames, Kept
<1>8. QED
  BY <1>5, <1>6, <1>7 DEF RecentInv

(* The invariant holds in every reachable state.                            *)
THEOREM RecentInvariant == Spec => []RecentInv
<1>1. Init => RecentInv
  BY InitRecentInv
<1>2. RecentInv /\ [Next]_vars => RecentInv'
  BY TakeFrameRecentInv, TakeErrorRecentInv, AskRecentInv, SignRecentInv, OtherRecentInv
     DEF Next
<1>3. QED
  BY <1>1, <1>2, PTL DEF Spec

(* Each signing task works on exactly the last frames up to its own, as     *)
(* many as a chunk may need or the video has had.                           *)
THEOREM ContextIsRecent == Spec => []RecentContext
<1>1. RecentInv => RecentContext
  BY DEF RecentInv
<1>2. QED
  BY <1>1, RecentInvariant, PTL

(* The buffer holds exactly the latest frames, and lacks at most the one    *)
(* that errors have pushed out before the next frame would (manager.rs:393).*)
THEOREM BufferIsRecent == Spec => []RecentBuffer
<1>1. RecentInv => RecentBuffer
  BY DEF RecentInv
<1>2. QED
  BY <1>1, RecentInvariant, PTL

-----------------------------------------------------------------------------
(* Types.                                                                   *)

(* Times are times.                                                         *)
LEMMA TimestampType ==
  ASSUME NEW n \in Nat
  PROVE  Timestamp(n) \in Nat
BY RateIsRate, PtsAtLeast, SignerAssumption DEF Timestamp

(* A chunk that sign does not refuse is cut out of the buffer from an index *)
(* of it on, and not beyond its end (manager.rs:443-459).                   *)
LEMMA CutWithinBuffer ==
  ASSUME NEW start \in Nat, NEW end \in Nat, NEW ctx \in Nat, NEW len \in Nat,
         Refusal(start, end, Offset, ctx) = "none"
  PROVE  /\ StartIdx(Rate, start, ctx) \in Nat
         /\ EndIdx(Rate, len, end) \in Int /\ EndIdx(Rate, len, end) <= len
<1>1. PICK d \in Nat : d = FloorMillis(start) - ctx
  <2>1. ~ (FloorMillis(start) < ctx)
    BY DEF Refusal
  <2>2. QED
    BY <2>1, FloorMillisBounds
<1>2. FramesCeil(Rate, d) \in Nat
  BY RateIsRate, CeilIsFirst
<1>3. ExcessFrames(Rate, end) \in Nat
  BY RateIsRate, NoExcess
<1>4. QED
  BY <1>1, <1>2, <1>3 DEF StartIdx, EndIdx

(* What a task answers to a request of its own is a result.                 *)
LEMMA AnswerType ==
  ASSUME NEW t \in Task, t.context # <<>>, NEW req \in Request,
         NEW result \in Answers(t, req)
  PROVE  result \in Result
<1>1. /\ t.frame \in Nat /\ t.frame + 1 \in Nat /\ t.context \in Seq(Frames)
      /\ t.context[1] \in Nat /\ Len(t.context) \in Nat /\ req.start \in Nat
  <2>1. t.frame \in Frames /\ t.context \in Seq(Frames) /\ req.start \in Starts
    BY DEF Task, Request
  <2>2. Len(t.context) \in Nat \ {0}
    BY <2>1
  <2>3. t.context[1] \in Frames
    BY <2>1, <2>2
  <2>4. \A n \in Frames : n \in Nat /\ n + 1 \in Nat
    BY SignerAssumption DEF Frames
  <2>5. req.start \in Nat
    BY <2>1, SignerAssumption
  <2>6. QED
    BY <2>1, <2>2, <2>3, <2>4, <2>5
<1>2. CASE RefusalOf(t, req) # "none"
  <2>1. result = [to |-> req, outcome |-> RefusalOf(t, req)]
    BY <1>2 DEF Answers
  <2>2. RefusalOf(t, req) \in Refused
    BY <1>2 DEF RefusalOf, Refusal, Refused
  <2>3. QED
    BY <2>1, <2>2 DEF Result, Answer
<1>3. CASE result = [to |-> req, outcome |-> "Jwk"]
  BY <1>3 DEF Result, Answer, Refused
<1>4. CASE RefusalOf(t, req) = "none" /\ result = SignedAs(t, req)
  <2> DEFINE a == StartIdx(Rate, req.start, Timestamp(t.context[1])) + 1
             b == EndIdx(Rate, Len(t.context), EndTime(t.frame))
             stop == FloorMillis(EndTime(t.frame))
             frames == SubSeq(t.context, a, b)
  <2>1. EndTime(t.frame) \in Nat /\ Timestamp(t.context[1]) \in Nat
    BY <1>1, TimestampType DEF EndTime
  <2>2. stop \in Nat
    BY <2>1, FloorMillisBounds
  <2>3. a \in Nat \ {0} /\ b \in Int /\ b <= Len(t.context)
    <3>1. Refusal(req.start, EndTime(t.frame), Offset, Timestamp(t.context[1])) = "none"
      BY <1>4 DEF RefusalOf
    <3>2. StartIdx(Rate, req.start, Timestamp(t.context[1])) \in Nat
      BY <1>1, <2>1, <3>1, CutWithinBuffer
    <3>3. /\ EndIdx(Rate, Len(t.context), EndTime(t.frame)) \in Int
          /\ EndIdx(Rate, Len(t.context), EndTime(t.frame)) <= Len(t.context)
      BY <1>1, <2>1, <3>1, CutWithinBuffer
    <3>4. QED
      BY <3>2, <3>3
  <2> HIDE DEF a, b
  <2>4. frames \in Seq(Frames)
    <3>1. \A i \in a..b : t.context[i] \in Frames
      BY <1>1, <2>3
    <3>2. a \in Int
      BY <2>3
    <3>3. QED
      BY <2>3, <3>1, <3>2, SubSeqProperties
  <2> HIDE DEF stop, frames
  <2>5. result = [to |-> req, outcome |-> "signed", stop |-> stop, frames |-> frames]
    BY <1>4 DEF SignedAs, stop, frames, a, b
  <2>6. QED
    BY <2>2, <2>4, <2>5 DEF Result, Answer
<1>5. QED
  BY <1>2, <1>3, <1>4 DEF Answers

(* The types that Typed leaves out.                                         *)
Rest ==
    /\ errs \in 0..MaxErrs
    /\ Len(buffer) <= Capacity(Rate)
    /\ channel \in Seq(Result) /\ received \in Seq(Result)
    /\ strict \in BOOLEAN
    /\ receiver \in {"open", "dropped", "finished"}
    /\ asked \subseteq Request
    /\ \A j \in DOMAIN tasks : tasks[j].context # <<>>

(* They hold at first.                                                      *)
LEMMA InitRest == Init => Rest
<1> SUFFICES ASSUME Init PROVE Rest
  OBVIOUS
<1>1. /\ errs = 0 /\ buffer = <<>> /\ tasks = <<>> /\ channel = <<>> /\ received = <<>>
      /\ strict \in BOOLEAN /\ receiver = "open" /\ asked = {}
  BY DEF Init
<1>2. <<>> \in Seq(Result) /\ Len(buffer) = 0
  BY <1>1, EmptySeq
<1>3. 0 <= Capacity(Rate) /\ 0 \in 0..MaxErrs
  BY CapacityPositive, SignerAssumption
<1>4. DOMAIN tasks = {}
  BY <1>1
<1>5. QED
  BY <1>1, <1>2, <1>3, <1>4 DEF Rest

(* What is sent are results.                                                *)
LEMMA SentType ==
  ASSUME channel \in Seq(Result), NEW result \in Result
  PROVE  Sent(result) \in Seq(Result)
BY AppendProperties DEF Sent

(* The steps of the thread.                                                 *)
LEMMA ThreadRest ==
  ASSUME RecentInv, Rest, Peek \/ TakeFrame \/ TakeError \/ TakeLast \/ TakeNone \/ Ask
  PROVE  Rest'
<1>1. CASE Peek
  BY <1>1, SignerAssumption DEF Peek, Rest
<1>2. CASE TakeFrame
  <2>1. /\ buffer' = Append(Popped, taken) /\ thread = "take"
        /\ UNCHANGED <<errs, tasks, channel, strict, receiver, received, asked>>
    BY <1>2 DEF TakeFrame
  <2>2. /\ Popped \in Seq(Frames)
        /\ \/ Len(Popped) = taken /\ taken < Capacity(Rate)
           \/ Len(Popped) = Capacity(Rate) - 1 /\ taken >= Capacity(Rate)
    BY <2>1, PoppedProperties DEF RecentInv
  <2>3. Len(buffer') = Len(Popped) + 1
    BY <2>1, <2>2
  <2>4. Len(buffer') <= Capacity(Rate)
    <3>1. Capacity(Rate) \in Nat /\ taken \in Nat
      BY CapacityPositive, SignerAssumption DEF RecentInv, Typed
    <3>2. QED
      BY <2>2, <2>3, <3>1
  <2>5. QED
    BY <2>1, <2>4 DEF Rest
<1>3. CASE TakeError
  <2>1. /\ buffer' = Popped /\ thread = "take" /\ errs' = errs + 1 /\ errs < MaxErrs
        /\ channel' = Sent(StreamError)
        /\ UNCHANGED <<tasks, strict, receiver, received, asked>>
    BY <1>3 DEF TakeError
  <2>2. Len(Popped) <= Capacity(Rate)
    <3>1. \/ Len(Popped) = taken /\ taken < Capacity(Rate)
          \/ Len(Popped) = Capacity(Rate) - 1 /\ taken >= Capacity(Rate)
      BY <2>1, PoppedProperties DEF RecentInv
    <3>2. Capacity(Rate) \in Nat /\ taken \in Nat
      BY CapacityPositive, SignerAssumption DEF RecentInv, Typed
    <3>3. QED
      BY <3>1, <3>2
  <2>3. channel' \in Seq(Result)
    BY <2>1, SentType DEF Rest, Result
  <2>4. errs' \in 0..MaxErrs
    BY <2>1, SignerAssumption DEF Rest
  <2>5. QED
    BY <2>1, <2>2, <2>3, <2>4 DEF Rest
<1>4. CASE TakeLast
  <2>1. errs' \in 0..MaxErrs
    BY <1>4, SignerAssumption DEF TakeLast, Rest
  <2>2. QED
    BY <1>4, <2>1 DEF TakeLast, Rest
<1>5. CASE TakeNone
  BY <1>5 DEF TakeNone, Rest
<1>6. CASE Ask
  <2>1. PICK todo \in Seq(Request) :
          /\ tasks' = Append(tasks, [frame |-> taken - 1, context |-> buffer, todo |-> todo])
          /\ [frame |-> taken - 1, context |-> buffer, todo |-> todo] \in Task
          /\ asked' = asked \cup Range(todo)
    BY <1>6, AskAsks DEF RecentInv
  <2>2. /\ UNCHANGED <<errs, buffer, channel, strict, receiver, received>>
        /\ thread = "ask"
    BY <1>6 DEF Ask
  <2>3. PICK new \in Task : new = [frame |-> taken - 1, context |-> buffer, todo |-> todo]
    BY <2>1
  <2>4. tasks \in Seq(Task) /\ tasks' = Append(tasks, new)
    BY <2>1, <2>3 DEF RecentInv, Typed
  <2>6. /\ Len(tasks) \in Nat /\ DOMAIN tasks = 1..Len(tasks)
        /\ DOMAIN tasks' = 1..(Len(tasks) + 1)
        /\ \A j \in 1..Len(tasks) : tasks'[j] = tasks[j]
        /\ tasks'[Len(tasks) + 1] = new
    BY <2>4
  <2>8. asked' \subseteq Request
    BY <2>1, RangeOfSeq DEF Rest
  <2>9. buffer # <<>>
    <3>1. /\ taken > 0 /\ taken \in Nat /\ buffer \in Seq(Frames)
          /\ Len(buffer) = Kept(taken - 1)
      BY <2>2, SignerAssumption DEF RecentInv, RecentBuffer, Typed
    <3>2. Kept(taken - 1) > 0
      BY <3>1, CapacityPositive DEF Kept
    <3>3. QED
      BY <3>1, <3>2
  <2>10. \A j \in DOMAIN tasks' : tasks'[j].context # <<>>
    <3>1. \A j \in 1..(Len(tasks) + 1) : j \in 1..Len(tasks) \/ j = Len(tasks) + 1
      BY <2>6
    <3>2. QED
      BY <2>3, <2>6, <2>9, <3>1 DEF Rest
  <2>11. QED
    BY <2>2, <2>8, <2>10 DEF Rest
<1>7. QED
  BY <1>1, <1>2, <1>3, <1>4, <1>5, <1>6

(* A task signs.                                                            *)
LEMMA SignRest ==
  ASSUME RecentInv, Rest, NEW j \in DOMAIN tasks, Sign(j)
  PROVE  Rest'
<1>1. /\ UNCHANGED <<errs, buffer, strict, receiver, received, asked>>
      /\ tasks[j].todo # <<>>
      /\ tasks' = [tasks EXCEPT ![j].todo = Tail(@)]
  BY DEF Sign
<1>2. tasks \in Seq(Task) /\ tasks[j] \in Task
  BY DEF RecentInv, Typed
<1>3. PICK result \in Answers(tasks[j], Head(tasks[j].todo)) : channel' = Sent(result)
  BY DEF Sign
<1>4. channel' \in Seq(Result)
  <2>1. Head(tasks[j].todo) \in Request
    <3>1. tasks[j].todo \in Seq(Request)
      BY <1>2 DEF Task
    <3>2. QED
      BY <1>1, <3>1, HeadTailProperties
  <2>2. tasks[j].context # <<>>
    BY DEF Rest
  <2>3. result \in Result
    <3>1. PICK req \in Request : req = Head(tasks[j].todo)
      BY <2>1
    <3>2. PICK t \in Task : t = tasks[j]
      BY <1>2
    <3>3. t.context # <<>> /\ result \in Answers(t, req)
      BY <1>3, <2>2, <3>1, <3>2
    <3>4. QED
      BY <3>3, AnswerType
  <2>4. QED
    BY <1>3, <2>3, SentType DEF Rest
<1>5. \A i \in DOMAIN tasks' : tasks'[i].context # <<>>
  <2>1. /\ DOMAIN tasks' = DOMAIN tasks
        /\ \A i \in DOMAIN tasks : tasks'[i].context = tasks[i].context
    BY <1>1, <1>2 DEF Task
  <2>2. QED
    BY <2>1 DEF Rest
<1>6. QED
  BY <1>1, <1>4, <1>5 DEF Rest

(* The receiver takes the first of the channel, and may drop the rest.      *)
LEMMA ReceiverRest ==
  ASSUME Rest, Receive \/ ReceiveNone \/ UNCHANGED vars
  PROVE  Rest'
<1>1. CASE Receive
  <2>1. /\ channel # <<>> /\ received' = Append(received, Head(channel))
        /\ channel' \in {<<>>, Tail(channel)} /\ receiver' \in {"dropped", receiver}
        /\ UNCHANGED <<errs, buffer, tasks, strict, asked>>
    BY <1>1 DEF Receive
  <2>2. Head(channel) \in Result /\ Tail(channel) \in Seq(Result) /\ <<>> \in Seq(Result)
    BY <2>1, HeadTailProperties, EmptySeq DEF Rest
  <2>3. received' \in Seq(Result)
    BY <2>1, <2>2, AppendProperties DEF Rest
  <2>4. QED
    BY <2>1, <2>2, <2>3 DEF Rest
<1>2. CASE ReceiveNone
  BY <1>2 DEF ReceiveNone, Rest
<1>3. CASE UNCHANGED vars
  BY <1>3 DEF vars, Rest
<1>4. QED
  BY <1>1, <1>2, <1>3

(* The variables of the signer have their types: in particular every chunk  *)
(* is cut out of frames that are in the buffer.                             *)
THEOREM SignerTypes == Spec => []TypeOK
<1>1. RecentInv /\ Rest /\ [Next]_vars => Rest'
  BY ThreadRest, SignRest, ReceiverRest DEF Next
<1>2. RecentInv /\ Rest => TypeOK
  BY DEF RecentInv, Typed, Rest, TypeOK
<1>3. QED
  BY <1>1, <1>2, InitRest, RecentInvariant, PTL DEF Spec

-----------------------------------------------------------------------------
(* Every request is answered once.                                          *)

(* What has been sent, received or not, in order.                           *)
Log == received \o channel
IsAnswer(r) == r.outcome # "Stream"

(* What is left to do was asked for, at the frame of its task, and is there *)
(* only once; what will be asked for is asked for at a later frame.         *)
TodoAsked ==
    \A j \in DOMAIN tasks : \A i \in DOMAIN tasks[j].todo :
        tasks[j].todo[i] \in asked /\ tasks[j].todo[i].frame = tasks[j].frame
TodoOnce ==
    \A j, l \in DOMAIN tasks : \A i \in DOMAIN tasks[j].todo, h \in DOMAIN tasks[l].todo :
        tasks[j].todo[i] = tasks[l].todo[h] => j = l /\ i = h
AskedBefore == \A req \in asked : req.frame < taken /\ (thread = "ask" => req.frame + 1 < taken)
PeekFirst == thread = "peek" => taken = 0
TodoInv == TodoAsked /\ TodoOnce /\ AskedBefore /\ PeekFirst

(* As long as nothing was dropped, what has been asked for is either sent,  *)
(* once, or left to do, and every error is on its way.                      *)
SentOnce ==
    \A k, m \in DOMAIN Log :
        IsAnswer(Log[k]) /\ IsAnswer(Log[m]) /\ Log[k].to = Log[m].to => k = m
SentOrTodo ==
    \A k \in DOMAIN Log : IsAnswer(Log[k]) =>
        /\ Log[k].to \in asked
        /\ \A j \in DOMAIN tasks : \A i \in DOMAIN tasks[j].todo : tasks[j].todo[i] # Log[k].to
NoneForgotten ==
    \A req \in asked :
        \/ \E k \in DOMAIN Log : IsAnswer(Log[k]) /\ Log[k].to = req
        \/ \E j \in DOMAIN tasks : \E i \in DOMAIN tasks[j].todo : tasks[j].todo[i] = req
ErrorsSent == taken > 0 \/ thread # "done" => Cardinality(ErrorsIn(Log)) = errs
LogInv == receiver # "dropped" => SentOnce /\ SentOrTodo /\ NoneForgotten /\ ErrorsSent

(* When the stream is over nobody sends any more.                           *)
Over ==
    receiver = "finished" =>
        thread = "done" /\ channel = <<>> /\ \A j \in DOMAIN tasks : tasks[j].todo = <<>>

AccountInv == RecentInv /\ Rest /\ TodoInv /\ LogInv /\ Over

(* What is sent comes last in the log.                                      *)
LEMMA LogGrows ==
  ASSUME NEW L \in Seq(Result), NEW x \in Result
  PROVE  /\ Append(L, x) \in Seq(Result)
         /\ Len(L) \in Nat /\ DOMAIN L = 1..Len(L) /\ DOMAIN Append(L, x) = 1..(Len(L) + 1)
         /\ \A k \in 1..Len(L) : Append(L, x)[k] = L[k]
         /\ Append(L, x)[Len(L) + 1] = x
         /\ IsFiniteSet(ErrorsIn(L)) /\ Cardinality(ErrorsIn(L)) \in Nat
         /\ Cardinality(ErrorsIn(Append(L, x)))
               = IF IsAnswer(x) THEN Cardinality(ErrorsIn(L)) ELSE Cardinality(ErrorsIn(L)) + 1
<1> DEFINE M == Append(L, x)
           n == Len(L)
<1>1. /\ M \in Seq(Result) /\ n \in Nat /\ DOMAIN L = 1..n /\ DOMAIN M = 1..(n + 1)
      /\ \A k \in 1..n : M[k] = L[k]
      /\ M[n + 1] = x
  OBVIOUS
<1> HIDE DEF M, n
<1>2. IsFiniteSet(ErrorsIn(L)) /\ Cardinality(ErrorsIn(L)) \in Nat
  <2>1. IsFiniteSet(1..n)
    BY <1>1, FS_Interval
  <2>2. ErrorsIn(L) \subseteq 1..n
    BY <1>1 DEF ErrorsIn
  <2>3. QED
    BY <2>1, <2>2, FS_Subset, FS_CardinalityType
<1>3. CASE IsAnswer(x)
  <2>1. ErrorsIn(M) = ErrorsIn(L)
    BY <1>1, <1>3 DEF ErrorsIn, IsAnswer
  <2>2. QED
    BY <1>1, <1>2, <1>3, <2>1 DEF M, n
<1>4. CASE ~ IsAnswer(x)
  <2>1. ErrorsIn(M) = ErrorsIn(L) \cup {n + 1} /\ n + 1 \notin ErrorsIn(L)
    BY <1>1, <1>4 DEF ErrorsIn, IsAnswer
  <2>2. Cardinality(ErrorsIn(M)) = Cardinality(ErrorsIn(L)) + 1
    BY <1>2, <2>1, FS_AddElement
  <2>3. QED
    BY <1>1, <1>2, <1>4, <2>2 DEF M, n
<1>5. QED
  BY <1>3, <1>4

(* Sending appends to the log as long as there is a receiver.               *)
LEMMA LogSent ==
  ASSUME Rest, receiver = "open", NEW x \in Result, channel' = Sent(x), received' = received
  PROVE  Log \in Seq(Result) /\ Log' = Append(Log, x)
<1>1. channel \in Seq(Result) /\ received \in Seq(Result)
  BY DEF Rest
<1>2. channel' = Append(channel, x)
  BY DEF Sent
<1>3. received \o Append(channel, x) = Append(received \o channel, x)
  <2>1. /\ received \o Append(channel, x) \in Seq(Result)
        /\ Append(received \o channel, x) \in Seq(Result)
        /\ received \o channel \in Seq(Result)
    BY <1>1, ConcatProperties, AppendProperties
  <2>2. /\ Len(received \o Append(channel, x)) = Len(received) + Len(channel) + 1
        /\ Len(Append(received \o channel, x)) = Len(received) + Len(channel) + 1
    BY <1>1, <2>1
  <2>3. \A k \in 1..(Len(received) + Len(channel) + 1) :
           (received \o Append(channel, x))[k] = Append(received \o channel, x)[k]
    BY <1>1
  <2>4. QED
    BY <2>1, <2>2, <2>3, SeqEqual
<1>4. QED
  BY <1>1, <1>2, <1>3, ConcatProperties DEF Log

(* Receiving moves a result from the channel, and leaves the log as it is.  *)
LEMMA LogReceived ==
  ASSUME Rest, Receive, receiver' # "dropped"
  PROVE  Log' = Log
<1>1. channel \in Seq(Result) /\ received \in Seq(Result) /\ channel # <<>>
  BY DEF Rest, Receive
<1>2. received' = Append(received, Head(channel)) /\ channel' = Tail(channel)
  BY DEF Receive
<1>3. Append(received, Head(channel)) \o Tail(channel) = received \o channel
  <2>1. Head(channel) \in Result /\ Tail(channel) \in Seq(Result) /\ Len(channel) \in Nat \ {0}
    BY <1>1
  <2>2. /\ Append(received, Head(channel)) \o Tail(channel) \in Seq(Result)
        /\ received \o channel \in Seq(Result)
    BY <1>1, <2>1, ConcatProperties, AppendProperties
  <2>3. /\ Len(Append(received, Head(channel)) \o Tail(channel)) = Len(received) + Len(channel)
        /\ Len(received \o channel) = Len(received) + Len(channel)
    BY <1>1, <2>1
  <2>4. \A k \in 1..(Len(received) + Len(channel)) :
           (Append(received, Head(channel)) \o Tail(channel))[k] = (received \o channel)[k]
    BY <1>1, <2>1
  <2>5. QED
    BY <2>2, <2>3, <2>4, SeqEqual
<1>4. QED
  BY <1>2, <1>3 DEF Log

(* At first nothing was asked for, and nothing sent.                        *)
LEMMA InitAccount == Init => TodoInv /\ LogInv /\ Over
<1> SUFFICES ASSUME Init PROVE TodoInv /\ LogInv /\ Over
  OBVIOUS
<1>1. /\ taken = 0 /\ errs = 0 /\ tasks = <<>> /\ channel = <<>> /\ received = <<>>
      /\ receiver = "open" /\ asked = {} /\ thread = "peek"
  BY DEF Init
<1>2. DOMAIN tasks = {}
  BY <1>1
<1>3. TodoInv /\ Over
  BY <1>1, <1>2 DEF TodoInv, TodoAsked, TodoOnce, AskedBefore, PeekFirst, Over
<1>4. DOMAIN Log = {}
  BY <1>1 DEF Log
<1>5. Cardinality(ErrorsIn(Log)) = 0
  <2>1. ErrorsIn(Log) = {}
    BY <1>4 DEF ErrorsIn
  <2>2. QED
    BY <2>1, FS_EmptySet
<1>6. LogInv
  BY <1>1, <1>4, <1>5 DEF LogInv, SentOnce, SentOrTodo, NoneForgotten, ErrorsSent
<1>7. QED
  BY <1>3, <1>6

(* Frames are taken and errors end the video without a word to the tasks.   *)
LEMMA TakeAccount ==
  ASSUME AccountInv, Peek \/ TakeFrame \/ TakeLast \/ TakeNone
  PROVE  TodoInv' /\ LogInv' /\ Over'
<1>1. /\ UNCHANGED <<tasks, channel, receiver, received, asked>>
      /\ thread # "done" /\ thread # "ask"
      /\ \/ taken' = taken /\ thread' # "ask"
         \/ taken' = taken + 1
  BY DEF Peek, TakeFrame, TakeLast, TakeNone
<1>2. taken \in Nat /\ \A req \in asked : req.frame \in Nat
  BY SignerAssumption DEF AccountInv, RecentInv, Typed, Rest, Request, Frames
<1>3. TodoInv'
  <2>1. PeekFirst'
    BY <1>1 DEF Peek, TakeFrame, TakeLast, TakeNone, PeekFirst
  <2>2. QED
    BY <1>1, <1>2, <2>1 DEF AccountInv, TodoInv, TodoAsked, TodoOnce, AskedBefore
<1>4. Over'
  BY <1>1 DEF AccountInv, Over
<1>5. Log' = Log
  BY <1>1 DEF Log
<1>6. LogInv'
  <2>1. SUFFICES ASSUME receiver # "dropped" PROVE SentOnce' /\ SentOrTodo' /\ NoneForgotten' /\ ErrorsSent'
    BY <1>1 DEF LogInv
  <2>2. SentOnce /\ SentOrTodo /\ NoneForgotten /\ ErrorsSent
    BY <2>1 DEF AccountInv, LogInv
  <2>3. SentOnce' /\ SentOrTodo' /\ NoneForgotten'
    BY <1>1, <1>5, <2>2 DEF SentOnce, SentOrTodo, NoneForgotten
  <2>4. receiver = "open"
    <3>1. receiver # "finished"
      BY <1>1 DEF AccountInv, Over
    <3>2. QED
      BY <2>1, <3>1 DEF AccountInv, Rest
  <2>5. taken' > 0 \/ thread' # "done" => errs' = errs
    <3>1. CASE Peek
      BY <2>4, <3>1 DEF Peek, AccountInv, TodoInv, PeekFirst
    <3>2. CASE TakeFrame \/ TakeLast \/ TakeNone
      BY <2>4, <3>2 DEF TakeFrame, TakeLast, TakeNone
    <3>3. QED
      BY <3>1, <3>2
  <2>6. ErrorsSent'
    BY <1>1, <1>5, <2>2, <2>5 DEF ErrorsSent, ErrorsIn
  <2>7. QED
    BY <2>3, <2>6
<1>7. QED
  BY <1>3, <1>4, <1>6

(* An error is sent on.                                                     *)
LEMMA TakeErrorAccount ==
  ASSUME AccountInv, TakeError
  PROVE  TodoInv' /\ LogInv' /\ Over'
<1>1. /\ UNCHANGED <<taken, thread, tasks, strict, receiver, received, asked>>
      /\ thread = "take" /\ receiver = "open" /\ taken > 0
      /\ errs' = errs + 1 /\ channel' = Sent(StreamError)
  BY DEF TakeError
<1>2. TodoInv' /\ Over'
  BY <1>1 DEF AccountInv, TodoInv, TodoAsked, TodoOnce, AskedBefore, PeekFirst, Over
<1>3. SentOnce /\ SentOrTodo /\ NoneForgotten /\ Cardinality(ErrorsIn(Log)) = errs
  BY <1>1 DEF AccountInv, LogInv, ErrorsSent
<1>4. StreamError \in Result /\ ~ IsAnswer(StreamError)
  BY DEF Result, StreamError, IsAnswer
<1>5. Log \in Seq(Result) /\ Log' = Append(Log, StreamError)
  BY <1>1, <1>4, LogSent DEF AccountInv
<1>6. /\ Len(Log) \in Nat /\ DOMAIN Log = 1..Len(Log) /\ DOMAIN Log' = 1..(Len(Log) + 1)
      /\ \A k \in 1..Len(Log) : Log'[k] = Log[k]
      /\ Log'[Len(Log) + 1] = StreamError
      /\ Cardinality(ErrorsIn(Append(Log, StreamError))) = Cardinality(ErrorsIn(Log)) + 1
  BY <1>4, <1>5, LogGrows
<1>7. \A k \in DOMAIN Log' : IsAnswer(Log'[k]) => k \in DOMAIN Log /\ Log'[k] = Log[k]
  BY <1>4, <1>6
<1>8. SentOnce'
  BY <1>3, <1>7 DEF SentOnce, IsAnswer
<1>9. SentOrTodo'
  BY <1>1, <1>3, <1>7 DEF SentOrTodo, IsAnswer
<1>10. NoneForgotten'
  <2>1. \A k \in DOMAIN Log : k \in DOMAIN Log' /\ Log'[k] = Log[k]
    BY <1>6
  <2>2. QED
    BY <1>1, <1>3, <2>1 DEF NoneForgotten, IsAnswer
<1>11. ErrorsSent'
  <2>1. ErrorsIn(Log') = ErrorsIn(Append(Log, StreamError))
    BY <1>5
  <2>2. QED
    BY <1>1, <1>3, <1>6, <2>1 DEF ErrorsSent, ErrorsIn
<1>12. QED
  BY <1>1, <1>2, <1>8, <1>9, <1>10, <1>11 DEF LogInv

(* The requests of a frame are new, and left to do.                         *)
LEMMA AskAccount ==
  ASSUME AccountInv, Ask
  PROVE  TodoInv' /\ LogInv' /\ Over'
<1>1. /\ UNCHANGED <<taken, errs, buffer, channel, strict, receiver, received>>
      /\ thread = "ask" /\ thread' = "take"
  BY DEF Ask
<1>2. PICK todo \in Seq(Request) :
        /\ tasks' = Append(tasks, [frame |-> taken - 1, context |-> buffer, todo |-> todo])
        /\ [frame |-> taken - 1, context |-> buffer, todo |-> todo] \in Task
        /\ asked' = asked \cup Range(todo)
        /\ \A k \in DOMAIN todo : todo[k].frame = taken - 1 /\ todo[k].k = k
  BY AskAsks DEF AccountInv, RecentInv
<1>3. PICK new \in Task :
        /\ new.frame = taken - 1 /\ new.todo = todo
        /\ tasks' = Append(tasks, new)
  BY <1>2
<1>4. tasks \in Seq(Task) /\ taken \in Nat /\ taken > 0
      /\ \A req \in asked : req.frame \in Nat /\ req.frame + 1 < taken
  BY <1>1, SignerAssumption
     DEF AccountInv, RecentInv, RecentBuffer, Typed, Rest, Request, Frames, TodoInv, AskedBefore
<1>5. PICK n \in Nat :
        /\ DOMAIN tasks = 1..n /\ DOMAIN tasks' = 1..(n + 1)
        /\ \A j \in 1..n : tasks'[j] = tasks[j]
        /\ tasks'[n + 1] = new
  BY <1>3, <1>4
<1>6. /\ \A r \in asked' : r \in asked \/ \E i \in DOMAIN todo : r = todo[i]
      /\ asked \subseteq asked' /\ \A i \in DOMAIN todo : todo[i] \in asked'
  BY <1>2 DEF Range
<1>7. \A i \in DOMAIN todo : todo[i] \notin asked
  BY <1>2, <1>4
<1>8. TodoAsked /\ TodoOnce /\ AskedBefore
  BY DEF AccountInv, TodoInv
<1>9. \A j \in 1..(n + 1) : j \in 1..n \/ j = n + 1
  OBVIOUS
<1>10. TodoAsked'
  <2>1. ASSUME NEW j \in 1..n, NEW i \in DOMAIN tasks'[j].todo
        PROVE  tasks'[j].todo[i] \in asked' /\ tasks'[j].todo[i].frame = tasks'[j].frame
    BY <1>5, <1>6, <1>8 DEF TodoAsked
  <2>2. ASSUME NEW i \in DOMAIN tasks'[n + 1].todo
        PROVE  /\ tasks'[n + 1].todo[i] \in asked'
               /\ tasks'[n + 1].todo[i].frame = tasks'[n + 1].frame
    BY <1>2, <1>3, <1>5, <1>6
  <2>3. QED
    BY <1>5, <1>9, <2>1, <2>2 DEF TodoAsked
<1>11. TodoOnce'
  <2> SUFFICES ASSUME NEW j \in 1..(n + 1), NEW l \in 1..(n + 1),
                      NEW i \in DOMAIN tasks'[j].todo, NEW h \in DOMAIN tasks'[l].todo,
                      tasks'[j].todo[i] = tasks'[l].todo[h]
               PROVE  j = l /\ i = h
    BY <1>5 DEF TodoOnce
  <2>1. CASE j \in 1..n /\ l \in 1..n
    BY <1>5, <1>8, <2>1 DEF TodoOnce
  <2>2. CASE j \in 1..n /\ l = n + 1
    <3>1. tasks'[j].todo[i] \in asked
      BY <1>5, <1>8, <2>2 DEF TodoAsked
    <3>2. QED
      BY <1>3, <1>5, <1>7, <2>2, <3>1
  <2>3. CASE j = n + 1 /\ l \in 1..n
    <3>1. tasks'[l].todo[h] \in asked
      BY <1>5, <1>8, <2>3 DEF TodoAsked
    <3>2. QED
      BY <1>3, <1>5, <1>7, <2>3, <3>1
  <2>4. CASE j = n + 1 /\ l = n + 1
    <3>1. i \in DOMAIN todo /\ h \in DOMAIN todo /\ todo[i] = todo[h]
      BY <1>3, <1>5, <2>4
    <3>2. todo[i].k = i /\ todo[h].k = h
      BY <1>2, <3>1
    <3>3. QED
      BY <2>4, <3>1, <3>2
  <2>5. QED
    BY <1>9, <2>1, <2>2, <2>3, <2>4
<1>12. AskedBefore' /\ PeekFirst'
  BY <1>1, <1>2, <1>4, <1>6 DEF AskedBefore, PeekFirst
<1>13. Over'
  BY <1>1 DEF AccountInv, Over
<1>14. Log' = Log
  BY <1>1 DEF Log
<1>15. LogInv'
  <2>1. SUFFICES ASSUME receiver # "dropped"
                 PROVE  SentOnce' /\ SentOrTodo' /\ NoneForgotten' /\ ErrorsSent'
    BY <1>1 DEF LogInv
  <2>2. SentOnce /\ SentOrTodo /\ NoneForgotten /\ ErrorsSent
    BY <2>1 DEF AccountInv, LogInv
  <2>3. SentOnce'
    BY <1>14, <2>2 DEF SentOnce
  <2>4. SentOrTodo'
    <3> SUFFICES ASSUME NEW k \in DOMAIN Log, IsAnswer(Log[k])
                 PROVE  /\ Log[k].to \in asked'
                        /\ \A j \in DOMAIN tasks' : \A i \in DOMAIN tasks'[j].todo :
                              tasks'[j].todo[i] # Log[k].to
      BY <1>14 DEF SentOrTodo, IsAnswer
    <3>1. Log[k].to \in asked
      BY <2>2 DEF SentOrTodo
    <3>2. ASSUME NEW j \in 1..n, NEW i \in DOMAIN tasks'[j].todo
          PROVE  tasks'[j].todo[i] # Log[k].to
      BY <1>5, <2>2 DEF SentOrTodo
    <3>3. ASSUME NEW i \in DOMAIN tasks'[n + 1].todo
          PROVE  tasks'[n + 1].todo[i] # Log[k].to
      BY <1>3, <1>5, <1>7, <3>1
    <3>4. QED
      BY <1>5, <1>6, <1>9, <3>1, <3>2, <3>3
  <2>5. NoneForgotten'
    <3> SUFFICES ASSUME NEW req \in asked'
                 PROVE  \/ \E k \in DOMAIN Log : IsAnswer(Log[k]) /\ Log[k].to = req
                        \/ \E j \in DOMAIN tasks' : \E i \in DOMAIN tasks'[j].todo :
                              tasks'[j].todo[i] = req
      BY <1>14 DEF NoneForgotten, IsAnswer
    <3>1. CASE req \in asked
      <4>1. CASE \E k \in DOMAIN Log : IsAnswer(Log[k]) /\ Log[k].to = req
        BY <4>1
      <4>2. ASSUME NEW j \in DOMAIN tasks, NEW i \in DOMAIN tasks[j].todo, tasks[j].todo[i] = req
            PROVE  \E l \in DOMAIN tasks' : \E h \in DOMAIN tasks'[l].todo : tasks'[l].todo[h] = req
        <5>1. j \in DOMAIN tasks' /\ tasks'[j] = tasks[j]
          BY <1>5
        <5>2. QED
          BY <4>2, <5>1
      <4>3. QED
        BY <2>2, <3>1, <4>1, <4>2 DEF NoneForgotten
    <3>2. CASE \E i \in DOMAIN todo : req = todo[i]
      <4>1. n + 1 \in DOMAIN tasks' /\ tasks'[n + 1].todo = todo
        BY <1>3, <1>5
      <4>2. QED
        BY <3>2, <4>1
    <3>3. QED
      BY <1>6, <3>1, <3>2
  <2>6. ErrorsSent'
    BY <1>1, <1>14, <2>2 DEF ErrorsSent, ErrorsIn
  <2>7. QED
    BY <2>3, <2>4, <2>5, <2>6
<1>16. QED
  BY <1>10, <1>11, <1>12, <1>13, <1>15 DEF TodoInv

(* What comes of a request is an answer to it.                              *)
LEMMA AnswerAnswers ==
  ASSUME NEW t, NEW req, NEW result \in Answers(t, req)
  PROVE  result.to = req /\ IsAnswer(result)
<1>1. CASE RefusalOf(t, req) # "none"
  <2>1. result = [to |-> req, outcome |-> RefusalOf(t, req)]
    BY <1>1 DEF Answers
  <2>2. RefusalOf(t, req) # "Stream"
    BY DEF RefusalOf, Refusal
  <2>3. QED
    BY <2>1, <2>2 DEF IsAnswer
<1>2. CASE RefusalOf(t, req) = "none"
  BY <1>2 DEF Answers, SignedAs, IsAnswer
<1>3. QED
  BY <1>1, <1>2

(* A request moves from what a task has left to do into the log.            *)
LEMMA SignMoves ==
  ASSUME RecentInv, Rest, NEW j \in DOMAIN tasks, Sign(j)
  PROVE  /\ DOMAIN tasks' = DOMAIN tasks
         /\ \A l \in DOMAIN tasks : l # j => tasks'[l] = tasks[l]
         /\ tasks'[j].frame = tasks[j].frame /\ tasks'[j].context = tasks[j].context
         /\ tasks[j] \in Task /\ Len(tasks[j].todo) \in Nat \ {0}
         /\ DOMAIN tasks[j].todo = 1..Len(tasks[j].todo)
         /\ DOMAIN tasks'[j].todo = 1..(Len(tasks[j].todo) - 1)
         /\ \A i \in 1..(Len(tasks[j].todo) - 1) : tasks'[j].todo[i] = tasks[j].todo[i + 1]
         /\ Head(tasks[j].todo) = tasks[j].todo[1] /\ tasks[j].todo[1] \in Request
         /\ \E result \in Result :
              /\ result \in Answers(tasks[j], tasks[j].todo[1])
              /\ result.to = tasks[j].todo[1] /\ IsAnswer(result)
              /\ channel' = Sent(result)
<1>1. /\ tasks[j].todo # <<>>
      /\ tasks' = [tasks EXCEPT ![j].todo = Tail(tasks[j].todo)]
  BY DEF Sign
<1>2. PICK result \in Answers(tasks[j], Head(tasks[j].todo)) : channel' = Sent(result)
  BY DEF Sign
<1>3. PICK t \in Task : t = tasks[j] /\ t.context # <<>>
  BY DEF RecentInv, Typed, Rest
<1>4. PICK todo \in Seq(Request) : todo = t.todo
  BY <1>3 DEF Task
<1>5. /\ Len(todo) \in Nat \ {0} /\ DOMAIN todo = 1..Len(todo)
      /\ DOMAIN Tail(todo) = 1..(Len(todo) - 1)
      /\ \A i \in 1..(Len(todo) - 1) : Tail(todo)[i] = todo[i + 1]
      /\ Head(todo) = todo[1] /\ todo[1] \in Request
  BY <1>1, <1>3, <1>4
<1>6. /\ DOMAIN tasks' = DOMAIN tasks
      /\ \A l \in DOMAIN tasks : l # j => tasks'[l] = tasks[l]
      /\ tasks'[j].frame = tasks[j].frame /\ tasks'[j].context = tasks[j].context
      /\ tasks'[j].todo = Tail(todo)
  BY <1>1, <1>3, <1>4 DEF RecentInv, Typed, Task
<1>7. PICK req \in Request : req = todo[1]
  BY <1>5
<1>8. result \in Answers(t, req)
  BY <1>2, <1>3, <1>4, <1>5, <1>7
<1>9. result \in Result
  BY <1>3, <1>8, AnswerType
<1>10. result.to = req /\ IsAnswer(result)
  BY <1>8, AnswerAnswers
<1>11. QED
  BY <1>2, <1>3, <1>4, <1>5, <1>6, <1>7, <1>8, <1>9, <1>10

(* A task answers its next request.                                         *)
LEMMA SignAccount ==
  ASSUME AccountInv, NEW j \in DOMAIN tasks, Sign(j)
  PROVE  TodoInv' /\ LogInv' /\ Over'
<1>1. UNCHANGED <<taken, errs, thread, buffer, strict, receiver, received, asked>>
  BY DEF Sign
<1>2. PICK t \in Task : t = tasks[j]
  BY SignMoves DEF AccountInv
<1>3. PICK n \in Nat \ {0} : n = Len(t.todo)
  BY <1>2, SignMoves DEF AccountInv
<1>4. /\ DOMAIN tasks' = DOMAIN tasks
      /\ \A l \in DOMAIN tasks : l # j => tasks'[l] = tasks[l]
      /\ tasks'[j].frame = tasks[j].frame
      /\ DOMAIN tasks[j].todo = 1..n /\ DOMAIN tasks'[j].todo = 1..(n - 1)
      /\ \A i \in 1..(n - 1) : tasks'[j].todo[i] = tasks[j].todo[i + 1]
  BY <1>2, <1>3, SignMoves DEF AccountInv
<1>5. PICK req \in Request : req = tasks[j].todo[1]
  BY SignMoves DEF AccountInv
<1>6. PICK result \in Result :
        result.to = req /\ IsAnswer(result) /\ channel' = Sent(result)
  BY <1>5, SignMoves DEF AccountInv
<1>7. 1 \in DOMAIN tasks[j].todo /\ tasks[j].todo # <<>>
      /\ \A i \in 1..(n - 1) : i + 1 \in DOMAIN tasks[j].todo /\ i + 1 # 1
  BY <1>4
<1>8. TodoAsked /\ TodoOnce /\ AskedBefore /\ PeekFirst
  BY DEF AccountInv, TodoInv
\* where a request that is still left to do was before
<1>9. ASSUME NEW l \in DOMAIN tasks, NEW h \in DOMAIN tasks'[l].todo
      PROVE  \E i \in DOMAIN tasks[l].todo :
                /\ tasks'[l].todo[h] = tasks[l].todo[i]
                /\ l = j => i = h + 1
                /\ l # j => i = h
                /\ tasks'[l].frame = tasks[l].frame
  BY <1>4, <1>7
<1>10. TodoAsked'
  <2> SUFFICES ASSUME NEW l \in DOMAIN tasks, NEW h \in DOMAIN tasks'[l].todo
               PROVE  tasks'[l].todo[h] \in asked /\ tasks'[l].todo[h].frame = tasks'[l].frame
    BY <1>1, <1>4 DEF TodoAsked
  <2>1. PICK i \in DOMAIN tasks[l].todo :
          tasks'[l].todo[h] = tasks[l].todo[i] /\ tasks'[l].frame = tasks[l].frame
    BY <1>9
  <2>2. QED
    BY <1>8, <2>1 DEF TodoAsked
<1>11. TodoOnce'
  <2> SUFFICES ASSUME NEW l \in DOMAIN tasks, NEW m \in DOMAIN tasks,
                      NEW h \in DOMAIN tasks'[l].todo, NEW g \in DOMAIN tasks'[m].todo,
                      tasks'[l].todo[h] = tasks'[m].todo[g]
               PROVE  l = m /\ h = g
    BY <1>4 DEF TodoOnce
  <2>1. PICK i \in DOMAIN tasks[l].todo :
          tasks'[l].todo[h] = tasks[l].todo[i] /\ (l = j => i = h + 1) /\ (l # j => i = h)
    BY <1>9
  <2>2. PICK k \in DOMAIN tasks[m].todo :
          tasks'[m].todo[g] = tasks[m].todo[k] /\ (m = j => k = g + 1) /\ (m # j => k = g)
    BY <1>9
  <2>3. tasks[l].todo[i] = tasks[m].todo[k]
    BY <2>1, <2>2, Zenon
  <2>4. l = m /\ i = k
    BY <1>8, <2>3 DEF TodoOnce
  <2>6. l = j => h \in 1..(n - 1) /\ g \in 1..(n - 1)
    BY <1>4, <2>4
  <2>7. QED
    BY <2>1, <2>2, <2>4, <2>6
<1>12. AskedBefore' /\ PeekFirst'
  BY <1>1, <1>8 DEF AskedBefore, PeekFirst
<1>13. receiver # "finished"
  BY <1>7 DEF AccountInv, Over
<1>14. Over'
  BY <1>1, <1>13 DEF Over
<1>15. LogInv'
  <2>1. SUFFICES ASSUME receiver # "dropped"
                 PROVE  SentOnce' /\ SentOrTodo' /\ NoneForgotten' /\ ErrorsSent'
    BY <1>1 DEF LogInv
  <2>2. SentOnce /\ SentOrTodo /\ NoneForgotten /\ ErrorsSent
    BY <2>1 DEF AccountInv, LogInv
  <2>3. receiver = "open"
    BY <1>13, <2>1 DEF AccountInv, Rest
  <2>4. Log \in Seq(Result) /\ Log' = Append(Log, result)
    BY <1>1, <1>6, <2>3, LogSent DEF AccountInv
  <2>5. PICK c \in Nat :
          /\ DOMAIN Log = 1..c /\ DOMAIN Log' = 1..(c + 1)
          /\ \A k \in 1..c : Log'[k] = Log[k]
          /\ Log'[c + 1] = result
    BY <2>4, LogGrows
  <2>6. \A k \in 1..(c + 1) : k \in 1..c \/ k = c + 1
    OBVIOUS
  <2>7. \A k \in 1..c : IsAnswer(Log[k]) => Log[k].to # req
    BY <1>5, <1>7, <2>2, <2>5 DEF SentOrTodo
  <2>8. SentOnce'
    BY <1>6, <2>2, <2>5, <2>6, <2>7 DEF SentOnce, IsAnswer
  <2>9. \A l \in DOMAIN tasks : \A h \in DOMAIN tasks'[l].todo : tasks'[l].todo[h] # req
    <3> SUFFICES ASSUME NEW l \in DOMAIN tasks, NEW h \in DOMAIN tasks'[l].todo,
                        tasks'[l].todo[h] = req
                 PROVE  FALSE
      OBVIOUS
    <3>1. PICK i \in DOMAIN tasks[l].todo :
            tasks'[l].todo[h] = tasks[l].todo[i] /\ (l = j => i = h + 1)
      BY <1>9
    <3>2. l = j /\ i = 1
      BY <1>5, <1>7, <1>8, <3>1 DEF TodoOnce
    <3>3. h \in 1..(n - 1)
      BY <1>4, <3>2
    <3>4. QED
      BY <3>1, <3>2, <3>3
  <2>10. SentOrTodo'
    <3> SUFFICES ASSUME NEW k \in 1..(c + 1), IsAnswer(Log'[k])
                 PROVE  /\ Log'[k].to \in asked
                        /\ \A l \in DOMAIN tasks : \A h \in DOMAIN tasks'[l].todo :
                              tasks'[l].todo[h] # Log'[k].to
      BY <1>1, <1>4, <2>5 DEF SentOrTodo, IsAnswer
    <3>1. CASE k = c + 1
      <4>1. req \in asked
        BY <1>5, <1>7, <1>8 DEF TodoAsked
      <4>2. QED
        BY <1>6, <2>5, <2>9, <3>1, <4>1
    <3>2. CASE k \in 1..c
      <4>1. /\ Log[k].to \in asked
            /\ \A l \in DOMAIN tasks : \A h \in DOMAIN tasks[l].todo : tasks[l].todo[h] # Log[k].to
        BY <2>2, <2>5, <3>2 DEF SentOrTodo
      <4>2. Log'[k] = Log[k]
        BY <2>5, <3>2
      <4>3. ASSUME NEW l \in DOMAIN tasks, NEW h \in DOMAIN tasks'[l].todo
            PROVE  tasks'[l].todo[h] # Log[k].to
        BY <1>9, <4>1
      <4>4. QED
        BY <4>1, <4>2, <4>3
    <3>3. QED
      BY <2>6, <3>1, <3>2
  <2>11. NoneForgotten'
    <3> SUFFICES ASSUME NEW r \in asked
                 PROVE  \/ \E k \in DOMAIN Log' : IsAnswer(Log'[k]) /\ Log'[k].to = r
                        \/ \E l \in DOMAIN tasks' : \E h \in DOMAIN tasks'[l].todo :
                              tasks'[l].todo[h] = r
      BY <1>1 DEF NoneForgotten, IsAnswer
    <3>1. CASE \E k \in DOMAIN Log : IsAnswer(Log[k]) /\ Log[k].to = r
      <4>1. PICK k \in DOMAIN Log : IsAnswer(Log[k]) /\ Log[k].to = r
        BY <3>1
      <4>2. k \in DOMAIN Log' /\ Log'[k] = Log[k]
        BY <2>5
      <4>3. QED
        BY <4>1, <4>2
    <3>2. ASSUME NEW l \in DOMAIN tasks, NEW i \in DOMAIN tasks[l].todo, tasks[l].todo[i] = r
          PROVE  \/ \E k \in DOMAIN Log' : IsAnswer(Log'[k]) /\ Log'[k].to = r
                 \/ \E m \in DOMAIN tasks' : \E h \in DOMAIN tasks'[m].todo : tasks'[m].todo[h] = r
      <4>1. CASE l # j
        <5>1. tasks'[l] = tasks[l] /\ l \in DOMAIN tasks'
          BY <1>4, <4>1
        <5>2. QED
          BY <3>2, <5>1
      <4>2. CASE l = j /\ i = 1
        <5>1. r = req
          BY <1>5, <3>2, <4>2
        <5>2. c + 1 \in DOMAIN Log'
          BY <2>5
        <5>3. QED
          BY <1>6, <2>5, <5>1, <5>2
      <4>3. CASE l = j /\ i # 1
        <5>1. i \in 1..n
          BY <1>4, <4>3
        <5>2. i - 1 \in 1..(n - 1) /\ (i - 1) + 1 = i
          BY <4>3, <5>1
        <5>3. i - 1 \in DOMAIN tasks'[j].todo /\ tasks'[j].todo[i - 1] = tasks[j].todo[i]
          BY <1>4, <5>2
        <5>4. QED
          BY <1>4, <3>2, <4>3, <5>3
      <4>4. QED
        BY <4>1, <4>2, <4>3
    <3>3. QED
      BY <2>2, <3>1, <3>2 DEF NoneForgotten
  <2>12. ErrorsSent'
    <3>1. Cardinality(ErrorsIn(Append(Log, result))) = Cardinality(ErrorsIn(Log))
      BY <1>6, <2>4, LogGrows
    <3>2. ErrorsIn(Log') = ErrorsIn(Append(Log, result))
      BY <2>4
    <3>3. QED
      BY <1>1, <2>2, <3>1, <3>2 DEF ErrorsSent, ErrorsIn
  <2>13. QED
    BY <2>8, <2>10, <2>11, <2>12
<1>16. QED
  BY <1>10, <1>11, <1>12, <1>14, <1>15 DEF TodoInv

(* A result is received, or the end, or the rest is dropped.                *)
LEMMA ReceiverAccount ==
  ASSUME AccountInv, Receive \/ ReceiveNone \/ UNCHANGED vars
  PROVE  TodoInv' /\ LogInv' /\ Over'
<1>1. UNCHANGED <<taken, errs, thread, tasks, asked>>
  BY DEF Receive, ReceiveNone, vars
<1>2. TodoInv'
  BY <1>1 DEF AccountInv, TodoInv, TodoAsked, TodoOnce, AskedBefore, PeekFirst
<1>3. CASE Receive
  <2>1. receiver = "open" /\ receiver' \in {"open", "dropped"}
    BY <1>3 DEF Receive
  <2>2. Over'
    BY <2>1 DEF Over
  <2>3. LogInv'
    <3>1. SUFFICES ASSUME receiver' # "dropped"
                   PROVE  SentOnce' /\ SentOrTodo' /\ NoneForgotten' /\ ErrorsSent'
      BY DEF LogInv
    <3>2. Log' = Log
      BY <1>3, <3>1, LogReceived DEF AccountInv
    <3>3. SentOnce /\ SentOrTodo /\ NoneForgotten /\ ErrorsSent
      BY <2>1 DEF AccountInv, LogInv
    <3>4. QED
      BY <1>1, <3>2, <3>3 DEF SentOnce, SentOrTodo, NoneForgotten, ErrorsSent, ErrorsIn
  <2>4. QED
    BY <1>2, <2>2, <2>3
<1>4. CASE ReceiveNone \/ UNCHANGED vars
  <2>1. /\ UNCHANGED <<channel, received>>
        /\ \/ receiver' = receiver
           \/ receiver = "open" /\ receiver' = "finished" /\ channel = <<>> /\ ~ SendersLeft
    BY <1>4 DEF ReceiveNone, vars
  <2>2. Over'
    BY <1>1, <2>1 DEF AccountInv, Over, SendersLeft
  <2>3. Log' = Log
    BY <2>1 DEF Log
  <2>4. receiver' # "dropped" => receiver # "dropped"
    BY <2>1
  <2>5. LogInv'
    BY <1>1, <2>3, <2>4
       DEF AccountInv, LogInv, SentOnce, SentOrTodo, NoneForgotten, ErrorsSent, ErrorsIn
  <2>6. QED
    BY <1>2, <2>2, <2>5
<1>5. QED
  BY <1>3, <1>4

(* Requests are accounted for in every reachable state.                     *)
THEOREM AccountInvariant == Spec => []AccountInv
<1>1. Init => AccountInv
  BY InitRecentInv, InitRest, InitAccount DEF AccountInv
<1>2. AccountInv /\ [Next]_vars => AccountInv'
  <2>1. SUFFICES ASSUME AccountInv, [Next]_vars PROVE AccountInv'
    OBVIOUS
  <2>2. RecentInv /\ Rest
    BY <2>1 DEF AccountInv
  <2>3. RecentInv'
    BY <2>1, <2>2, TakeFrameRecentInv, TakeErrorRecentInv, AskRecentInv, SignRecentInv,
       OtherRecentInv DEF Next
  <2>4. Rest'
    BY <2>1, <2>2, ThreadRest, SignRest, ReceiverRest DEF Next
  <2>5. TodoInv' /\ LogInv' /\ Over'
    BY <2>1, TakeAccount, TakeErrorAccount, AskAccount, SignAccount, ReceiverAccount DEF Next
  <2>6. QED
    BY <2>3, <2>4, <2>5 DEF AccountInv
<1>3. QED
  BY <1>1, <1>2, PTL DEF Spec

(* sign_with: when the stream of signatures is over, every chunk that the   *)
(* controller asked for has been answered exactly once and every error of   *)
(* the video was passed on, however threads and tasks interleave.           *)
THEOREM EveryRequestAnswered == Spec => []Accounted
<1>1. AccountInv => Accounted
  <2>1. SUFFICES ASSUME AccountInv, receiver = "finished"
                 PROVE  /\ \A req \in asked : \E k \in DOMAIN received : AnswersTo(req, received) = {k}
                        /\ \A k \in DOMAIN received :
                              k \in ErrorsIn(received) \/ received[k].to \in asked
                        /\ taken > 0 => Cardinality(ErrorsIn(received)) = errs
    BY DEF Accounted
  <2>2. channel = <<>> /\ \A j \in DOMAIN tasks : tasks[j].todo = <<>>
    BY <2>1 DEF AccountInv, Over
  <2>3. Log = received
    <3>1. received \in Seq(Result)
      BY <2>1 DEF AccountInv, Rest
    <3>2. QED
      BY <2>2, <3>1, ConcatEmptySeq DEF Log
  <2>4. SentOnce /\ SentOrTodo /\ NoneForgotten /\ ErrorsSent
    BY <2>1 DEF AccountInv, LogInv
  <2>5. ASSUME NEW req \in asked
        PROVE  \E k \in DOMAIN received : AnswersTo(req, received) = {k}
    <3>1. PICK k \in DOMAIN received : IsAnswer(received[k]) /\ received[k].to = req
      <4>1. \A j \in DOMAIN tasks : DOMAIN tasks[j].todo = {}
        BY <2>2
      <4>2. QED
        BY <2>3, <2>4, <4>1 DEF NoneForgotten
    <3>2. \A m \in DOMAIN received : IsAnswer(received[m]) /\ received[m].to = req => m = k
      BY <2>3, <2>4, <3>1 DEF SentOnce
    <3>3. AnswersTo(req, received) = {k}
      BY <3>1, <3>2 DEF AnswersTo, IsAnswer
    <3>4. QED
      BY <3>3
  <2>6. QED
    BY <2>3, <2>4, <2>5 DEF SentOrTodo, ErrorsSent, ErrorsIn, IsAnswer
<1>2. QED
  BY <1>1, AccountInvariant, PTL

-----------------------------------------------------------------------------
(* The right frames are signed.                                             *)

(* What it takes: at most a frame per millisecond, chunks that start at a   *)
(* whole millisecond (as the file keeps them), and buffers that start at a  *)
(* frame whose timestamp GStreamer has not truncated.  The last holds for   *)
(* every rate as long as the video is no longer than the buffer, whose      *)
(* first frame is then frame 0, and for a video of any length if every      *)
(* timestamp is exact, as at 25 frames per second.  It cannot be dropped:   *)
(* see ChunkFramesEvicted.                                                  *)
ExactTimes ==
    /\ MillisecondFrames(Rate)
    /\ \A s \in Starts : s % Tick = 0
    /\ \A f \in Frames : IsExact(Rate, f + 1 - Kept(f))

(* The frames presented from the start of a chunk on, in order.             *)
Within(req) == { n \in 0..(req.frame) : req.start <= Timestamp(n) }
MadeOf(frames, req) ==
    /\ Range(frames) = Within(req)
    /\ Len(frames) = Cardinality(Within(req))
    /\ \A i, k \in DOMAIN frames : i < k => frames[i] < frames[k]

Faithful(r, reqs) == r.outcome = "signed" => r.to \in reqs /\ MadeOf(r.frames, r.to)
FaithInv ==
    /\ \A k \in DOMAIN channel : Faithful(channel[k], asked)
    /\ \A k \in DOMAIN received : Faithful(received[k], asked)

(* No frame before the first of the buffer belongs to a chunk that starts   *)
(* no earlier than that one.                                                *)
LEMMA EarlierStart ==
  ASSUME MillisecondFrames(Rate), NEW n \in Nat, NEW m \in Nat, n < m
  PROVE  Timestamp(n) < Timestamp(m)
<1>1. PICK p \in Nat : p = Pts(Rate, n)
  BY RateIsRate, PtsAtLeast
<1>2. PICK q \in Nat : q = Pts(Rate, n + 1)
  BY RateIsRate, PtsAtLeast
<1>3. PICK z \in Nat : z = Pts(Rate, m)
  BY RateIsRate, PtsAtLeast
<1>4. p + Tick <= q
  BY <1>1, <1>2, RateIsRate, MillisecondApart
<1>5. q <= z
  BY <1>2, <1>3, RateIsRate, PtsMonotone
<1>6. Tick \in Nat \ {0} /\ Offset \in Nat
  BY TimeAssumption, SignerAssumption
<1>7. QED
  BY <1>1, <1>3, <1>4, <1>5, <1>6 DEF Timestamp

(* sign: what is cut out of the buffer for a chunk are the frames presented *)
(* within it (manager.rs:443-470).                                          *)
LEMMA SignedIsMadeOf ==
  ASSUME ExactTimes, NEW req \in Request, NEW t \in Task, t.frame = req.frame,
         t.context = LastFrames(t.frame, Kept(t.frame)), RefusalOf(t, req) = "none"
  PROVE  MadeOf(SignedAs(t, req).frames, req)
<1>1. PICK f \in Frames : f = t.frame /\ f = req.frame
  BY DEF Task
<1>2. f \in Nat
  BY SignerAssumption DEF Frames
<1>3. PICK start \in Nat : start = req.start /\ FloorMillis(start) = start
  BY SignerAssumption, AlignedIsWhole DEF Request, ExactTimes
<1>4. PICK len \in Nat \ {0} : len = Kept(f) /\ len <= f + 1
  BY <1>2, CapacityPositive DEF Kept
<1>5. PICK m \in Nat : m = f + 1 - len
  BY <1>2, <1>4
<1>6. PICK ctx \in Seq(Int) :
        ctx = t.context /\ Len(ctx) = len /\ \A i \in 1..len : ctx[i] = m + i - 1
  <2>1. t.context = LastFrames(f, len)
    BY <1>1, <1>4
  <2>2. LastFrames(f, len) \in Seq(Int) /\ Len(LastFrames(f, len)) = len
    BY <1>2, <1>4, LastFramesProperties
  <2>3. \A i \in 1..len : LastFrames(f, len)[i] = m + i - 1
    BY <1>2, <1>4, <1>5 DEF LastFrames
  <2>4. QED
    BY <2>1, <2>2, <2>3
<1>7. ctx[1] = m
  BY <1>4, <1>6
<1>8. PICK first \in Nat : first = Timestamp(m)
  BY TimestampType
<1>9. PICK end \in Nat : end = EndTime(f) /\ end = Timestamp(m + len)
  <2>1. f + 1 \in Nat /\ f + 1 = m + len
    BY <1>2, <1>4, <1>5
  <2>2. QED
    BY <2>1, TimestampType DEF EndTime
<1>10. start <= end /\ first <= start
  <2>1. Refusal(start, end, Offset, first) = "none"
    BY <1>1, <1>3, <1>6, <1>7, <1>8, <1>9 DEF RefusalOf
  <2>2. ~ (FloorMillis(end) < start) /\ ~ (FloorMillis(start) < first)
    BY <2>1 DEF Refusal
  <2>3. FloorMillis(end) \in Nat /\ FloorMillis(end) <= end
    BY FloorMillisBounds
  <2>4. QED
    BY <1>3, <2>2, <2>3
<1>11. PICK a \in Nat :
         /\ a = StartIdx(Rate, start, first)
         /\ \A i \in Nat : a <= i <=> start <= Timestamp(m + i)
  <2>1. IsExact(Rate, m) /\ Offset \in Nat
    BY <1>4, <1>5, SignerAssumption DEF ExactTimes
  <2>2. first = Offset + Pts(Rate, m)
    BY <1>8 DEF Timestamp
  <2>3. \A i \in Nat :
          /\ FramesCeil(Rate, start - (Offset + Pts(Rate, m))) \in Nat
          /\ FramesCeil(Rate, start - (Offset + Pts(Rate, m))) <= i
                <=> start <= Offset + Pts(Rate, m + i)
    BY <1>10, <2>1, <2>2, RateIsRate, CeilFromExact
  <2>4. StartIdx(Rate, start, first) = FramesCeil(Rate, start - (Offset + Pts(Rate, m)))
    BY <1>3, <2>2 DEF StartIdx
  <2>5. 0 \in Nat
    OBVIOUS
  <2>6. FramesCeil(Rate, start - (Offset + Pts(Rate, m))) \in Nat
    BY <2>3, <2>5
  <2>7. QED
    BY <2>3, <2>4, <2>6 DEF Timestamp
<1>12. EndIdx(Rate, len, end) = len
  <2>1. ExcessFrames(Rate, end) = 0
    BY RateIsRate, NoExcess DEF ExactTimes
  <2>2. QED
    BY <2>1 DEF EndIdx
<1>13. a <= len
  BY <1>9, <1>10, <1>11
<1>14. PICK frames \in Seq(Int) :
         /\ frames = SignedAs(t, req).frames
         /\ Len(frames) = len - a
         /\ \A i \in 1..(len - a) : frames[i] = m + a + i - 1
  <2>1. SignedAs(t, req).frames = SubSeq(ctx, a + 1, len)
    BY <1>1, <1>3, <1>6, <1>7, <1>8, <1>9, <1>11, <1>12 DEF SignedAs
  <2>2. /\ SubSeq(ctx, a + 1, len) \in Seq(Int)
        /\ Len(SubSeq(ctx, a + 1, len)) = len - a
        /\ \A i \in 1..(len - a) : SubSeq(ctx, a + 1, len)[i] = ctx[a + i]
    <3>1. a + 1 \in Int /\ len \in Int /\ \A i \in (a + 1)..len : ctx[i] \in Int
      BY <1>6
    <3>2. /\ SubSeq(ctx, a + 1, len) \in Seq(Int)
          /\ Len(SubSeq(ctx, a + 1, len)) = len - a
      BY <1>13, <3>1, SubSeqProperties
    <3>3. \A i \in 1..(len - a) : SubSeq(ctx, a + 1, len)[i] = ctx[a + i]
      BY <1>6, <1>13
    <3>4. QED
      BY <3>2, <3>3
  <2>3. \A i \in 1..(len - a) : ctx[a + i] = m + a + i - 1
    BY <1>6, <1>13
  <2>4. QED
    BY <2>1, <2>2, <2>3
<1>15. Within(req) = (m + a)..f
  <2>1. ASSUME NEW n \in 0..f
        PROVE  start <= Timestamp(n) <=> n \in (m + a)..f
    <3>1. CASE n < m
      <4>1. Timestamp(n) < first /\ Timestamp(n) \in Nat
        BY <1>8, <3>1, EarlierStart, TimestampType DEF ExactTimes
      <4>2. QED
        BY <1>2, <1>10, <3>1, <4>1
    <3>2. CASE ~ (n < m)
      <4>1. PICK i \in Nat : n = m + i
        BY <1>2, <3>2
      <4>2. a <= i <=> start <= Timestamp(n)
        BY <1>11, <4>1
      <4>3. QED
        BY <1>2, <4>1, <4>2
    <3>3. QED
      BY <3>1, <3>2
  <2>2. (m + a)..f \subseteq 0..f
    BY <1>2
  <2>3. QED
    BY <1>1, <1>3, <2>1, <2>2 DEF Within
<1>16. Cardinality(Within(req)) = len - a
  <2>1. m + a \in Int /\ f \in Int /\ f + 1 = m + len
    BY <1>2, <1>4, <1>5
  <2>2. Cardinality((m + a)..f) = IF m + a > f THEN 0 ELSE f - (m + a) + 1
    BY <2>1, FS_Interval
  <2>3. (IF m + a > f THEN 0 ELSE f - (m + a) + 1) = len - a
    BY <1>13, <2>1
  <2>4. QED
    BY <1>15, <2>2, <2>3, Zenon
<1>17. Range(frames) = (m + a)..f
  <2>0. f = m + len - 1
    BY <1>2, <1>4, <1>5
  <2>1. DOMAIN frames = 1..(len - a)
    BY <1>14
  <2>2. ASSUME NEW n \in (m + a)..f
        PROVE  n \in Range(frames)
    <3>1. PICK i \in Int : i = n - (m + a) + 1
      OBVIOUS
    <3>2. i \in 1..(len - a) /\ n = m + a + i - 1
      BY <1>2, <2>0, <3>1
    <3>3. QED
      BY <1>14, <2>1, <3>2 DEF Range
  <2>3. ASSUME NEW n \in Range(frames)
        PROVE  n \in (m + a)..f
    <3>1. PICK i \in 1..(len - a) : n = frames[i]
      BY <2>1 DEF Range
    <3>2. QED
      <4>1. n = m + a + i - 1 /\ i <= len - a /\ i >= 1
        BY <1>14, <3>1
      <4>2. QED
        BY <1>2, <2>0, <4>1
  <2>4. QED
    BY <2>2, <2>3
<1>18. \A i, k \in DOMAIN frames : i < k => frames[i] < frames[k]
  <2>1. DOMAIN frames = 1..(len - a)
    BY <1>14
  <2>2. SUFFICES ASSUME NEW i \in 1..(len - a), NEW k \in 1..(len - a), i < k
                 PROVE  frames[i] < frames[k]
    BY <2>1
  <2>3. frames[i] = m + a + i - 1 /\ frames[k] = m + a + k - 1
    BY <1>14
  <2>4. i \in Int /\ k \in Int /\ m + a \in Int
    BY <1>2
  <2>5. QED
    BY <2>2, <2>3, <2>4
<1>19. QED
  BY <1>14, <1>15, <1>16, <1>17, <1>18 DEF MadeOf

(* What is asked for stays asked for, so that what is faithful stays so.    *)
LEMMA FaithfulStays ==
  ASSUME FaithInv, asked \subseteq asked',
         \A k \in DOMAIN channel' :
            Faithful(channel'[k], asked') \/ \E i \in DOMAIN channel : channel'[k] = channel[i],
         \A k \in DOMAIN received' :
            \/ \E i \in DOMAIN received : received'[k] = received[i]
            \/ \E i \in DOMAIN channel : received'[k] = channel[i]
  PROVE  FaithInv'
<1>1. \A r : Faithful(r, asked) => Faithful(r, asked')
  BY DEF Faithful
<1>2. \A k \in DOMAIN channel' : Faithful(channel'[k], asked')
  BY <1>1 DEF FaithInv
<1>3. \A k \in DOMAIN received' : Faithful(received'[k], asked')
  BY <1>1 DEF FaithInv
<1>4. QED
  BY <1>2, <1>3 DEF FaithInv

(* The thread sends no signature.                                           *)
LEMMA ThreadFaithful ==
  ASSUME AccountInv, FaithInv,
         Peek \/ TakeFrame \/ TakeError \/ TakeLast \/ TakeNone \/ Ask
  PROVE  FaithInv'
<1>1. received' = received /\ asked \subseteq asked'
  BY DEF Peek, TakeFrame, TakeError, TakeLast, TakeNone, Ask
<1>2. channel' = channel \/ channel' = Append(channel, StreamError)
  BY DEF Peek, TakeFrame, TakeError, TakeLast, TakeNone, Ask, Sent
<1>3. channel \in Seq(Result) /\ StreamError \in Result
  BY DEF AccountInv, Rest, Result
<1>4. ASSUME NEW k \in DOMAIN channel'
      PROVE  channel'[k] = StreamError \/ \E i \in DOMAIN channel : channel'[k] = channel[i]
  <2>1. CASE channel' = channel
    BY <2>1
  <2>2. CASE channel' = Append(channel, StreamError)
    BY <1>3, <2>2, LogGrows
  <2>3. QED
    BY <1>2, <2>1, <2>2
<1>5. Faithful(StreamError, asked')
  BY DEF Faithful, StreamError
<1>6. QED
  BY <1>1, <1>4, <1>5, FaithfulStays

(* A task sends a signature of the frames presented within its chunk.       *)
LEMMA SignFaithful ==
  ASSUME ExactTimes, AccountInv, FaithInv, NEW j \in DOMAIN tasks, Sign(j)
  PROVE  FaithInv'
<1>1. received' = received /\ asked' = asked
  BY DEF Sign
<1>2. PICK t \in Task :
        /\ t = tasks[j]
        /\ t.context = LastFrames(t.frame, Kept(t.frame))
  BY SignMoves DEF AccountInv, RecentInv, RecentContext
<1>3. PICK req \in Request :
        req = tasks[j].todo[1] /\ req \in asked /\ req.frame = t.frame
  <2>1. 1 \in DOMAIN tasks[j].todo /\ tasks[j].todo[1] \in Request
    BY SignMoves DEF AccountInv
  <2>2. QED
    BY <1>2, <2>1 DEF AccountInv, TodoInv, TodoAsked
<1>4. PICK result \in Result :
        result \in Answers(t, req) /\ result.to = req /\ channel' = Sent(result)
  BY <1>2, <1>3, SignMoves DEF AccountInv
<1>5. result.outcome = "signed" => MadeOf(result.frames, req)
  <2>1. SUFFICES ASSUME result.outcome = "signed" PROVE MadeOf(result.frames, req)
    OBVIOUS
  <2>2. RefusalOf(t, req) = "none"
    <3>1. RefusalOf(t, req) # "signed"
      BY DEF RefusalOf, Refusal
    <3>2. QED
      BY <1>4, <2>1, <3>1 DEF Answers
  <2>3. result = SignedAs(t, req)
    BY <1>4, <2>1, <2>2 DEF Answers
  <2>4. QED
    BY <1>2, <1>3, <2>2, <2>3, SignedIsMadeOf
<1>6. Faithful(result, asked')
  BY <1>1, <1>3, <1>4, <1>5 DEF Faithful
<1>7. ASSUME NEW k \in DOMAIN channel'
      PROVE  channel'[k] = result \/ \E i \in DOMAIN channel : channel'[k] = channel[i]
  <2>1. channel' = channel \/ channel' = Append(channel, result)
    BY <1>4 DEF Sent
  <2>2. CASE channel' = channel
    BY <2>2
  <2>3. CASE channel' = Append(channel, result)
    BY <2>3, LogGrows DEF AccountInv, Rest
  <2>4. QED
    BY <2>1, <2>2, <2>3
<1>8. QED
  BY <1>1, <1>6, <1>7, FaithfulStays

(* What is received was in the channel.                                     *)
LEMMA ReceiverFaithful ==
  ASSUME AccountInv, FaithInv, Receive \/ ReceiveNone \/ UNCHANGED vars
  PROVE  FaithInv'
<1>1. asked' = asked
  BY DEF Receive, ReceiveNone, vars
<1>2. CASE Receive
  <2>1. /\ channel # <<>> /\ channel \in Seq(Result) /\ received \in Seq(Result)
        /\ received' = Append(received, Head(channel))
        /\ channel' \in {<<>>, Tail(channel)}
    BY <1>2 DEF Receive, AccountInv, Rest
  <2>2. \A k \in DOMAIN channel' : \E i \in DOMAIN channel : channel'[k] = channel[i]
    <3>1. CASE channel' = <<>>
      BY <3>1
    <3>2. CASE channel' = Tail(channel)
      BY <2>1, <3>2
    <3>3. QED
      BY <2>1, <3>1, <3>2
  <2>3. Head(channel) = channel[1] /\ 1 \in DOMAIN channel /\ channel[1] \in Result
    BY <2>1
  <2>4. \A k \in DOMAIN received' :
           (\E i \in DOMAIN received : received'[k] = received[i]) \/ received'[k] = channel[1]
    BY <2>1, <2>3, LogGrows
  <2>5. QED
    BY <1>1, <2>2, <2>3, <2>4, FaithfulStays
<1>3. CASE ReceiveNone \/ UNCHANGED vars
  <2>1. channel' = channel /\ received' = received
    BY <1>3 DEF ReceiveNone, vars
  <2>2. QED
    BY <1>1, <2>1, FaithfulStays
<1>4. QED
  BY <1>2, <1>3

(* sign_with: every signature received was asked for, at the frame it ends  *)
(* with, and was made over exactly the frames presented from its start on,  *)
(* whatever errors, waiting tasks and failures come in between.             *)
THEOREM SignaturesAreFaithful ==
  ASSUME ExactTimes
  PROVE  Spec => []FaithfulFile
<1>1. Init => FaithInv
  <2>1. <<>> = <<>> /\ DOMAIN <<>> = {}
    OBVIOUS
  <2>2. QED
    BY <2>1 DEF Init, FaithInv
<1>2. AccountInv /\ FaithInv /\ [Next]_vars => FaithInv'
  BY ThreadFaithful, SignFaithful, ReceiverFaithful DEF Next
<1>3. FaithInv => FaithfulFile
  <2>1. SUFFICES ASSUME FaithInv, NEW r \in Range(received), r.outcome = "signed"
                 PROVE  r.to \in asked /\ MadeOf(r.frames, r.to)
    BY DEF FaithfulFile, MadeOf, Within
  <2>2. PICK k \in DOMAIN received : r = received[k]
    BY DEF Range
  <2>3. QED
    BY <2>1, <2>2 DEF FaithInv, Faithful
<1>4. QED
  BY <1>1, <1>2, <1>3, AccountInvariant, PTL DEF Spec
=============================================================================
