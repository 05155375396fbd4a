--------------------------- MODULE VerifierProofs ---------------------------
(***************************************************************************)
(* Verifier for every video, signature file, key and resolver: each chunk  *)
(* has one task, what the cache says of the chunk is how far that task has *)
(* got, a verdict is final, and a definition that was judged is known to   *)
(* every reference judged later.                                           *)
(*                                                                         *)
(* And verdicts are right.  Verified means verified: a chunk shown as      *)
(* Verified has a legal length, every one of its frames is the signed one, *)
(* and its signer's key comes from a presentation of the file that         *)
(* validates.  No alarm is false: a chunk found Unverified was not         *)
(* delivered as it was signed, or a definition of its id carries another   *)
(* key.                                                                    *)
(***************************************************************************)
EXTENDS Verifier, FrameTimeProofs, SequenceTheorems, FiniteSetTheorems, TLAPS

CacheState == Verdicts \cup {"Absent", "Loading"}
TaskState == {"idle", "spawned", "queued", "judged", "done", "panicked"}

(* The rate is one.                                                         *)
LEMMA RateIsRate == IsRate(Rate)
BY VerifierAssumption DEF IsRate

(* What an entry of the file is made of.                                    *)
LEMMA EntryFields ==
  ASSUME file \in Seq(Chunk), NEW i \in Chunks
  PROVE  /\ file[i] \in Chunk
         /\ file[i].id \in Id /\ file[i].key \in Key /\ file[i].start \in Nat /\ file[i].stop \in Nat
<1>1. file[i] \in Chunk
  BY DEF Chunks
<1>2. QED
  BY <1>1 DEF Chunk, Millis

(* The types of what the tasks share.                                       *)
Typed ==
    /\ file \in Seq(Chunk)
    /\ pending \subseteq Chunks
    /\ cache \in [Chunks -> CacheState]
    /\ seen \in [Chunks -> CacheState]
    /\ pc \in [Chunks -> TaskState]
    /\ verdict \in [Chunks -> Verdicts \cup {"Absent"}]
    /\ credentials \in [Id -> Subjects]
    /\ credQueue \in Seq(Chunks)

(* A task that has judged has a verdict to publish.                         *)
JudgedHasVerdict == \A i \in Chunks : pc[i] \in {"judged", "done"} => verdict[i] \in Verdicts

(* The viewer was told no verdict but the one that is cached.               *)
SeenIsCached == \A i \in Chunks : Settled(seen[i]) => seen[i] = cache[i]

(* A definition that was judged has left a subject under its id.            *)
DefinitionsRecorded ==
    \A d \in Chunks : pc[d] \in {"judged", "done"} /\ file[d].pres # "ref"
                         => credentials[file[d].id] # Undefined

TaskInv == Typed /\ CacheMirrorsTasks /\ JudgedHasVerdict /\ SeenIsCached /\ DefinitionsRecorded

-----------------------------------------------------------------------------
(* The queue at the credentials lock.                                       *)

(* Its holder leaves.                                                       *)
LEMMA HolderLeaves ==
  ASSUME NEW S, NEW q \in Seq(S), q # <<>>, IsInjective(q)
  PROVE  /\ Tail(q) \in Seq(S) /\ IsInjective(Tail(q))
         /\ Range(Tail(q)) = Range(q) \ {Head(q)}
<1>1. /\ Len(q) \in Nat \ {0} /\ DOMAIN q = 1..Len(q)
      /\ Tail(q) \in Seq(S) /\ Len(Tail(q)) = Len(q) - 1
      /\ DOMAIN Tail(q) = 1..(Len(q) - 1)
      /\ \A j \in 1..(Len(q) - 1) : Tail(q)[j] = q[j + 1]
      /\ Head(q) = q[1]
  OBVIOUS
<1>2. IsInjective(Tail(q))
  BY <1>1 DEF IsInjective
<1>3. ASSUME NEW x \in Range(Tail(q)) PROVE x \in Range(q) \ {Head(q)}
  <2>1. PICK j \in 1..(Len(q) - 1) : x = q[j + 1]
    BY <1>1, <1>3 DEF Range
  <2>2. j + 1 \in DOMAIN q /\ 1 \in DOMAIN q /\ j + 1 # 1
    BY <1>1
  <2>3. QED
    BY <1>1, <2>1, <2>2 DEF IsInjective, Range
<1>4. ASSUME NEW x \in Range(q) \ {Head(q)} PROVE x \in Range(Tail(q))
  <2>1. PICK k \in 1..Len(q) : x = q[k]
    BY <1>1 DEF Range
  <2>2. k # 1 /\ k - 1 \in 1..(Len(q) - 1) /\ (k - 1) + 1 = k
    BY <1>1, <1>4, <2>1
  <2>3. x = Tail(q)[k - 1]
    BY <1>1, <2>1, <2>2
  <2>4. QED
    BY <1>1, <2>2, <2>3 DEF Range
<1>5. QED
  BY <1>1, <1>2, <1>3, <1>4

(* What joins a sequence joins its range.                                   *)
LEMMA AppendRange ==
  ASSUME NEW S, NEW q \in Seq(S), NEW x \in S
  PROVE  Range(Append(q, x)) = Range(q) \cup {x}
<1>1. /\ Len(q) \in Nat /\ DOMAIN q = 1..Len(q)
      /\ DOMAIN Append(q, x) = 1..(Len(q) + 1)
      /\ \A j \in 1..Len(q) : Append(q, x)[j] = q[j]
      /\ Append(q, x)[Len(q) + 1] = x
  OBVIOUS
<1>2. \A j \in 1..(Len(q) + 1) : j \in 1..Len(q) \/ j = Len(q) + 1
  BY <1>1
<1>3. Range(Append(q, x)) \subseteq Range(q) \cup {x}
  BY <1>1, <1>2 DEF Range
<1>4. Range(q) \subseteq Range(Append(q, x))
  BY <1>1, <1>2 DEF Range
<1>5. x \in Range(Append(q, x))
  BY <1>1 DEF Range
<1>6. QED
  BY <1>3, <1>4, <1>5

(* A task joins that is not in it yet.                                      *)
LEMMA TaskJoins ==
  ASSUME NEW S, NEW q \in Seq(S), NEW x \in S, x \notin Range(q), IsInjective(q)
  PROVE  /\ Append(q, x) \in Seq(S) /\ IsInjective(Append(q, x))
         /\ Range(Append(q, x)) = Range(q) \cup {x}
<1>1. /\ Len(q) \in Nat /\ DOMAIN q = 1..Len(q)
      /\ Append(q, x) \in Seq(S) /\ DOMAIN Append(q, x) = 1..(Len(q) + 1)
      /\ \A j \in 1..Len(q) : Append(q, x)[j] = q[j]
      /\ Append(q, x)[Len(q) + 1] = x
  OBVIOUS
<1>2. \A j \in 1..(Len(q) + 1) : j \in 1..Len(q) \/ j = Len(q) + 1
  BY <1>1
<1>3. \A j \in DOMAIN q : q[j] # x
  BY DEF Range
<1>4. IsInjective(Append(q, x))
  BY <1>1, <1>2, <1>3 DEF IsInjective
<1>5. QED
  BY <1>1, <1>4, AppendRange

-----------------------------------------------------------------------------
(* The steps of the video.                                                  *)

(* The initial state satisfies the invariant.                               *)
LEMMA InitTaskInv == Init => TaskInv
<1> SUFFICES ASSUME Init PROVE TaskInv
  OBVIOUS
<1>1. file \in Seq(Chunk)
  BY VerifierAssumption DEF Init
<1>2. Undefined \in Subjects
  BY DEF Undefined, Subjects
<1>3. credQueue \in Seq(Chunks) /\ IsInjective(credQueue) /\ Range(credQueue) = {}
  <2>1. credQueue = <<>>
    BY DEF Init
  <2>2. DOMAIN credQueue = {}
    BY <2>1
  <2>3. QED
    BY <2>1, <2>2 DEF IsInjective, Range
<1>4. Typed
  BY <1>1, <1>2, <1>3 DEF Init, Typed, CacheState, TaskState
<1>5. CacheMirrorsTasks
  BY <1>3 DEF Init, CacheMirrorsTasks, Settled, Verdicts
<1>6. JudgedHasVerdict /\ SeenIsCached /\ DefinitionsRecorded
  BY DEF Init, JudgedHasVerdict, SeenIsCached, DefinitionsRecorded, Settled, Verdicts
<1>7. QED
  BY <1>4, <1>5, <1>6 DEF TaskInv

(* The tasks, their states and what they share, as TaskInv sees them.       *)
sharedVars == <<file, cache, seen, pc, verdict, credentials, credQueue>>

(* A step that touches none of it, as those of the stream.                  *)
LEMMA StreamTaskInv ==
  ASSUME TaskInv, UNCHANGED sharedVars, pending' \subseteq Chunks
  PROVE  TaskInv'
BY DEF TaskInv, Typed, CacheMirrorsTasks, JudgedHasVerdict, SeenIsCached, DefinitionsRecorded,
       sharedVars, Chunks, Settled

(* A chunk is reported; at a miss it is Loading from now on and has a task. *)
LEMMA ReportTaskInv == TaskInv /\ ReportSignature => TaskInv'
<1> SUFFICES ASSUME TaskInv, ReportSignature PROVE TaskInv'
  OBVIOUS
<1> DEFINE i == Min(pending)
<1>0. Typed /\ CacheMirrorsTasks /\ JudgedHasVerdict /\ SeenIsCached /\ DefinitionsRecorded
  BY DEF TaskInv
<1>1. i \in Chunks
  <2>1. pending # {} /\ pending \subseteq Nat
    BY <1>0 DEF ReportSignature, Typed, Chunks
  <2>2. i \in pending
    BY <2>1, MinIsLeast
  <2>3. QED
    BY <1>0, <2>2 DEF Typed
<1>2. /\ file' = file /\ verdict' = verdict /\ credentials' = credentials /\ credQueue' = credQueue
      /\ pending' = pending \ {i}
      /\ seen' = [seen EXCEPT ![i] = cache'[i]]
      /\ \/ /\ cache[i] = "Absent"
            /\ cache' = [cache EXCEPT ![i] = "Loading"]
            /\ pc' = [pc EXCEPT ![i] = "spawned"]
         \/ cache' = cache /\ pc' = pc
  BY DEF ReportSignature, IsMiss
<1> HIDE DEF i
<1>3. cache' \in [Chunks -> CacheState] /\ pc' \in [Chunks -> TaskState]
  BY <1>0, <1>2 DEF Typed, CacheState, TaskState
<1>4. Typed'
  <2>1. seen' \in [Chunks -> CacheState]
    BY <1>0, <1>1, <1>2, <1>3 DEF Typed
  <2>2. QED
    BY <1>0, <1>2, <1>3, <2>1 DEF Typed, Chunks
<1>5. /\ \A j \in Chunks : j # i => cache'[j] = cache[j] /\ pc'[j] = pc[j] /\ seen'[j] = seen[j]
      /\ \/ cache[i] = "Absent" /\ cache'[i] = "Loading" /\ pc'[i] = "spawned"
         \/ cache'[i] = cache[i] /\ pc'[i] = pc[i]
      /\ seen'[i] = cache'[i]
  BY <1>0, <1>1, <1>2 DEF Typed
<1>6. cache[i] = "Absent" => pc[i] = "idle"
  BY <1>0, <1>1 DEF CacheMirrorsTasks
<1>7. CacheMirrorsTasks'
  <2>1. \A j \in Chunks :
          /\ cache'[j] = "Absent" <=> pc'[j] = "idle"
          /\ Settled(cache'[j]) <=> pc'[j] = "done"
          /\ Settled(cache'[j]) => cache'[j] = verdict[j]
    BY <1>0, <1>5 DEF CacheMirrorsTasks, Settled, Verdicts
  <2>2. \A j \in Chunks : pc'[j] = "queued" <=> pc[j] = "queued"
    BY <1>5, <1>6
  <2>3. { j \in Chunks : pc'[j] = "queued" } = { j \in Chunks : pc[j] = "queued" }
    BY <2>2
  <2>4. QED
    BY <1>0, <1>2, <2>1, <2>3 DEF CacheMirrorsTasks, Chunks, Settled
<1>8. JudgedHasVerdict'
  BY <1>0, <1>2, <1>5 DEF JudgedHasVerdict, Chunks
<1>9. SeenIsCached'
  BY <1>0, <1>2, <1>5 DEF SeenIsCached, Chunks, Settled
<1>10. DefinitionsRecorded'
  BY <1>0, <1>2, <1>5 DEF DefinitionsRecorded, Chunks
<1>11. QED
  BY <1>4, <1>7, <1>8, <1>9, <1>10 DEF TaskInv

-----------------------------------------------------------------------------
(* The steps of the tasks.                                                  *)

(* verify_sig ends in a verdict, or in a panic that leaves none; the verdict*)
(* is UnknownKey only for a reference that finds no subject.                *)
LEMMA JudgeOutcome ==
  ASSUME NEW i \in Chunks, NEW subject \in Subjects, Judge(i, subject)
  PROVE  \/ pc' = [pc EXCEPT ![i] = "panicked"] /\ verdict' = verdict
         \/ \E v \in Verdicts :
              /\ pc' = [pc EXCEPT ![i] = "judged"] /\ verdict' = [verdict EXCEPT ![i] = v]
              /\ v = "UnknownKey" => subject = Undefined
<1> DEFINE c == file[i]
           v == CASE ~ LengthAllowed(c.stop - c.start) -> "InvalidChunkSize"
                  [] SizeAndOffsetOK(c) /\ ~ c.fits    -> "InvalidCrop"
                  [] SizeAndOffsetOK(c) /\ c.fits      -> FromSigner(i, subject)
                  [] OTHER                             -> "OutOfRange"
<1>1. CASE SizeAndOffsetOK(c) /\ BeyondWindow(i)
  BY <1>1 DEF Judge
<1>2. CASE ~ (SizeAndOffsetOK(c) /\ BeyondWindow(i))
  <2>1. pc' = [pc EXCEPT ![i] = "judged"] /\ verdict' = [verdict EXCEPT ![i] = v]
    BY <1>2 DEF Judge
  <2>2. /\ FromSigner(i, subject) \in Verdicts
        /\ FromSigner(i, subject) = "UnknownKey" => subject = Undefined
    <3>1. CASE \E key \in Key : subject = [state |-> "Valid", key |-> key]
      <4>1. subject.state = "Valid"
        BY <3>1
      <4>2. FromSigner(i, subject) =
              IF Gathered(i) = SignedFrames(file[i]) /\ subject.key = file[i].key
                THEN "Verified" ELSE "Unverified"
        BY <4>1 DEF FromSigner
      <4>3. QED
        BY <4>2 DEF Verdicts
    <3>2. CASE subject = [state |-> "Invalid"]
      BY <3>2 DEF FromSigner, Verdicts
    <3>3. CASE subject = [state |-> "ResolverFailed"]
      BY <3>3 DEF FromSigner, Verdicts
    <3>4. CASE subject = [state |-> "Undefined"]
      BY <3>4 DEF FromSigner, Verdicts, Undefined
    <3>5. QED
      BY <3>1, <3>2, <3>3, <3>4 DEF Subjects
  <2>3. v \in {"InvalidChunkSize", "InvalidCrop", "OutOfRange", FromSigner(i, subject)}
    <3>1. SizeAndOffsetOK(c) => LengthAllowed(c.stop - c.start)
      BY DEF SizeAndOffsetOK
    <3>2. CASE ~ LengthAllowed(c.stop - c.start)
      BY <3>1, <3>2
    <3>3. CASE SizeAndOffsetOK(c) /\ ~ c.fits
      BY <3>1, <3>3
    <3>4. CASE SizeAndOffsetOK(c) /\ c.fits
      BY <3>1, <3>4
    <3>5. CASE LengthAllowed(c.stop - c.start) /\ ~ SizeAndOffsetOK(c)
      BY <3>5
    <3>6. QED
      BY <3>2, <3>3, <3>4, <3>5
  <2> HIDE DEF v
  <2>4. v \in Verdicts /\ (v = "UnknownKey" => subject = Undefined)
    BY <2>2, <2>3 DEF Verdicts
  <2>5. QED
    BY <2>1, <2>4
<1>3. QED
  BY <1>1, <1>2

(* What every step of a task that leaves the lock has in common: the task   *)
(* has judged or panicked, and nothing else has moved but what is on record.*)
LeavesLock(i, p) ==
    /\ pc' = [pc EXCEPT ![i] = p]
    /\ \/ \E v \in Verdicts : verdict' = [verdict EXCEPT ![i] = v]
       \/ p = "panicked" /\ verdict' = verdict
    /\ credQueue' = Tail(credQueue)
    /\ UNCHANGED <<file, pending, seen, cache>>

(* Leaving the lock keeps the invariant.                                    *)
LEMMA LeavesLockTaskInv ==
  ASSUME TaskInv, NEW i \in Chunks, HoldsCredentials(i),
         NEW p \in {"judged", "panicked"}, LeavesLock(i, p),
         credentials' \in [Id -> Subjects],
         \A id \in Id : credentials[id] # Undefined => credentials'[id] # Undefined,
         pc'[i] = "judged" /\ file[i].pres # "ref" => credentials'[file[i].id] # Undefined
  PROVE  TaskInv'
<1>0. Typed /\ CacheMirrorsTasks /\ JudgedHasVerdict /\ SeenIsCached /\ DefinitionsRecorded
  BY DEF TaskInv
<1>1. pc[i] = "queued" /\ Head(credQueue) = i
  BY DEF HoldsCredentials
<1>2. /\ file' = file /\ pending' = pending /\ seen' = seen /\ cache' = cache
      /\ pc' \in [Chunks -> TaskState] /\ verdict' \in [Chunks -> Verdicts \cup {"Absent"}]
      /\ pc'[i] = p /\ (p = "judged" => verdict'[i] \in Verdicts)
      /\ \A j \in Chunks : j # i => pc'[j] = pc[j] /\ verdict'[j] = verdict[j]
  BY <1>0 DEF Typed, LeavesLock, TaskState
<1>3. /\ credQueue' \in Seq(Chunks) /\ IsInjective(credQueue')
      /\ Range(credQueue') = Range(credQueue) \ {i}
  <2>1. i \in Range(credQueue)
    BY <1>0, <1>1 DEF CacheMirrorsTasks
  <2>2. credQueue # <<>>
    BY <2>1 DEF Range
  <2>3. credQueue \in Seq(Chunks) /\ IsInjective(credQueue)
    BY <1>0 DEF Typed, CacheMirrorsTasks
  <2>4. credQueue' = Tail(credQueue)
    BY DEF LeavesLock
  <2>5. QED
    BY <1>1, <2>2, <2>3, <2>4, HolderLeaves, Zenon
<1>4. Typed'
  BY <1>0, <1>2, <1>3 DEF Typed, Chunks
<1>5. cache[i] # "Absent" /\ ~ Settled(cache[i])
  BY <1>0, <1>1 DEF CacheMirrorsTasks
<1>6. CacheMirrorsTasks'
  <2>1. \A j \in Chunks :
          /\ cache[j] = "Absent" <=> pc'[j] = "idle"
          /\ Settled(cache[j]) <=> pc'[j] = "done"
          /\ Settled(cache[j]) => cache[j] = verdict'[j]
    BY <1>0, <1>2, <1>5 DEF CacheMirrorsTasks
  <2>2. Range(credQueue') = { j \in Chunks : pc'[j] = "queued" }
    <3>1. Range(credQueue) = { j \in Chunks : pc[j] = "queued" }
      BY <1>0 DEF CacheMirrorsTasks
    <3>2. \A j \in Chunks : pc'[j] = "queued" <=> pc[j] = "queued" /\ j # i
      BY <1>2
    <3>3. QED
      BY <1>3, <3>1, <3>2
  <2>3. QED
    BY <1>2, <1>3, <2>1, <2>2 DEF CacheMirrorsTasks, Chunks, Settled
<1>7. JudgedHasVerdict'
  BY <1>0, <1>2 DEF JudgedHasVerdict, Chunks
<1>8. SeenIsCached'
  BY <1>0, <1>2 DEF SeenIsCached, Chunks, Settled
<1>9. DefinitionsRecorded'
  <2>1. \A d \in Chunks : file[d].id \in Id
    BY <1>0, EntryFields DEF Typed
  <2>2. QED
    BY <1>0, <1>2, <2>1 DEF DefinitionsRecorded, Chunks
<1>10. QED
  BY <1>4, <1>6, <1>7, <1>8, <1>9 DEF TaskInv

(* Judging at the lock is such a step.                                      *)
LEMMA JudgeTaskInv ==
  ASSUME TaskInv, NEW i \in Chunks, HoldsCredentials(i),
         NEW subject \in Subjects, Judge(i, subject),
         credQueue' = Tail(credQueue), UNCHANGED <<file, pending, seen, cache>>,
         credentials' \in [Id -> Subjects],
         \A id \in Id : credentials[id] # Undefined => credentials'[id] # Undefined,
         file[i].pres # "ref" => credentials'[file[i].id] # Undefined
  PROVE  TaskInv'
<1>1. CASE pc' = [pc EXCEPT ![i] = "panicked"] /\ verdict' = verdict
  <2>1. LeavesLock(i, "panicked")
    BY <1>1 DEF LeavesLock
  <2>2. pc'[i] # "judged"
    BY <1>1 DEF TaskInv, Typed
  <2>3. QED
    BY <2>1, <2>2, LeavesLockTaskInv
<1>2. CASE \E v \in Verdicts :
             pc' = [pc EXCEPT ![i] = "judged"] /\ verdict' = [verdict EXCEPT ![i] = v]
  <2>1. LeavesLock(i, "judged")
    BY <1>2 DEF LeavesLock
  <2>2. QED
    BY <2>1, LeavesLockTaskInv
<1>3. QED
  BY <1>1, <1>2, JudgeOutcome

(* A task starts: it queues, or it dies of the chunk's early start.         *)
LEMMA TaskStartTaskInv ==
  ASSUME TaskInv, NEW i \in Chunks, TaskStart(i)
  PROVE  TaskInv'
<1>0. Typed /\ CacheMirrorsTasks /\ JudgedHasVerdict /\ SeenIsCached /\ DefinitionsRecorded
  BY DEF TaskInv
<1>1. /\ pc[i] = "spawned"
      /\ UNCHANGED <<file, pending, seen, cache, verdict, credentials>>
      /\ \/ pc' = [pc EXCEPT ![i] = "panicked"] /\ credQueue' = credQueue
         \/ pc' = [pc EXCEPT ![i] = "queued"] /\ credQueue' = Append(credQueue, i)
  BY DEF TaskStart
<1>2. /\ pc' \in [Chunks -> TaskState]
      /\ pc'[i] \in {"panicked", "queued"}
      /\ \A j \in Chunks : j # i => pc'[j] = pc[j]
  BY <1>0, <1>1 DEF Typed, TaskState
<1>3. /\ credQueue' \in Seq(Chunks) /\ IsInjective(credQueue')
      /\ Range(credQueue') = { j \in Chunks : pc'[j] = "queued" }
  <2>1. credQueue \in Seq(Chunks) /\ IsInjective(credQueue)
    BY <1>0 DEF Typed, CacheMirrorsTasks
  <2>2. Range(credQueue) = { j \in Chunks : pc[j] = "queued" }
    BY <1>0 DEF CacheMirrorsTasks
  <2>3. CASE pc' = [pc EXCEPT ![i] = "panicked"] /\ credQueue' = credQueue
    <3>1. \A j \in Chunks : pc'[j] = "queued" <=> pc[j] = "queued"
      BY <1>0, <1>1, <1>2, <2>3 DEF Typed
    <3>2. QED
      BY <2>1, <2>2, <2>3, <3>1
  <2>4. CASE pc' = [pc EXCEPT ![i] = "queued"] /\ credQueue' = Append(credQueue, i)
    <3>1. i \notin Range(credQueue)
      BY <1>1, <2>2
    <3>2. /\ credQueue' \in Seq(Chunks) /\ IsInjective(credQueue')
          /\ Range(credQueue') = Range(credQueue) \cup {i}
      <4>1. PICK q : q = credQueue
        OBVIOUS
      <4>2. q \in Seq(Chunks) /\ IsInjective(q) /\ i \notin Range(q)
        BY <2>1, <3>1, <4>1, Zenon
      <4>3. /\ Append(q, i) \in Seq(Chunks) /\ IsInjective(Append(q, i))
            /\ Range(Append(q, i)) = Range(q) \cup {i}
        BY <4>2, TaskJoins
      <4>4. credQueue' = Append(q, i)
        BY <2>4, <4>1, Zenon
      <4>5. QED
        BY <4>1, <4>3, <4>4, Zenon
    <3>3. \A j \in Chunks : pc'[j] = "queued" <=> pc[j] = "queued" \/ j = i
      <4>1. pc \in [Chunks -> TaskState]
        BY <1>0 DEF Typed
      <4>2. pc'[i] = "queued"
        BY <2>4, <4>1
      <4>3. QED
        BY <1>2, <4>2
    <3>4. QED
      BY <2>2, <3>2, <3>3
  <2>5. QED
    BY <1>1, <2>3, <2>4
<1>4. Typed'
  BY <1>0, <1>1, <1>2, <1>3 DEF Typed, Chunks
<1>5. CacheMirrorsTasks'
  <2>1. \A j \in Chunks :
          /\ cache[j] = "Absent" <=> pc'[j] = "idle"
          /\ Settled(cache[j]) <=> pc'[j] = "done"
          /\ Settled(cache[j]) => cache[j] = verdict[j]
    BY <1>0, <1>1, <1>2 DEF CacheMirrorsTasks
  <2>2. QED
    BY <1>1, <1>3, <2>1 DEF CacheMirrorsTasks, Chunks, Settled
<1>6. JudgedHasVerdict' /\ SeenIsCached' /\ DefinitionsRecorded'
  BY <1>0, <1>1, <1>2
     DEF JudgedHasVerdict, SeenIsCached, DefinitionsRecorded, Chunks, Settled
<1>7. QED
  BY <1>4, <1>5, <1>6 DEF TaskInv

(* The steps at the lock and the publication.                               *)
LEMMA NormaliseRefTaskInv ==
  ASSUME TaskInv, NEW i \in Chunks, NormaliseRef(i)
  PROVE  TaskInv'
<1>1. file[i].id \in Id /\ credentials \in [Id -> Subjects]
  BY EntryFields DEF TaskInv, Typed
<1> DEFINE subject == credentials[file[i].id]
<1>2. subject \in Subjects
  BY <1>1
<1>3. /\ HoldsCredentials(i) /\ Judge(i, subject) /\ file[i].pres = "ref"
      /\ credQueue' = Tail(credQueue) /\ UNCHANGED <<file, pending, seen, cache, credentials>>
  BY DEF NormaliseRef
<1> HIDE DEF subject
<1>4. PICK s \in Subjects : s = subject
  BY <1>2
<1>5. Judge(i, s)
  BY <1>3, <1>4
<1>6. QED
  BY <1>1, <1>3, <1>5, JudgeTaskInv

(* What is recorded for a definition is a subject.                          *)
LEMMA OutcomesAreSubjects ==
  ASSUME file \in Seq(Chunk), NEW i \in Chunks, NEW subject \in Outcomes(file[i])
  PROVE  subject \in Subjects /\ subject # Undefined
<1>1. file[i].key \in Key
  BY EntryFields
<1>2. \/ subject = [state |-> "ResolverFailed"]
      \/ subject = [state |-> "Valid", key |-> file[i].key]
      \/ subject = [state |-> "Invalid"]
  <2>1. CASE file[i].pres = "good"
    BY <2>1 DEF Outcomes
  <2>2. CASE file[i].pres = "forged"
    BY <2>2 DEF Outcomes
  <2>3. CASE file[i].pres \notin {"good", "forged"}
    BY <2>3 DEF Outcomes
  <2>4. QED
    BY <2>1, <2>2, <2>3
<1>3. subject.state # "Undefined"
  BY <1>2
<1>4. QED
  BY <1>1, <1>2, <1>3 DEF Subjects, Undefined

(* A definition is validated, recorded and judged.                          *)
LEMMA NormaliseDefTaskInv ==
  ASSUME TaskInv, NEW i \in Chunks, NormaliseDef(i)
  PROVE  TaskInv'
<1>1. file \in Seq(Chunk) /\ file[i].id \in Id /\ credentials \in [Id -> Subjects]
  BY EntryFields DEF TaskInv, Typed
<1>2. PICK subject \in Outcomes(file[i]) :
        credentials' = [credentials EXCEPT ![file[i].id] = subject] /\ Judge(i, subject)
  BY DEF NormaliseDef
<1>3. subject \in Subjects /\ subject # Undefined
  BY <1>1, OutcomesAreSubjects
<1>4. /\ HoldsCredentials(i) /\ credQueue' = Tail(credQueue)
      /\ UNCHANGED <<file, pending, seen, cache>>
  BY DEF NormaliseDef
<1>5. /\ credentials' \in [Id -> Subjects]
      /\ \A id \in Id : credentials[id] # Undefined => credentials'[id] # Undefined
      /\ credentials'[file[i].id] # Undefined
  BY <1>1, <1>2, <1>3
<1>6. QED
  BY <1>2, <1>3, <1>4, <1>5, JudgeTaskInv

(* A credential that does not validate takes its task down.                 *)
LEMMA NormalisePanicsTaskInv ==
  ASSUME TaskInv, NEW i \in Chunks, NormalisePanics(i)
  PROVE  TaskInv'
<1>1. /\ HoldsCredentials(i) /\ LeavesLock(i, "panicked") /\ credentials' = credentials
      /\ pc' = [pc EXCEPT ![i] = "panicked"]
  BY DEF NormalisePanics, LeavesLock
<1>2. pc'[i] # "judged" /\ credentials' \in [Id -> Subjects]
  BY <1>1 DEF TaskInv, Typed
<1>3. QED
  BY <1>1, <1>2, LeavesLockTaskInv

(* A verdict is written to the cache.                                       *)
LEMMA PublishTaskInv ==
  ASSUME TaskInv, NEW i \in Chunks, Publish(i)
  PROVE  TaskInv'
<1>0. Typed /\ CacheMirrorsTasks /\ JudgedHasVerdict /\ SeenIsCached /\ DefinitionsRecorded
  BY DEF TaskInv
<1>1. /\ pc[i] = "judged" /\ pc' = [pc EXCEPT ![i] = "done"]
      /\ cache' = [cache EXCEPT ![i] = verdict[i]]
      /\ UNCHANGED <<file, pending, seen, verdict, credentials, credQueue>>
  BY DEF Publish
<1>2. verdict[i] \in Verdicts
  BY <1>0, <1>1 DEF JudgedHasVerdict
<1>3. /\ pc' \in [Chunks -> TaskState] /\ cache' \in [Chunks -> CacheState]
      /\ pc'[i] = "done" /\ cache'[i] = verdict[i]
      /\ \A j \in Chunks : j # i => pc'[j] = pc[j] /\ cache'[j] = cache[j]
  BY <1>0, <1>1, <1>2 DEF Typed, TaskState, CacheState
<1>4. Typed'
  BY <1>0, <1>1, <1>3 DEF Typed, Chunks
<1>5. ~ Settled(cache[i])
  BY <1>0, <1>1 DEF CacheMirrorsTasks
<1>6. CacheMirrorsTasks'
  <2>1. verdict[i] # "Absent"
    BY <1>2 DEF Verdicts
  <2>2. \A j \in Chunks :
          /\ cache'[j] = "Absent" <=> pc'[j] = "idle"
          /\ Settled(cache'[j]) <=> pc'[j] = "done"
          /\ Settled(cache'[j]) => cache'[j] = verdict[j]
    BY <1>0, <1>2, <1>3, <2>1 DEF CacheMirrorsTasks, Settled
  <2>3. { j \in Chunks : pc'[j] = "queued" } = { j \in Chunks : pc[j] = "queued" }
    BY <1>1, <1>3
  <2>4. QED
    BY <1>0, <1>1, <2>2, <2>3 DEF CacheMirrorsTasks, Chunks, Settled
<1>7. JudgedHasVerdict'
  BY <1>0, <1>1, <1>2, <1>3 DEF JudgedHasVerdict, Chunks
<1>8. SeenIsCached'
  <2>1. ~ Settled(seen[i])
    BY <1>0, <1>5 DEF SeenIsCached
  <2>2. QED
    BY <1>0, <1>1, <1>3, <2>1 DEF SeenIsCached, Chunks, Settled
<1>9. DefinitionsRecorded'
  BY <1>0, <1>1, <1>3 DEF DefinitionsRecorded, Chunks
<1>10. QED
  BY <1>4, <1>6, <1>7, <1>8, <1>9 DEF TaskInv

-----------------------------------------------------------------------------
(* The stream moves on, or there is none.                                   *)
LEMMA VideoTaskInv ==
  ASSUME TaskInv, PeekFails \/ NextFrame \/ UNCHANGED vars
  PROVE  TaskInv'
<1>1. UNCHANGED sharedVars
  BY DEF PeekFails, NextFrame, vars, taskVars, sharedVars
<1>2. pending' \subseteq Chunks
  <2>1. CASE NextFrame
    BY <2>1 DEF NextFrame, CoveredNow
  <2>2. CASE PeekFails \/ UNCHANGED vars
    BY <2>2 DEF PeekFails, vars, TaskInv, Typed
  <2>3. QED
    BY <2>1, <2>2
<1>3. QED
  BY <1>1, <1>2, StreamTaskInv

(* Every step of the video and of the tasks keeps it.                       *)
LEMMA NextTaskInv == TaskInv /\ [Next]_vars => TaskInv'
BY VideoTaskInv, ReportTaskInv, TaskStartTaskInv, NormaliseRefTaskInv, NormaliseDefTaskInv,
   NormalisePanicsTaskInv, PublishTaskInv
   DEF Next, Task

(* The invariant holds in every reachable state.                            *)
THEOREM TaskInvariant == Spec => []TaskInv
<1>1. QED
  BY InitTaskInv, NextTaskInv, PTL DEF Spec

(* What the cache says of a chunk is how far its one task has got, and the  *)
(* queue at the credentials holds the tasks that wait, each once            *)
(* (manager.rs:597-620).                                                    *)
THEOREM CacheIsExact == Spec => []CacheMirrorsTasks
<1>1. TaskInv => CacheMirrorsTasks
  BY DEF TaskInv
<1>2. QED
  BY <1>1, TaskInvariant, PTL

-----------------------------------------------------------------------------
(* Steps.                                                                   *)

(* A verdict once cached is never replaced, and a viewer who was told what  *)
(* a signature is, is never told anything else.                             *)
THEOREM FinalVerdicts == Spec => VerdictsAreFinal
<1> DEFINE Final == \A i \in Chunks :
                      /\ Settled(cache[i]) => cache'[i] = cache[i]
                      /\ Settled(seen[i]) => seen'[i] = seen[i]
<1>1. TaskInv /\ [Next]_vars => [Final]_vars
  <2> SUFFICES ASSUME TaskInv, Next PROVE Final
    OBVIOUS
  <2>0. Typed /\ CacheMirrorsTasks /\ SeenIsCached
    BY DEF TaskInv
  <2>1. CASE cache' = cache /\ seen' = seen
    BY <2>1
  <2>2. CASE ReportSignature
    <3> DEFINE k == Min(pending)
    <3>1. /\ seen' = [seen EXCEPT ![k] = cache'[k]]
          /\ \/ cache[k] = "Absent" /\ cache' = [cache EXCEPT ![k] = "Loading"]
             \/ cache' = cache
      BY <2>2 DEF ReportSignature, IsMiss
    <3> HIDE DEF k
    <3>2. \A i \in Chunks : Settled(cache[i]) => cache'[i] = cache[i]
      BY <2>0, <3>1 DEF Typed, Settled, Verdicts
    <3>3. \A i \in Chunks : Settled(seen[i]) => seen'[i] = seen[i]
      BY <2>0, <3>1, <3>2 DEF Typed, SeenIsCached
    <3>4. QED
      BY <3>2, <3>3
  <2>3. ASSUME NEW j \in Chunks, Publish(j) PROVE Final
    <3>1. pc[j] = "judged" /\ cache' = [cache EXCEPT ![j] = verdict[j]] /\ seen' = seen
      BY <2>3 DEF Publish
    <3>2. ~ Settled(cache[j])
      BY <2>0, <3>1 DEF CacheMirrorsTasks
    <3>3. QED
      BY <2>0, <3>1, <3>2 DEF Typed
  <2>4. QED
    BY <2>1, <2>2, <2>3
       DEF Next, Task, PeekFails, NextFrame, TaskStart, NormaliseRef, NormaliseDef,
           NormalisePanics, taskVars
<1>2. QED
  BY <1>1, TaskInvariant, PTL DEF Spec, VerdictsAreFinal

(* A reference judged after a definition of its id is never an unknown key, *)
(* even if the chunk of the definition was itself refused (manager.rs:647). *)
THEOREM DefinitionsAreSaved == Spec => SavedFirst
<1> DEFINE Known == \A i, d \in Chunks :
         verdict[i] # "UnknownKey" /\ verdict'[i] = "UnknownKey" =>
            ~ (file[d].pres # "ref" /\ file[d].id = file[i].id /\ pc[d] \in {"judged", "done"})
<1>1. TaskInv /\ [Next]_vars => [Known]_vars
  <2> SUFFICES ASSUME TaskInv, Next PROVE Known
    OBVIOUS
  <2>0. Typed /\ DefinitionsRecorded
    BY DEF TaskInv
  <2>1. CASE verdict' = verdict
    BY <2>1
  <2>2. ASSUME NEW j \in Chunks, NEW subject \in Subjects, Judge(j, subject),
               verdict' # verdict
        PROVE  \A i \in Chunks : verdict[i] # "UnknownKey" /\ verdict'[i] = "UnknownKey"
                                    => i = j /\ subject = Undefined
    BY <2>0, <2>2, JudgeOutcome DEF Typed
  <2>3. ASSUME NEW j \in Chunks, NormaliseRef(j) PROVE Known
    <3>1. credentials[file[j].id] \in Subjects
      BY <2>0, EntryFields DEF Typed
    <3>2. PICK s \in Subjects : s = credentials[file[j].id]
      BY <3>1
    <3>3. Judge(j, s)
      BY <2>3, <3>2 DEF NormaliseRef
    <3>4. QED
      BY <2>0, <2>1, <2>2, <3>2, <3>3 DEF DefinitionsRecorded
  <2>4. ASSUME NEW j \in Chunks, NormaliseDef(j) PROVE Known
    <3>1. PICK s \in Outcomes(file[j]) : Judge(j, s)
      BY <2>4 DEF NormaliseDef
    <3>2. s \in Subjects /\ s # Undefined
      BY <2>0, OutcomesAreSubjects DEF Typed
    <3>3. QED
      BY <2>1, <2>2, <3>1, <3>2
  <2>5. QED
    BY <2>1, <2>3, <2>4
       DEF Next, Task, PeekFails, NextFrame, ReportSignature, TaskStart,
           NormalisePanics, Publish, taskVars
<1>2. QED
  BY <1>1, TaskInvariant, PTL DEF Spec, SavedFirst

-----------------------------------------------------------------------------
(* A nonempty set of naturals up to b has a greatest element.               *)
LEMMA BoundedHasGreatest ==
  ASSUME NEW b \in Nat, NEW S \in SUBSET (0..b), S # {}
  PROVE  \E x \in S : \A y \in S : y <= x
<1> DEFINE T == { b - y : y \in S }
<1>1. T \in SUBSET Nat /\ T # {}
  <2>1. \A y \in S : y \in Nat /\ y <= b
    OBVIOUS
  <2>2. \A y \in S : b - y \in Nat
    BY <2>1
  <2>3. PICK y \in S : TRUE
    OBVIOUS
  <2>4. b - y \in T
    OBVIOUS
  <2>5. QED
    BY <2>2, <2>4
<1>2. PICK m \in T : \A t \in T : m <= t
  BY <1>1, MinIsLeast
<1>3. PICK x \in S : m = b - x
  OBVIOUS
<1>4. ASSUME NEW y \in S PROVE y <= x
  <2>1. b - x <= b - y
    BY <1>2, <1>3
  <2>2. b \in Int /\ x \in Int /\ y \in Int
    OBVIOUS
  <2>3. QED
    BY <2>1, <2>2
<1>5. QED
  BY <1>4

-----------------------------------------------------------------------------
(* The frames among the items of a window.                                  *)

(* One step of FramesAmong.                                                 *)
Collect(items, f, n) ==
    IF n = 0 THEN <<>>
    ELSE IF items[n] = Err THEN f[n - 1] ELSE Append(f[n - 1], items[n])

Collects(items, n, f) ==
    /\ DOMAIN f = 0..n /\ f = [k \in DOMAIN f |-> f[k]]
    /\ \A k \in 0..n : f[k] = Collect(items, f, k)

(* The function that FramesAmong chooses exists.                            *)
LEMMA CollectsExists ==
  ASSUME NEW items
  PROVE  \A n \in Nat : \E f : Collects(items, n, f)
<1> DEFINE T == { n \in Nat : ~ \E f : Collects(items, n, f) }
<1> SUFFICES ASSUME T # {} PROVE FALSE
  OBVIOUS
<1>1. PICK m \in T : \A y \in T : m <= y
  <2>1. T \in SUBSET Nat
    OBVIOUS
  <2>2. QED
    BY <2>1, MinIsLeast
<1>2. m # 0
  <2>1. Collects(items, 0, [k \in 0..0 |-> <<>>])
    BY DEF Collects, Collect
  <2>2. QED
    BY <2>1
<1>3. m - 1 \in Nat /\ m - 1 \notin T
  BY <1>1, <1>2
<1>4. PICK f : Collects(items, m - 1, f)
  BY <1>3
<1> DEFINE g == [k \in 0..m |-> IF k = m THEN Collect(items, f, m) ELSE f[k]]
<1>5. ASSUME NEW k \in 0..m PROVE g[k] = Collect(items, g, k)
  <2>1. m \in Nat /\ k \in Nat /\ DOMAIN f = 0..(m - 1)
    BY <1>1, <1>4 DEF Collects
  <2>2. k # 0 => k - 1 \in 0..(m - 1) /\ g[k - 1] = f[k - 1]
    BY <2>1
  <2>3. Collect(items, g, k) = Collect(items, f, k)
    BY <2>2 DEF Collect
  <2>4. CASE k = m
    BY <2>3, <2>4
  <2>5. CASE k # m
    <3>1. k \in 0..(m - 1)
      BY <2>1, <2>5
    <3>2. f[k] = Collect(items, f, k)
      BY <1>4, <3>1 DEF Collects
    <3>3. g[k] = f[k]
      BY <2>5
    <3>4. QED
      BY <2>3, <3>2, <3>3
  <2>6. QED
    BY <2>4, <2>5
<1>6. DOMAIN g = 0..m /\ g = [k \in DOMAIN g |-> g[k]]
  OBVIOUS
<1>7. Collects(items, m, g)
  <2> HIDE DEF g
  <2>1. QED
    BY <1>5, <1>6 DEF Collects
<1>8. QED
  BY <1>1, <1>7

(* What is collected from a sequence comes from it.                         *)
LEMMA FramesAmongType ==
  ASSUME NEW T, NEW items \in Seq(T)
  PROVE  FramesAmong(items) \in Seq(T)
<1> DEFINE L == Len(items)
           f == CHOOSE f : f = [n \in 0..L |-> Collect(items, f, n)]
<1>1. L \in Nat
  OBVIOUS
<1>2. PICK g : Collects(items, L, g)
  BY <1>1, CollectsExists
<1>3. g = [n \in 0..L |-> Collect(items, g, n)]
  BY <1>2 DEF Collects
<1>4. f = [n \in 0..L |-> Collect(items, f, n)]
  BY <1>3
<1>5. FramesAmong(items) = f[L]
  BY DEF FramesAmong, Collect
<1> HIDE DEF f, L
<1>6. \A n \in 0..L : f[n] = Collect(items, f, n)
  BY <1>4
<1> DEFINE Bad == { n \in Nat : n <= L /\ f[n] \notin Seq(T) }
<1>7. ASSUME Bad # {} PROVE FALSE
  <2>1. PICK m \in Bad : \A y \in Bad : m <= y
    <3>1. Bad \in SUBSET Nat
      OBVIOUS
    <3>2. QED
      BY <1>7, <3>1, MinIsLeast
  <2>2. m \in 0..L /\ f[m] = Collect(items, f, m)
    BY <1>1, <1>6, <2>1
  <2>3. m # 0
    <3>1. <<>> \in Seq(T)
      OBVIOUS
    <3>2. m = 0 => f[m] = <<>>
      BY <2>2 DEF Collect
    <3>3. f[m] \notin Seq(T)
      BY <2>1
    <3>4. QED
      BY <3>1, <3>2, <3>3
  <2>4. m - 1 \in Nat /\ m - 1 <= L /\ m - 1 \notin Bad
    BY <1>1, <2>1, <2>2, <2>3
  <2>5. f[m - 1] \in Seq(T)
    BY <2>4
  <2>6. items[m] \in T
    BY <1>1, <2>2, <2>3 DEF L
  <2>7. Append(f[m - 1], items[m]) \in Seq(T)
    BY <2>5, <2>6
  <2>8. f[m] \in Seq(T)
    BY <2>2, <2>5, <2>7 DEF Collect
  <2>9. QED
    BY <2>1, <2>8
<1>8. L \notin Bad
  BY <1>7
<1>9. QED
  BY <1>1, <1>5, <1>8

-----------------------------------------------------------------------------
(* The frames of a chunk.                                                   *)

(* They are consecutive, so that SignedFrames has every one of them.        *)
LEMMA SignedFramesComplete ==
  ASSUME offset \in Nat, NEW c \in Chunk, NEW n \in FramesOf(c)
  PROVE  [frame |-> n, intact |-> TRUE] \in Range(SignedFrames(c))
<1> DEFINE s == SecondsOf(Rate)
           o == offset * Rate.frames
           from == c.start * Rate.frames
           to == c.stop * Rate.frames
           bound == FramesCeil(Rate, c.stop)
           F == FramesOf(c)
<1>1. s \in Nat \ {0} /\ o \in Nat /\ from \in Nat /\ to \in Nat
  <2>1. Rate.frames \in Nat \ {0} /\ Rate.seconds \in Nat \ {0} /\ Tick \in Nat \ {0}
    BY VerifierAssumption, TimeAssumption
  <2>2. c.start \in Nat /\ c.stop \in Nat
    BY DEF Chunk, Millis
  <2>3. Rate.seconds * 1000 \in Nat \ {0}
    BY <2>1
  <2>4. s \in Nat \ {0}
    BY <2>1, <2>3 DEF SecondsOf
  <2>5. QED
    BY <2>1, <2>2, <2>4
<1>2. bound \in Nat
  <2>1. bound = (to + s - 1) \div s
    BY DEF FramesCeil, CeilDiv
  <2> HIDE DEF s, to, bound
  <2>2. to + s - 1 \in Nat
    BY <1>1
  <2>3. QED
    BY <1>1, <2>1, <2>2
<1>3. F = { k \in 0..bound : from <= o + k * s /\ o + k * s < to }
  BY DEF FramesOf
<1> HIDE DEF s, o, from, to, bound, F
<1>4. F \in SUBSET (0..bound) /\ F \in SUBSET Nat /\ n \in F
  BY <1>2, <1>3 DEF F
<1>5. PICK m \in F : m = Min(F) /\ \A y \in F : m <= y
  BY <1>4, MinIsLeast
<1>6. PICK x \in F : \A y \in F : y <= x
  BY <1>2, <1>4, BoundedHasGreatest
<1>7. F = m..x
  <2>1. ASSUME NEW k \in m..x PROVE k \in F
    <3>1. m \in Nat /\ x \in Nat /\ k \in Nat /\ m <= k /\ k <= x /\ k \in 0..bound
      BY <1>2, <1>4
    <3>2. m * s <= k * s /\ k * s <= x * s
      BY <1>1, <3>1
    <3>3. m * s \in Nat /\ k * s \in Nat /\ x * s \in Nat
      BY <1>1, <3>1
    <3>4. from <= o + m * s /\ o + x * s < to
      BY <1>3
    <3>5. from <= o + k * s /\ o + k * s < to
      BY <1>1, <3>2, <3>3, <3>4
    <3>6. QED
      BY <1>3, <3>1, <3>5
  <2>2. F \subseteq m..x
    BY <1>4, <1>5, <1>6
  <2>3. QED
    BY <2>1, <2>2
<1>8. Cardinality(F) = x - m + 1
  <2>1. m \in Int /\ x \in Int /\ m <= x
    BY <1>4, <1>5
  <2>2. Cardinality(m..x) = x - m + 1
    BY <2>1, FS_Interval
  <2>3. QED
    BY <1>7, <2>2
<1>9. SignedFrames(c) = [ k \in 1..(x - m + 1) |-> [frame |-> m + k - 1, intact |-> TRUE] ]
  BY <1>5, <1>8 DEF SignedFrames, F
<1>10. n - m + 1 \in 1..(x - m + 1) /\ m + (n - m + 1) - 1 = n
  <2>1. n \in Nat /\ m \in Nat /\ x \in Nat /\ m <= n /\ n <= x
    BY <1>4, <1>5, <1>6
  <2>2. QED
    BY <2>1
<1>11. /\ n - m + 1 \in DOMAIN SignedFrames(c)
       /\ SignedFrames(c)[n - m + 1] = [frame |-> n, intact |-> TRUE]
  BY <1>9, <1>10
<1>12. QED
  BY <1>11 DEF Range

-----------------------------------------------------------------------------
(* The inductive invariant.                                                 *)

(* Whatever the stream holds back or has let out came from the source.      *)
Delivering == Range(source)
FromSource ==
    /\ source \in Seq(Delivering)
    /\ buf \in Seq(Delivering)
    /\ full \in Seq([latest : Delivering, future : Seq(Delivering)])

(* A task was given a window that has come out.                             *)
GivenWindow ==
    /\ pending # {} => full # <<>>
    /\ at \in [Chunks -> Nat]
    /\ \A i \in Chunks : pc[i] # "idle" => at[i] \in DOMAIN full

(* A valid subject is that of a presentation in the file.                   *)
ValidFromFile ==
    \A id \in Id : credentials[id].state = "Valid" =>
        \E d \in Range(file) : d.pres = "good" /\ d.id = id /\ d.key = credentials[id].key

(* What VerifiedIsSound says of a chunk shown as Verified.                  *)
Sound(c) ==
    /\ LengthAllowed(c.stop - c.start)
    /\ \A n \in FramesOf(c) : [frame |-> n, intact |-> TRUE] \in Range(source)
    /\ \E d \in Range(file) : d.pres = "good" /\ d.id = c.id /\ d.key = c.key

VerdictSound == \A i \in Chunks : verdict[i] = "Verified" => Sound(file[i])

SoundInv ==
    /\ TaskInv
    /\ offset \in Nat
    /\ FromSource /\ GivenWindow /\ ValidFromFile /\ VerdictSound

(* It holds at first.                                                       *)
LEMMA InitSoundInv == Init => SoundInv
<1> SUFFICES ASSUME Init PROVE SoundInv
  OBVIOUS
<1>1. TaskInv
  BY InitTaskInv
<1>2. offset \in Nat
  BY VerifierAssumption DEF Init
<1>3. source = <<>> /\ buf = <<>> /\ full = <<>>
  BY DEF Init, Delay!Init
<1>4. FromSource
  BY <1>3 DEF FromSource
<1>5. GivenWindow
  BY DEF Init, GivenWindow
<1>6. ValidFromFile
  <2>1. \A id \in Id : credentials[id].state = "Undefined"
    BY DEF Init, Undefined
  <2>2. QED
    BY <2>1 DEF ValidFromFile
<1>7. VerdictSound
  BY DEF Init, VerdictSound
<1>8. QED
  BY <1>1, <1>2, <1>4, <1>5, <1>6, <1>7 DEF SoundInv

(* An item joins the source and the buffer, and may push one out.           *)
LEMMA PollItemFromSource ==
  ASSUME FromSource, NEW it, Delay!PollItem(it)
  PROVE  /\ FromSource' /\ Range(source) \subseteq Range(source')
         /\ full' = full \/ \E w : full' = Append(full, w)
<1> DEFINE R == Delivering
           new == R \cup {it}
           W == [latest : new, future : Seq(new)]
<1>1. /\ source' = Append(source, it)
      /\ buf' = Append(IF Len(buf) = Capacity(Rate) THEN Tail(buf) ELSE buf, it)
      /\ full' = IF Len(buf) = Capacity(Rate)
                   THEN Append(full, [latest |-> Head(buf), future |-> buf']) ELSE full
  BY DEF Delay!PollItem, Delay!Enqueued, Delay!IsFilled
<1>2. source \in Seq(R) /\ buf \in Seq(R) /\ full \in Seq([latest : R, future : Seq(R)])
  BY DEF FromSource
<1>3. Range(source') = new
  <2>1. source \in Seq(new) /\ it \in new
    BY <1>2, SeqMonotonic
  <2>2. Range(Append(source, it)) = Range(source) \cup {it}
    BY <2>1, AppendRange
  <2>3. QED
    BY <1>1, <2>2 DEF Delivering
<1>4. Delivering' = new
  BY <1>3 DEF Delivering
<1> HIDE DEF R
<1>5. source' \in Seq(new)
  BY <1>1, <1>2
<1>6. buf' \in Seq(new) /\ (Len(buf) = Capacity(Rate) => Head(buf) \in new)
  <2>1. Len(buf) = Capacity(Rate) => buf # <<>>
    BY RateIsRate, CapacityIsPositive
  <2>2. Len(buf) = Capacity(Rate) => Tail(buf) \in Seq(R) /\ Head(buf) \in R
    BY <1>2, <2>1
  <2>3. buf \in Seq(new) /\ (Len(buf) = Capacity(Rate) => Tail(buf) \in Seq(new))
    BY <1>2, <2>2, SeqMonotonic
  <2>4. it \in new
    OBVIOUS
  <2>5. QED
    BY <1>1, <2>2, <2>3, <2>4
<1>7. full \in Seq(W)
  <2>1. [latest : R, future : Seq(R)] \subseteq W
    <3>1. R \subseteq new /\ Seq(R) \subseteq Seq(new)
      BY SeqMonotonic
    <3>2. QED
      BY <3>1
  <2>2. QED
    BY <1>2, <2>1, SeqMonotonic
<1>8. full' \in Seq(W)
  <2>1. CASE Len(buf) = Capacity(Rate)
    <3>1. [latest |-> Head(buf), future |-> buf'] \in W
      BY <1>6, <2>1
    <3>2. full' = Append(full, [latest |-> Head(buf), future |-> buf'])
      BY <1>1, <2>1
    <3> HIDE DEF W
    <3>3. QED
      BY <1>7, <3>1, <3>2
  <2>2. CASE Len(buf) # Capacity(Rate)
    BY <1>1, <1>7, <2>2
  <2>3. QED
    BY <2>1, <2>2
<1>9. FromSource'
  BY <1>4, <1>5, <1>6, <1>8 DEF FromSource
<1>10. Range(source) \subseteq Range(source')
  BY <1>3 DEF R, Delivering
<1>11. QED
  BY <1>1, <1>9, <1>10

(* The rest of the buffer comes out at the end.                             *)
LEMMA PollEndFromSource ==
  ASSUME FromSource, Delay!PollEnd
  PROVE  /\ FromSource' /\ Range(source) \subseteq Range(source')
         /\ full' = full \/ \E w : full' = Append(full, w)
<1>1. source' = source /\ Delivering' = Delivering
  BY DEF Delay!PollEnd, Delivering
<1>2. \/ /\ buf # <<>> /\ buf' = Tail(buf)
         /\ full' = Append(full, [latest |-> Head(buf), future |-> Tail(buf)])
      \/ buf' = buf /\ full' = full
  BY DEF Delay!PollEnd
<1>3. /\ source \in Seq(Delivering) /\ buf \in Seq(Delivering)
      /\ full \in Seq([latest : Delivering, future : Seq(Delivering)])
  BY DEF FromSource
<1>4. FromSource'
  <2>1. CASE buf # <<>> /\ buf' = Tail(buf)
             /\ full' = Append(full, [latest |-> Head(buf), future |-> Tail(buf)])
    <3>1. Head(buf) \in Delivering /\ Tail(buf) \in Seq(Delivering)
      BY <1>3, <2>1
    <3>2. [latest |-> Head(buf), future |-> Tail(buf)]
             \in [latest : Delivering, future : Seq(Delivering)]
      BY <3>1
    <3>3. full' \in Seq([latest : Delivering, future : Seq(Delivering)])
      BY <1>3, <2>1, <3>2, AppendProperties
    <3>4. QED
      BY <1>1, <1>3, <2>1, <3>1, <3>3 DEF FromSource
  <2>2. CASE buf' = buf /\ full' = full
    BY <1>1, <1>3, <2>2 DEF FromSource
  <2>3. QED
    BY <1>2, <2>1, <2>2
<1>5. QED
  BY <1>1, <1>2, <1>4

(* What is sound stays sound while the source grows.                        *)
LEMMA SoundStays ==
  ASSUME file' = file, offset' = offset, Range(source) \subseteq Range(source')
  PROVE  \A c : Sound(c) => Sound(c)'
BY DEF Sound, FramesOf

(* A step of the stream.                                                    *)
LEMMA NextFrameSoundInv == SoundInv /\ NextFrame => SoundInv'
<1> SUFFICES ASSUME SoundInv, NextFrame PROVE SoundInv'
  OBVIOUS
<1>1. TaskInv'
  BY VideoTaskInv DEF SoundInv
<1>2. /\ FromSource' /\ Range(source) \subseteq Range(source')
      /\ full' = full \/ \E w : full' = Append(full, w)
  BY PollItemFromSource, PollEndFromSource DEF NextFrame, SoundInv
<1>3. UNCHANGED <<offset, file, taskVars>>
  BY DEF NextFrame
<1>4. GivenWindow'
  <2>1. full \in Seq([latest : Delivering, future : Seq(Delivering)])
    BY DEF SoundInv, FromSource
  <2>2. DOMAIN full \subseteq DOMAIN full' /\ (full' # full => full' # <<>>)
    BY <1>2, <2>1
  <2>3. pending' # {} => full' # full
    BY DEF NextFrame, CoveredNow
  <2>4. QED
    BY <1>3, <2>2, <2>3 DEF SoundInv, GivenWindow, taskVars, Chunks
<1>5. ValidFromFile'
  BY <1>3 DEF SoundInv, ValidFromFile, taskVars
<1>6. VerdictSound'
  <2>1. \A c : Sound(c) => Sound(c)'
    BY <1>2, <1>3, SoundStays
  <2>2. QED
    BY <1>3, <2>1 DEF SoundInv, VerdictSound, taskVars, Chunks
<1>7. QED
  BY <1>1, <1>2, <1>3, <1>4, <1>5, <1>6 DEF SoundInv

(* A report.                                                                *)
LEMMA ReportSoundInv == SoundInv /\ ReportSignature => SoundInv'
<1> SUFFICES ASSUME SoundInv, ReportSignature PROVE SoundInv'
  OBVIOUS
<1> DEFINE k == Min(pending)
<1>1. TaskInv'
  BY ReportTaskInv DEF SoundInv
<1>2. /\ UNCHANGED <<offset, file, source, buf, full, verdict, credentials>>
      /\ pending # {} /\ pending' \subseteq pending
      /\ \/ at' = at /\ pc' = pc
         \/ at' = [at EXCEPT ![k] = Len(full)] /\ pc' = [pc EXCEPT ![k] = "spawned"]
  BY DEF ReportSignature, TaskWindow, delayVars
<1> HIDE DEF k
<1>3. FromSource' /\ ValidFromFile'
  BY <1>2 DEF SoundInv, FromSource, Delivering, ValidFromFile
<1>4. VerdictSound'
  <2>1. \A c : Sound(c) => Sound(c)'
    BY <1>2, SoundStays
  <2>2. QED
    BY <1>2, <2>1 DEF SoundInv, VerdictSound, Chunks
<1>5. GivenWindow'
  <2>1. Len(full) \in DOMAIN full /\ Len(full) \in Nat
    <3>1. full # <<>> /\ full \in Seq([latest : Delivering, future : Seq(Delivering)])
      BY <1>2 DEF SoundInv, GivenWindow, FromSource
    <3>2. QED
      BY <3>1
  <2>2. /\ at \in [Chunks -> Nat] /\ pc \in [Chunks -> TaskState]
        /\ \A i \in Chunks : pc[i] # "idle" => at[i] \in DOMAIN full
    BY DEF SoundInv, GivenWindow, TaskInv, Typed
  <2>3. /\ at' \in [Chunks -> Nat]
        /\ \A i \in Chunks : pc'[i] # "idle" => at'[i] \in DOMAIN full
    BY <1>2, <2>1, <2>2
  <2>4. QED
    BY <1>2, <2>3 DEF SoundInv, GivenWindow, Chunks
<1>6. QED
  BY <1>1, <1>2, <1>3, <1>4, <1>5 DEF SoundInv

-----------------------------------------------------------------------------
(* Judging.                                                                 *)

(* The frames gathered were delivered.                                      *)
LEMMA GatheredDelivered ==
  ASSUME SoundInv, NEW i \in Chunks, pc[i] # "idle", ~ BeyondWindow(i)
  PROVE  Range(Gathered(i)) \subseteq Range(source)
<1> DEFINE w == full[at[i]]
           k == EndFrame(file[i]) - 1
<1>1. w \in [latest : Delivering, future : Seq(Delivering)]
  <2>1. full \in Seq([latest : Delivering, future : Seq(Delivering)]) /\ at[i] \in DOMAIN full
    BY DEF SoundInv, GivenWindow, FromSource
  <2> DEFINE W == [latest : Delivering, future : Seq(Delivering)]
  <2> HIDE DEF W
  <2>2. full \in Seq(W)
    BY <2>1 DEF W
  <2>3. full[at[i]] \in W
    BY <2>1, <2>2
  <2>4. QED
    BY <2>3 DEF W
<1>2. w.latest \in Delivering /\ w.future \in Seq(Delivering)
  BY <1>1
<1>3. k \in 0..Len(w.future)
  BY DEF BeyondWindow
<1> HIDE DEF w, k
<1>4. SubSeq(w.future, 1, k) \in Seq(Delivering)
  <2>1. Len(w.future) \in Nat /\ k \in Int /\ 1 \in Int
    BY <1>2, <1>3
  <2>2. \A n \in 1..k : w.future[n] \in Delivering
    BY <1>2, <1>3, <2>1
  <2>3. QED
    BY <2>1, <2>2, SubSeqProperties
<1>5. FramesAmong(SubSeq(w.future, 1, k)) \in Seq(Delivering)
  BY <1>4, FramesAmongType
<1>6. <<w.latest>> \o FramesAmong(SubSeq(w.future, 1, k)) \in Seq(Delivering)
  <2>1. <<w.latest>> \in Seq(Delivering)
    BY <1>2
  <2>2. QED
    BY <1>5, <2>1, ConcatProperties
<1>7. Gathered(i) \in Seq(Delivering)
  BY <1>6 DEF Gathered, w, k
<1>8. QED
  BY <1>7, RangeOfSeq DEF Delivering

(* A chunk is found Verified or Unverified by its signer's subject only.    *)
LEMMA JudgeGives ==
  ASSUME SoundInv, NEW i \in Chunks, NEW subject \in Subjects, Judge(i, subject),
         NEW v \in {"Verified", "Unverified"}, verdict'[i] = v, verdict[i] # v
  PROVE  /\ ~ BeyondWindow(i) /\ SizeAndOffsetOK(file[i]) /\ subject.state = "Valid"
         /\ v = IF Gathered(i) = SignedFrames(file[i]) /\ subject.key = file[i].key
                  THEN "Verified" ELSE "Unverified"
<1> DEFINE c == file[i]
<1>1. ~ (SizeAndOffsetOK(c) /\ BeyondWindow(i))
  BY DEF Judge
<1>2. verdict \in [Chunks -> Verdicts \cup {"Absent"}]
  BY DEF SoundInv, TaskInv, Typed
<1>3. SizeAndOffsetOK(c) /\ FromSigner(i, subject) = v
  <2>1. verdict'[i] =
          CASE ~ LengthAllowed(c.stop - c.start) -> "InvalidChunkSize"
            [] SizeAndOffsetOK(c) /\ ~ c.fits    -> "InvalidCrop"
            [] SizeAndOffsetOK(c) /\ c.fits      -> FromSigner(i, subject)
            [] OTHER                             -> "OutOfRange"
    BY <1>1, <1>2 DEF Judge
  <2>2. SizeAndOffsetOK(c) => LengthAllowed(c.stop - c.start)
    BY DEF SizeAndOffsetOK
  <2>3. CASE ~ LengthAllowed(c.stop - c.start)
    BY <2>1, <2>2, <2>3
  <2>4. CASE SizeAndOffsetOK(c) /\ ~ c.fits
    BY <2>1, <2>2, <2>4
  <2>5. CASE SizeAndOffsetOK(c) /\ c.fits
    BY <2>1, <2>2, <2>5
  <2>6. CASE LengthAllowed(c.stop - c.start) /\ ~ SizeAndOffsetOK(c)
    BY <2>1, <2>6
  <2>7. QED
    BY <2>3, <2>4, <2>5, <2>6
<1>4. CASE subject.state = "Valid"
  BY <1>1, <1>3, <1>4 DEF FromSigner
<1>5. CASE subject.state = "Undefined"
  BY <1>3, <1>5 DEF FromSigner
<1>6. CASE subject.state = "Invalid"
  BY <1>3, <1>6 DEF FromSigner
<1>7. CASE subject.state = "ResolverFailed"
  BY <1>3, <1>7 DEF FromSigner
<1>8. subject.state \in {"Valid", "Undefined", "Invalid", "ResolverFailed"}
  BY DEF Subjects
<1>9. QED
  BY <1>4, <1>5, <1>6, <1>7, <1>8

(* A chunk found Verified is sound.                                         *)
LEMMA JudgeVerified ==
  ASSUME SoundInv, NEW i \in Chunks, pc[i] # "idle",
         NEW subject \in Subjects, Judge(i, subject),
         verdict'[i] = "Verified", verdict[i] # "Verified",
         subject.state = "Valid" =>
             \E d \in Range(file) :
                 d.pres = "good" /\ d.id = file[i].id /\ d.key = subject.key
  PROVE  Sound(file[i])
<1> DEFINE c == file[i]
<1>1. /\ ~ BeyondWindow(i) /\ SizeAndOffsetOK(c)
      /\ subject.state = "Valid" /\ subject.key = c.key
      /\ Gathered(i) = SignedFrames(c)
  BY JudgeGives
<1>2. file \in Seq(Chunk) /\ offset \in Nat
  BY DEF SoundInv, TaskInv, Typed
<1>3. LengthAllowed(c.stop - c.start)
  BY <1>1 DEF SizeAndOffsetOK
<1>4. \A n \in FramesOf(c) : [frame |-> n, intact |-> TRUE] \in Range(source)
  <2>1. c \in Chunk
    BY <1>2 DEF Chunks
  <2>2. Range(SignedFrames(c)) \subseteq Range(source)
    BY <1>1, GatheredDelivered
  <2>3. QED
    BY <1>2, <2>1, <2>2, SignedFramesComplete
<1>5. QED
  BY <1>1, <1>3, <1>4 DEF Sound

(* A step at the lock that judges with a subject of the file.               *)
LEMMA JudgeSoundInv ==
  ASSUME SoundInv, NEW i \in Chunks, pc[i] = "queued",
         NEW subject \in Subjects, Judge(i, subject),
         UNCHANGED <<offset, file, delayVars, pending, at>>, TaskInv', ValidFromFile',
         subject.state = "Valid" =>
             \E d \in Range(file) :
                 d.pres = "good" /\ d.id = file[i].id /\ d.key = subject.key
  PROVE  SoundInv'
<1>1. /\ pc \in [Chunks -> TaskState] /\ verdict \in [Chunks -> Verdicts \cup {"Absent"}]
      /\ FromSource /\ GivenWindow /\ VerdictSound /\ offset \in Nat
  BY DEF SoundInv, TaskInv, Typed
<1>2. \A j \in Chunks : j # i => verdict'[j] = verdict[j] /\ pc'[j] = pc[j]
  BY <1>1 DEF Judge
<1>3. FromSource' /\ offset' \in Nat
  BY <1>1 DEF FromSource, Delivering, delayVars
<1>4. GivenWindow'
  BY <1>1, <1>2 DEF GivenWindow, delayVars, Chunks
<1>5. VerdictSound'
  <2>1. \A c : Sound(c) => Sound(c)'
    BY SoundStays DEF delayVars
  <2>2. verdict'[i] = "Verified" => Sound(file[i])
    <3>1. CASE verdict[i] = "Verified"
      BY <1>1, <3>1 DEF VerdictSound
    <3>2. CASE verdict[i] # "Verified"
      BY <3>2, JudgeVerified
    <3>3. QED
      BY <3>1, <3>2
  <2>3. \A j \in Chunks : verdict'[j] = "Verified" => Sound(file[j])
    BY <1>1, <1>2, <2>2 DEF VerdictSound
  <2>4. QED
    BY <2>1, <2>3 DEF VerdictSound, Chunks
<1>6. QED
  BY <1>3, <1>4, <1>5 DEF SoundInv

(* A reference is judged by the subject on record.                          *)
LEMMA NormaliseRefSoundInv ==
  ASSUME SoundInv, NEW i \in Chunks, NormaliseRef(i)
  PROVE  SoundInv'
<1>1. TaskInv'
  BY NormaliseRefTaskInv DEF SoundInv
<1>2. file[i].id \in Id /\ credentials \in [Id -> Subjects]
  BY EntryFields DEF SoundInv, TaskInv, Typed
<1>3. PICK s \in Subjects : s = credentials[file[i].id]
  BY <1>2
<1>4. /\ pc[i] = "queued" /\ Judge(i, s) /\ credentials' = credentials
      /\ UNCHANGED <<offset, file, delayVars, pending, at>>
  BY <1>3 DEF NormaliseRef, HoldsCredentials
<1>5. ValidFromFile'
  BY <1>4 DEF SoundInv, ValidFromFile
<1>6. s.state = "Valid" =>
        \E d \in Range(file) : d.pres = "good" /\ d.id = file[i].id /\ d.key = s.key
  BY <1>2, <1>3 DEF SoundInv, ValidFromFile
<1>7. QED
  BY <1>1, <1>4, <1>5, <1>6, JudgeSoundInv

(* Only a presentation that validates gives a valid subject, with its key.  *)
LEMMA ValidOutcome ==
  ASSUME NEW c, NEW subject \in Outcomes(c), subject.state = "Valid"
  PROVE  c.pres = "good" /\ subject.key = c.key
<1>1. CASE c.pres = "good"
  <2>1. subject \in { [state |-> "ResolverFailed"], [state |-> "Valid", key |-> c.key] }
    BY <1>1 DEF Outcomes
  <2>2. QED
    BY <1>1, <2>1
<1>2. CASE c.pres = "forged"
  BY <1>2 DEF Outcomes
<1>3. CASE c.pres \notin {"good", "forged"}
  BY <1>3 DEF Outcomes
<1>4. QED
  BY <1>1, <1>2, <1>3

(* A definition is validated, and what it is judged to be is sound.         *)
LEMMA NormaliseDefSoundInv ==
  ASSUME SoundInv, NEW i \in Chunks, NormaliseDef(i)
  PROVE  SoundInv'
<1>1. TaskInv'
  BY NormaliseDefTaskInv DEF SoundInv
<1>2. file \in Seq(Chunk) /\ file[i].id \in Id /\ credentials \in [Id -> Subjects]
  BY EntryFields DEF SoundInv, TaskInv, Typed
<1>3. PICK s \in Outcomes(file[i]) :
        credentials' = [credentials EXCEPT ![file[i].id] = s] /\ Judge(i, s)
  BY DEF NormaliseDef
<1>4. s \in Subjects
  BY <1>2, OutcomesAreSubjects
<1>5. /\ pc[i] = "queued" /\ UNCHANGED <<offset, file, delayVars, pending, at>>
  BY DEF NormaliseDef, HoldsCredentials
<1>6. s.state = "Valid" =>
        \E d \in Range(file) : d.pres = "good" /\ d.id = file[i].id /\ d.key = s.key
  <2>1. file[i] \in Range(file)
    BY DEF Chunks, Range
  <2>2. QED
    BY <2>1, ValidOutcome
<1>7. ValidFromFile'
  <2>1. \A id \in Id : id # file[i].id => credentials'[id] = credentials[id]
    BY <1>2, <1>3
  <2>2. credentials'[file[i].id] = s
    BY <1>2, <1>3
  <2>3. QED
    BY <1>5, <1>6, <2>1, <2>2 DEF SoundInv, ValidFromFile
<1>8. QED
  BY <1>1, <1>3, <1>4, <1>5, <1>6, <1>7, JudgeSoundInv

(* The other steps of a task judge nothing.                                 *)
LEMMA OtherTaskSoundInv ==
  ASSUME SoundInv, NEW i \in Chunks, TaskStart(i) \/ NormalisePanics(i) \/ Publish(i)
  PROVE  SoundInv'
<1>1. TaskInv'
  BY TaskStartTaskInv, NormalisePanicsTaskInv, PublishTaskInv DEF SoundInv
<1>2. /\ UNCHANGED <<offset, file, delayVars, pending, at, verdict, credentials>>
      /\ \E p : pc' = [pc EXCEPT ![i] = p]
      /\ pc[i] # "idle"
  BY DEF TaskStart, NormalisePanics, Publish, HoldsCredentials
<1>3. FromSource' /\ ValidFromFile'
  BY <1>2 DEF SoundInv, FromSource, Delivering, ValidFromFile, delayVars
<1>4. GivenWindow'
  <2>1. pc \in [Chunks -> TaskState] /\ GivenWindow
    BY DEF SoundInv, TaskInv, Typed
  <2>2. \A j \in Chunks : pc'[j] # "idle" => pc[j] # "idle"
    BY <1>2, <2>1
  <2>3. QED
    BY <1>2, <2>1, <2>2 DEF GivenWindow, delayVars, Chunks
<1>5. VerdictSound'
  <2>1. \A c : Sound(c) => Sound(c)'
    BY <1>2, SoundStays DEF delayVars
  <2>2. QED
    BY <1>2, <2>1 DEF SoundInv, VerdictSound, Chunks
<1>6. QED
  BY <1>1, <1>2, <1>3, <1>4, <1>5 DEF SoundInv

(* verify gives up, or nothing happens.                                     *)
LEMMA StutterSoundInv ==
  ASSUME SoundInv, PeekFails \/ UNCHANGED vars
  PROVE  SoundInv'
<1>1. TaskInv'
  BY VideoTaskInv DEF SoundInv
<1>2. UNCHANGED <<offset, file, source, buf, full, pending, at, pc, verdict, credentials>>
  BY DEF PeekFails, vars, delayVars, taskVars
<1>3. FromSource' /\ ValidFromFile' /\ GivenWindow'
  BY <1>2 DEF SoundInv, FromSource, Delivering, ValidFromFile, GivenWindow, Chunks
<1>4. VerdictSound'
  <2>1. \A c : Sound(c) => Sound(c)'
    BY <1>2, SoundStays
  <2>2. QED
    BY <1>2, <2>1 DEF SoundInv, VerdictSound, Chunks
<1>5. QED
  BY <1>1, <1>2, <1>3, <1>4 DEF SoundInv

-----------------------------------------------------------------------------
(* The invariant holds in every reachable state.                            *)
THEOREM SoundInvariant == Spec => []SoundInv
<1>1. SoundInv /\ [Next]_vars => SoundInv'
  BY NextFrameSoundInv, ReportSoundInv, NormaliseRefSoundInv, NormaliseDefSoundInv,
     OtherTaskSoundInv, StutterSoundInv
     DEF Next, Task
<1>2. QED
  BY <1>1, InitSoundInv, PTL DEF Spec

(* A chunk the viewer was told is Verified has a legal length, every one of *)
(* its frames was delivered as it was signed, and its signer's key is that  *)
(* of a presentation in the file that validates (verify.rs, from_signer).   *)
THEOREM VerifiedMeansVerified == Spec => []VerifiedIsSound
<1>1. SoundInv => VerifiedIsSound
  <2> SUFFICES ASSUME SoundInv, NEW i \in Chunks, seen[i] = "Verified"
               PROVE  Sound(file[i])
    BY DEF VerifiedIsSound, Sound
  <2>1. Settled(seen[i])
    BY DEF Settled, Verdicts
  <2>2. verdict[i] = "Verified"
    BY <2>1 DEF SoundInv, TaskInv, SeenIsCached, CacheMirrorsTasks
  <2>3. QED
    BY <2>2 DEF SoundInv, VerdictSound
<1>2. QED
  BY <1>1, SoundInvariant, PTL

-----------------------------------------------------------------------------
(* No false alarm: windows.                                                 *)

(* The delayed stream, seen from the verifier: what has come out and what   *)
(* is held back are the source, and a window shows the items that follow.   *)
Windows ==
    /\ Len(source) = Len(full) + Len(buf)
    /\ \A e \in DOMAIN buf : buf[e] = source[Len(full) + e]
    /\ \A j \in DOMAIN full :
         /\ full[j].latest = source[j]
         /\ \A e \in DOMAIN full[j].future :
               j + e <= Len(source) /\ full[j].future[e] = source[j + e]

(* What has arrived or come out stays where it is.                          *)
Extends(s, t) == Len(s) <= Len(t) /\ \A j \in DOMAIN s : j \in DOMAIN t /\ t[j] = s[j]

(* What a sequence is with one item more.                                   *)
LEMMA OneMore ==
  ASSUME NEW S, NEW s \in Seq(S), NEW x \in S
  PROVE  /\ DOMAIN s = 1..Len(s) /\ Len(Append(s, x)) = Len(s) + 1
         /\ DOMAIN Append(s, x) = 1..(Len(s) + 1)
         /\ \A j \in 1..Len(s) : Append(s, x)[j] = s[j]
         /\ Append(s, x)[Len(s) + 1] = x
OBVIOUS

(* An item pushes another one out of a full buffer.                         *)
LEMMA PollItemWindows ==
  ASSUME FromSource, Windows, NEW it, Delay!PollItem(it)
  PROVE  /\ Windows' /\ Extends(source, source') /\ Extends(full, full')
         /\ full' = full \/ Len(full') = Len(full) + 1
<1> DEFINE new == Delivering \cup {it}
           W == [latest : Delivering, future : Seq(Delivering)]
<1>1. /\ source' = Append(source, it)
      /\ buf' = Append(IF Len(buf) = Capacity(Rate) THEN Tail(buf) ELSE buf, it)
      /\ full' = IF Len(buf) = Capacity(Rate)
                   THEN Append(full, [latest |-> Head(buf), future |-> buf']) ELSE full
  BY DEF Delay!PollItem, Delay!Enqueued, Delay!IsFilled
<1>2. source \in Seq(new) /\ buf \in Seq(new) /\ it \in new
  BY SeqMonotonic DEF FromSource
<1>3. full \in Seq(W)
  BY DEF FromSource
<1> HIDE DEF new, W
<1>4. PICK n \in Nat : n = Len(full) /\ DOMAIN full = 1..n
  BY <1>3
<1>5. PICK b \in Nat : b = Len(buf) /\ DOMAIN buf = 1..b
  BY <1>2
<1>6. /\ Len(source) = n + b /\ DOMAIN source = 1..(n + b)
      /\ Len(source') = n + b + 1 /\ DOMAIN source' = 1..(n + b + 1)
      /\ \A j \in 1..(n + b) : source'[j] = source[j]
      /\ source'[n + b + 1] = it
  <2>1. Len(source) = n + b
    <3>1. Len(source) = Len(full) + Len(buf)
      BY Zenon DEF Windows
    <3>2. QED
      BY <1>4, <1>5, <3>1, Zenon
  <2>2. source' = Append(source, it)
    BY <1>1, Zenon
  <2>3. /\ DOMAIN source = 1..Len(source) /\ Len(Append(source, it)) = Len(source) + 1
        /\ DOMAIN Append(source, it) = 1..(Len(source) + 1)
        /\ \A j \in 1..Len(source) : Append(source, it)[j] = source[j]
        /\ Append(source, it)[Len(source) + 1] = it
    BY <1>2, OneMore
  <2>4. QED
    BY <2>1, <2>2, <2>3, Zenon
<1>7. Extends(source, source')
  <2>1. PICK l \in Nat : l = n + b
    OBVIOUS
  <2>2. \A j \in 1..l : j \in 1..(l + 1)
    OBVIOUS
  <2>3. l <= l + 1
    OBVIOUS
  <2>4. QED
    BY <1>6, <2>1, <2>2, <2>3, Zenon DEF Extends
<1>8. \A e \in 1..b : buf[e] = source[n + e] /\ n + e \in 1..(n + b)
  <2>1. \A e \in DOMAIN buf : buf[e] = source[Len(full) + e]
    BY Zenon DEF Windows
  <2>2. \A e \in 1..b : buf[e] = source[n + e]
    BY <1>4, <1>5, <2>1, Zenon
  <2>3. \A e \in 1..b : n + e \in 1..(n + b)
    OBVIOUS
  <2>4. QED
    BY <2>2, <2>3
<1>9. \A j \in 1..n :
        /\ full[j].latest = source'[j]
        /\ \A e \in DOMAIN full[j].future :
              j + e <= n + b + 1 /\ full[j].future[e] = source'[j + e]
  <2> SUFFICES ASSUME NEW j \in 1..n
               PROVE  /\ full[j].latest = source'[j]
                      /\ \A e \in DOMAIN full[j].future :
                            j + e <= n + b + 1 /\ full[j].future[e] = source'[j + e]
    OBVIOUS
  <2>1. full[j].latest = source'[j]
    BY <1>4, <1>6 DEF Windows
  <2>2. full[j].future \in Seq(Delivering)
    <3>1. full[j] \in W
      BY <1>3, <1>4
    <3>2. QED
      BY <3>1 DEF W
  <2>3. ASSUME NEW e \in DOMAIN full[j].future
        PROVE  j + e <= n + b + 1 /\ full[j].future[e] = source'[j + e]
    <3>1. j + e <= Len(source) /\ full[j].future[e] = source[j + e]
      BY <1>4 DEF Windows
    <3>2. e \in Nat
      BY <2>2
    <3>3. j + e \in 1..(n + b)
      BY <1>6, <3>1, <3>2
    <3>4. QED
      BY <1>6, <3>1, <3>3
  <2>4. QED
    BY <2>1, <2>3
<1>10. CASE b = Capacity(Rate)
  <2>1. b > 0
    BY <1>10, RateIsRate, CapacityIsPositive
  <2>2. /\ DOMAIN buf' = 1..b /\ Len(buf') = b
        /\ \A e \in 1..b : buf'[e] = IF e < b THEN buf[e + 1] ELSE it
        /\ Head(buf) = buf[1]
    <3>1. buf' = Append(Tail(buf), it)
      BY <1>1, <1>5, <1>10
    <3>2. QED
      BY <1>2, <1>5, <2>1, <3>1
  <2>3. \A e \in 1..b : buf'[e] = source'[n + 1 + e]
    <3> SUFFICES ASSUME NEW e \in 1..b PROVE buf'[e] = source'[n + 1 + e]
      OBVIOUS
    <3>1. CASE e < b
      <4>1. e + 1 \in 1..b /\ n + (e + 1) = n + 1 + e
        BY <3>1
      <4>2. QED
        BY <1>6, <1>8, <2>2, <3>1, <4>1
    <3>2. CASE e = b
      BY <1>6, <2>2, <3>2
    <3>3. QED
      BY <3>1, <3>2
  <2>4. PICK w : w = [latest |-> Head(buf), future |-> buf']
    OBVIOUS
  <2>5. w.latest = source'[n + 1] /\ w.future = buf'
    BY <1>6, <1>8, <2>1, <2>2, <2>4
  <2>6. /\ Len(full') = n + 1 /\ DOMAIN full' = 1..(n + 1)
        /\ \A j \in 1..n : full'[j] = full[j]
        /\ full'[n + 1] = w
    <3>1. full' = Append(full, w)
      BY <1>1, <1>5, <1>10, <2>4
    <3>2. full \in Seq(W \cup {w}) /\ w \in W \cup {w}
      BY <1>3, SeqMonotonic
    <3>3. QED
      BY <1>4, <3>1, <3>2
  <2>7. Windows'
    <3>1. Len(source') = Len(full') + Len(buf')
      BY <1>6, <2>2, <2>6
    <3>2. \A e \in DOMAIN buf' : buf'[e] = source'[Len(full') + e]
      BY <2>2, <2>3, <2>6
    <3>3. ASSUME NEW j \in DOMAIN full'
          PROVE  /\ full'[j].latest = source'[j]
                 /\ \A e \in DOMAIN full'[j].future :
                       j + e <= Len(source') /\ full'[j].future[e] = source'[j + e]
      <4>1. j \in 1..n \/ j = n + 1
        BY <2>6
      <4>2. CASE j \in 1..n
        BY <1>6, <1>9, <2>6, <4>2
      <4>3. CASE j = n + 1
        BY <1>6, <2>2, <2>3, <2>5, <2>6, <4>3
      <4>4. QED
        BY <4>1, <4>2, <4>3
    <3>4. QED
      BY <3>1, <3>2, <3>3 DEF Windows
  <2>8. Extends(full, full')
    BY <1>4, <2>6 DEF Extends
  <2>9. QED
    BY <1>4, <1>7, <2>6, <2>7, <2>8
<1>11. CASE b # Capacity(Rate)
  <2>1. full' = full /\ buf' = Append(buf, it)
    BY <1>1, <1>5, <1>11
  <2>2. /\ DOMAIN buf' = 1..(b + 1) /\ Len(buf') = b + 1
        /\ \A e \in 1..b : buf'[e] = buf[e]
        /\ buf'[b + 1] = it
    BY <1>2, <1>5, <2>1
  <2>3. \A e \in 1..(b + 1) : buf'[e] = source'[n + e]
    <3> SUFFICES ASSUME NEW e \in 1..(b + 1) PROVE buf'[e] = source'[n + e]
      OBVIOUS
    <3>1. CASE e \in 1..b
      BY <1>6, <1>8, <2>2, <3>1
    <3>2. CASE e = b + 1
      BY <1>6, <2>2, <3>2
    <3>3. QED
      BY <3>1, <3>2
  <2>4. Windows'
    BY <1>4, <1>6, <1>9, <2>1, <2>2, <2>3 DEF Windows
  <2>5. QED
    BY <1>7, <2>1, <2>4, <1>4 DEF Extends
<1>12. QED
  BY <1>10, <1>11

(* The rest comes out.                                                      *)
LEMMA PollEndWindows ==
  ASSUME FromSource, Windows, Delay!PollEnd
  PROVE  /\ Windows' /\ Extends(source, source') /\ Extends(full, full')
         /\ full' = full \/ Len(full') = Len(full) + 1
<1> DEFINE W == [latest : Delivering, future : Seq(Delivering)]
<1>1. source' = source
      /\ \/ /\ buf # <<>> /\ buf' = Tail(buf)
            /\ full' = Append(full, [latest |-> Head(buf), future |-> Tail(buf)])
         \/ buf' = buf /\ full' = full
  BY DEF Delay!PollEnd
<1>2. source \in Seq(Delivering) /\ buf \in Seq(Delivering) /\ full \in Seq(W)
  BY DEF FromSource
<1>3. Len(source) \in Nat /\ DOMAIN source = 1..Len(source)
  BY <1>2
<1>4. Extends(source, source')
  BY <1>1, <1>3 DEF Extends
<1> HIDE DEF W
<1>5. PICK n \in Nat : n = Len(full) /\ DOMAIN full = 1..n
  BY <1>2
<1>6. CASE buf' = buf /\ full' = full
  BY <1>1, <1>4, <1>5, <1>6 DEF Windows, Extends
<1>7. CASE buf # <<>> /\ buf' = Tail(buf)
           /\ full' = Append(full, [latest |-> Head(buf), future |-> Tail(buf)])
  <2>1. PICK b \in Nat \ {0} :
          /\ b = Len(buf) /\ DOMAIN buf = 1..b
          /\ Len(buf') = b - 1 /\ DOMAIN buf' = 1..(b - 1)
          /\ \A e \in 1..(b - 1) : buf'[e] = buf[e + 1]
          /\ Head(buf) = buf[1]
    BY <1>2, <1>7
  <2>2. Len(source) = n + b /\ \A e \in 1..b : buf[e] = source[n + e]
    BY <1>5, <2>1 DEF Windows
  <2>3. \A e \in 1..(b - 1) : buf'[e] = source[n + 1 + e]
    <3> SUFFICES ASSUME NEW e \in 1..(b - 1) PROVE buf'[e] = source[n + 1 + e]
      OBVIOUS
    <3>1. e + 1 \in 1..b /\ n + (e + 1) = n + 1 + e
      OBVIOUS
    <3>2. QED
      BY <2>1, <2>2, <3>1
  <2>4. PICK w : w = [latest |-> Head(buf), future |-> buf']
    OBVIOUS
  <2>5. w.latest = source[n + 1] /\ w.future = buf'
    BY <2>1, <2>2, <2>4
  <2>6. /\ Len(full') = n + 1 /\ DOMAIN full' = 1..(n + 1)
        /\ \A j \in 1..n : full'[j] = full[j]
        /\ full'[n + 1] = w
    <3>1. full' = Append(full, w)
      BY <1>7, <2>4
    <3>2. full \in Seq(W \cup {w}) /\ w \in W \cup {w}
      BY <1>2, SeqMonotonic
    <3>3. QED
      BY <1>5, <3>1, <3>2
  <2>7. Windows'
    <3>1. Len(source') = Len(full') + Len(buf')
      BY <1>1, <2>1, <2>2, <2>6
    <3>2. \A e \in DOMAIN buf' : buf'[e] = source'[Len(full') + e]
      BY <1>1, <2>1, <2>3, <2>6
    <3>3. ASSUME NEW j \in DOMAIN full'
          PROVE  /\ full'[j].latest = source'[j]
                 /\ \A e \in DOMAIN full'[j].future :
                       j + e <= Len(source') /\ full'[j].future[e] = source'[j + e]
      <4>1. j \in 1..n \/ j = n + 1
        BY <2>6
      <4>2. CASE j \in 1..n
        <5>1. full'[j] = full[j] /\ j \in DOMAIN full /\ source' = source
          BY <1>1, <1>5, <2>6, <4>2
        <5>2. QED
          BY <5>1 DEF Windows
      <4>3. CASE j = n + 1
        <5>1. full'[j] = w /\ source' = source
          BY <1>1, <2>6, <4>3
        <5>2. \A e \in 1..(b - 1) : j + e <= n + b
          BY <4>3
        <5>3. QED
          BY <2>1, <2>2, <2>3, <2>5, <4>3, <5>1, <5>2
      <4>4. QED
        BY <4>1, <4>2, <4>3
    <3>4. QED
      BY <3>1, <3>2, <3>3 DEF Windows
  <2>8. Extends(full, full')
    BY <1>5, <2>6 DEF Extends
  <2>9. QED
    BY <1>4, <1>5, <2>6, <2>7, <2>8
<1>8. QED
  BY <1>1, <1>6, <1>7

-----------------------------------------------------------------------------
(* No false alarm: numbers.                                                 *)

(* The frames that have arrived are numbered as they came, with errors in   *)
(* between.                                                                 *)
IsFrame(j) == source[j] # Err
Numbered ==
    /\ \A j \in DOMAIN source : IsFrame(j) => source[j].frame \in 0..(FramesSoFar - 1)
    /\ \A j, m \in DOMAIN source :
          IsFrame(j) /\ IsFrame(m) /\ j < m => source[j].frame < source[m].frame

(* Counting frames.                                                         *)
CountFrames(s) == Cardinality({ k \in DOMAIN s : s[k] # Err })

(* One more at most.                                                        *)
LEMMA CountGrows ==
  ASSUME NEW T, NEW s \in Seq(T), NEW it
  PROVE  /\ CountFrames(s) \in Nat
         /\ CountFrames(Append(s, it))
               = IF it = Err THEN CountFrames(s) ELSE CountFrames(s) + 1
<1> DEFINE t == Append(s, it)
           n == Len(s)
           F == { k \in DOMAIN s : s[k] # Err }
           G == { k \in DOMAIN t : t[k] # Err }
<1>1. s \in Seq(T \cup {it}) /\ it \in T \cup {it}
  BY SeqMonotonic
<1>2. /\ n \in Nat /\ DOMAIN s = 1..n /\ DOMAIN t = 1..(n + 1)
      /\ \A k \in 1..n : t[k] = s[k]
      /\ t[n + 1] = it
  BY <1>1
<1> HIDE DEF t, n
<1>3. IsFiniteSet(F) /\ Cardinality(F) \in Nat
  <2>1. IsFiniteSet(1..n)
    BY <1>2, FS_Interval
  <2>2. F \subseteq 1..n
    BY <1>2
  <2>3. QED
    BY <2>1, <2>2, FS_Subset, FS_CardinalityType
<1>4. CASE it = Err
  <2>1. G = F
    BY <1>2, <1>4
  <2>2. QED
    BY <1>3, <1>4, <2>1 DEF CountFrames, t
<1>5. CASE it # Err
  <2>1. G = F \cup {n + 1} /\ n + 1 \notin F
    BY <1>2, <1>5
  <2> HIDE DEF F
  <2>2. Cardinality(G) = Cardinality(F) + 1
    BY <1>3, <2>1, FS_AddElement
  <2>3. QED
    BY <1>3, <1>5, <2>2 DEF CountFrames, t, F
<1>6. QED
  BY <1>4, <1>5

(* The next item is the next frame, or none.                                *)
LEMMA PollItemNumbered ==
  ASSUME FromSource, Numbered, NEW it \in NextItems, Delay!PollItem(it)
  PROVE  Numbered'
<1>1. source' = Append(source, it) /\ source \in Seq(Delivering)
  BY DEF Delay!PollItem, FromSource
<1>2. PICK n \in Nat :
        /\ n = Len(source) /\ DOMAIN source = 1..n /\ DOMAIN source' = 1..(n + 1)
        /\ \A k \in 1..n : source'[k] = source[k]
        /\ source'[n + 1] = it
  <2>1. source \in Seq(Delivering \cup {it}) /\ it \in Delivering \cup {it}
    BY <1>1, SeqMonotonic
  <2>2. QED
    BY <1>1, <2>1
<1>3. PICK c \in Nat : c = FramesSoFar /\ FramesSoFar' = IF it = Err THEN c ELSE c + 1
  <2>1. FramesSoFar = CountFrames(source) /\ FramesSoFar' = CountFrames(source')
    BY DEF FramesSoFar, CountFrames
  <2>2. /\ CountFrames(source) \in Nat
        /\ CountFrames(Append(source, it))
              = IF it = Err THEN CountFrames(source) ELSE CountFrames(source) + 1
    BY <1>1, CountGrows
  <2>3. CountFrames(source') = IF it = Err THEN CountFrames(source) ELSE CountFrames(source) + 1
    BY <1>1, <2>2
  <2>4. QED
    BY <2>1, <2>2, <2>3
<1>4. it # Err => it.frame = c
  BY <1>3 DEF NextItems
<1>5. \A k \in 1..(n + 1) : k \in 1..n \/ k = n + 1
  OBVIOUS
<1>6. \A j \in 1..n : source[j] # Err => source[j].frame \in 0..(c - 1)
  BY <1>2, <1>3 DEF Numbered, IsFrame
<1>8. \A j, m \in 1..n :
        source[j] # Err /\ source[m] # Err /\ j < m => source[j].frame < source[m].frame
  BY <1>2 DEF Numbered, IsFrame
<1>9. CASE it = Err
  <2>1. \A k \in 1..(n + 1) : source'[k] # Err => k \in 1..n /\ source'[k] = source[k]
    BY <1>2, <1>5, <1>9
  <2>2. FramesSoFar' = c
    BY <1>3, <1>9
  <2>4. \A j \in DOMAIN source' : source'[j] # Err => source'[j].frame \in 0..(c - 1)
    BY <1>2, <1>6, <2>1
  <2>6. \A j, m \in DOMAIN source' :
          source'[j] # Err /\ source'[m] # Err /\ j < m => source'[j].frame < source'[m].frame
    BY <1>2, <1>8, <2>1
  <2>7. QED
    BY <2>2, <2>4, <2>6 DEF Numbered, IsFrame
<1>10. CASE it # Err
  <2>1. FramesSoFar' = c + 1 /\ source'[n + 1].frame = c /\ source'[n + 1] # Err
    BY <1>2, <1>3, <1>4, <1>10
  <2>2. \A j \in 1..n : source'[j] = source[j]
    BY <1>2
  <2>3. \A j \in DOMAIN source' : source'[j] # Err => source'[j].frame \in 0..((c + 1) - 1)
    <3> SUFFICES ASSUME NEW j \in 1..(n + 1), source'[j] # Err
                 PROVE  source'[j].frame \in 0..((c + 1) - 1)
      BY <1>2
    <3>1. CASE j \in 1..n
      <4>1. source'[j].frame \in 0..(c - 1)
        BY <1>6, <2>2, <3>1
      <4>2. QED
        BY <4>1
    <3>2. CASE j = n + 1
      BY <2>1, <3>2
    <3>3. QED
      BY <1>5, <3>1, <3>2
  <2>5. ASSUME NEW j \in 1..(n + 1), NEW m \in 1..(n + 1),
               source'[j] # Err, source'[m] # Err, j < m
        PROVE  source'[j].frame < source'[m].frame
    <3>1. j \in 1..n
      BY <2>5
    <3>2. CASE m \in 1..n
      BY <1>8, <2>2, <2>5, <3>1, <3>2
    <3>3. CASE m = n + 1
      <4>1. source'[j].frame \in 0..(c - 1) /\ source'[m].frame = c
        BY <1>6, <2>1, <2>2, <2>5, <3>1, <3>3
      <4>2. QED
        BY <4>1
    <3>4. QED
      BY <1>5, <3>2, <3>3
  <2>6. QED
    BY <1>2, <2>1, <2>3, <2>5 DEF Numbered, IsFrame
<1>11. QED
  BY <1>9, <1>10

-----------------------------------------------------------------------------
(* No false alarm: the frames of a chunk.                                   *)

(* The frames that cover a chunk, the frames signed for it and the indexes  *)
(* that verify_sig computes for it are the same.                            *)
LEMMA ChunkFrames ==
  ASSUME offset \in Nat, NEW c \in Chunk, offset <= c.start, c.start <= c.stop
  PROVE  /\ StartIdx(c) \in Nat /\ EndIdx(c) \in Nat
         /\ FramesOf(c) = StartIdx(c)..(EndIdx(c) - 1)
         /\ \A n \in Nat : Covers(c, n) <=> n \in StartIdx(c)..(EndIdx(c) - 1)
<1>1. PICK a \in Nat : a = c.start /\ FloorMillis(a) = a
  BY AlignedIsWhole DEF Chunk, Millis
<1>2. PICK b \in Nat : b = c.stop /\ FloorMillis(b) = b
  BY AlignedIsWhole DEF Chunk, Millis
<1>3. PICK o \in Nat : o = offset
  OBVIOUS
<1>4. PICK d \in Nat : a = o + d /\ d = c.start - offset
  <2>1. a - o \in Nat /\ a = o + (a - o)
    BY <1>1, <1>3
  <2>2. QED
    BY <1>1, <1>3, <2>1
<1>5. PICK e \in Nat : b = o + e /\ e = c.stop - offset
  <2>1. b - o \in Nat /\ b = o + (b - o)
    BY <1>1, <1>2, <1>3
  <2>2. QED
    BY <1>2, <1>3, <2>1
<1>6. PICK p \in Nat : p = StartIdx(c) /\ \A n \in Nat : p <= n <=> d <= Pts(Rate, n)
  <2>1. StartIdx(c) = FramesCeil(Rate, d)
    BY <1>4 DEF StartIdx
  <2>2. \A n \in Nat : FramesCeil(Rate, d) \in Nat /\ (FramesCeil(Rate, d) <= n <=> d <= Pts(Rate, n))
    BY RateIsRate, CeilIsFirst
  <2>3. 0 \in Nat
    OBVIOUS
  <2>4. QED
    BY <2>1, <2>2, <2>3
<1>7. PICK q \in Nat : q = EndIdx(c) /\ \A n \in Nat : q <= n <=> e <= Pts(Rate, n)
  <2>1. EndIdx(c) = FramesCeil(Rate, e)
    BY <1>5 DEF EndIdx
  <2>2. \A n \in Nat : FramesCeil(Rate, e) \in Nat /\ (FramesCeil(Rate, e) <= n <=> e <= Pts(Rate, n))
    BY RateIsRate, CeilIsFirst
  <2>3. 0 \in Nat
    OBVIOUS
  <2>4. QED
    BY <2>1, <2>2, <2>3
<1>8. ASSUME NEW n \in Nat
      PROVE  Covers(c, n) <=> n \in p..(q - 1)
  <2>1. PICK t \in Nat : t = Pts(Rate, n)
    BY RateIsRate, PtsAtLeast
  <2>2. PICK u \in Nat : u = Timestamp(n) /\ u = o + t
    BY <1>3, <2>1 DEF Timestamp
  <2>3. PICK f \in Nat : f = FloorMillis(u)
    BY FloorMillisBounds
  <2>4. (a <= f <=> a <= u) /\ (b <= f <=> b <= u)
    BY <1>1, <1>2, <2>3, FlooredIsWhole
  <2>5. Covers(c, n) <=> a <= f /\ f < b
    BY <1>1, <1>2, <2>2, <2>3 DEF Covers
  <2>6. Covers(c, n) <=> d <= t /\ ~ (e <= t)
    BY <1>4, <1>5, <2>2, <2>4, <2>5
  <2>7. (p <= n <=> d <= t) /\ (q <= n <=> e <= t)
    BY <1>6, <1>7, <2>1
  <2>8. QED
    BY <2>6, <2>7
<1>9. FramesOf(c) = p..(q - 1)
  <2>1. PICK s \in Nat : s = SecondsOf(Rate)
    BY RateIsRate, SecondsOfType
  <2>2. PICK f \in Nat : f = Rate.frames
    BY RateIsRate, SecondsOfType
  <2>3. PICK w \in Nat : w = FramesCeil(Rate, c.stop) /\ q <= w
    <3>1. FramesCeil(Rate, b) \in Nat
      BY RateIsRate, CeilIsFirst
    <3>2. PICK w \in Nat : w = FramesCeil(Rate, b)
      BY <3>1
    <3>3. b <= Pts(Rate, w) /\ Pts(Rate, w) \in Nat
      BY <3>2, RateIsRate, CeilIsFirst, PtsAtLeast
    <3>4. e <= Pts(Rate, w)
      BY <1>5, <3>3
    <3>5. QED
      BY <1>2, <1>7, <3>2, <3>4
  <2>4. ASSUME NEW n \in Nat
        PROVE  /\ c.start * Rate.frames <= offset * Rate.frames + n * SecondsOf(Rate) <=> p <= n
               /\ offset * Rate.frames + n * SecondsOf(Rate) < c.stop * Rate.frames <=> ~ (q <= n)
    <3>1. (d <= Pts(Rate, n) <=> d * f <= n * s) /\ (e <= Pts(Rate, n) <=> e * f <= n * s)
      BY <2>1, <2>2, RateIsRate, PtsAtLeast
    <3>2. c.start * Rate.frames = o * f + d * f /\ c.stop * Rate.frames = o * f + e * f
      BY <1>1, <1>2, <1>4, <1>5, <2>2
    <3>3. PICK x \in Nat : x = n * s
      BY <2>1
    <3>4. PICK y \in Nat : y = o * f
      BY <2>2
    <3>5. PICK z \in Nat : z = d * f
      BY <2>2
    <3>6. PICK v \in Nat : v = e * f
      BY <2>2
    <3>7. /\ c.start * Rate.frames = y + z /\ c.stop * Rate.frames = y + v
          /\ offset * Rate.frames + n * SecondsOf(Rate) = y + x
      BY <1>3, <2>1, <2>2, <3>2, <3>3, <3>4, <3>5, <3>6
    <3>8. (p <= n <=> z <= x) /\ (q <= n <=> v <= x)
      BY <1>6, <1>7, <3>1, <3>3, <3>5, <3>6
    <3>9. QED
      BY <3>7, <3>8
  <2>5. FramesOf(c) = { n \in 0..w : p <= n /\ ~ (q <= n) }
    BY <2>3, <2>4 DEF FramesOf
  <2>6. QED
    BY <2>3, <2>5
<1>10. QED
  BY <1>6, <1>7, <1>8, <1>9

(* The frames signed, one by one.                                           *)
LEMMA SignedFramesAre ==
  ASSUME offset \in Nat, NEW c \in Chunk, offset <= c.start, c.start <= c.stop,
         EndFrame(c) >= 1
  PROVE  /\ EndFrame(c) \in Nat /\ Cardinality(FramesOf(c)) = EndFrame(c)
         /\ SignedFrames(c) = [ k \in 1..EndFrame(c) |->
                                  [frame |-> StartIdx(c) + k - 1, intact |-> TRUE] ]
<1>1. PICK p \in Nat : p = StartIdx(c)
  BY ChunkFrames
<1>2. PICK q \in Nat : q = EndIdx(c)
  BY ChunkFrames
<1>3. EndFrame(c) = q - p /\ p <= q - 1
  BY <1>1, <1>2 DEF EndFrame
<1>4. FramesOf(c) = p..(q - 1)
  BY <1>1, <1>2, ChunkFrames
<1>5. Cardinality(p..(q - 1)) = q - p
  <2>1. p \in Int /\ q - 1 \in Int /\ ~ (p > q - 1)
    BY <1>3
  <2>2. Cardinality(p..(q - 1)) = (q - 1) - p + 1
    BY <2>1, FS_Interval
  <2>3. QED
    BY <2>2
<1>6. Min(p..(q - 1)) = p
  <2>1. p..(q - 1) \in SUBSET Nat /\ p \in p..(q - 1)
    BY <1>3
  <2>2. /\ Min(p..(q - 1)) \in p..(q - 1)
        /\ \A n \in p..(q - 1) : Min(p..(q - 1)) <= n
    BY <2>1, MinIsLeast
  <2>3. Min(p..(q - 1)) <= p
    BY <2>1, <2>2
  <2>4. QED
    BY <2>2, <2>3
<1>7. SignedFrames(c) = [ k \in 1..(q - p) |-> [frame |-> p + k - 1, intact |-> TRUE] ]
  BY <1>4, <1>5, <1>6 DEF SignedFrames
<1>8. QED
  BY <1>1, <1>3, <1>4, <1>5, <1>7

-----------------------------------------------------------------------------
(* No false alarm: the inductive invariant.                                 *)

(* The item at j is a frame that chunk i covers.                            *)
Shows(j, i) == IsFrame(j) /\ Covers(file[i], source[j].frame)

(* The chunks to report cover the frame that came out last, and a chunk     *)
(* with no entry in the cache covers none that came out before it.          *)
Unmet ==
    /\ \A i \in pending : full # <<>> /\ Shows(Len(full), i)
    /\ \A i \in Chunks, j \in DOMAIN full :
          cache[i] = "Absent" /\ Shows(j, i) => j = Len(full) /\ i \in pending

(* A task was given the first frame that its chunk covers.                  *)
FirstMet ==
    \A i \in Chunks : pc[i] # "idle" =>
        Shows(at[i], i) /\ \A j \in 1..(at[i] - 1) : ~ Shows(j, i)

(* From that frame on, something that has arrived is not what was signed.   *)
Signed(i, e) == [frame |-> StartIdx(file[i]) + e - 1, intact |-> TRUE]
Differs(i) ==
    \E e \in 1..EndFrame(file[i]) :
        at[i] + e - 1 <= Len(source) /\ source[at[i] + e - 1] # Signed(i, e)

OtherKey(i) ==
    \E d \in Range(file) : d.pres # "ref" /\ d.id = file[i].id /\ d.key # file[i].key

(* What is Unverified has a cause.                                          *)
Cause ==
    \A i \in Chunks : verdict[i] = "Unverified" =>
        /\ pc[i] # "idle"
        /\ SizeAndOffsetOK(file[i])
        /\ Differs(i) \/ OtherKey(i)

AlarmInv == SoundInv /\ Windows /\ Numbered /\ Unmet /\ FirstMet /\ Cause

(* It holds at first.                                                       *)
LEMMA InitAlarmInv == Init => AlarmInv
<1> SUFFICES ASSUME Init PROVE AlarmInv
  OBVIOUS
<1>1. SoundInv
  BY InitSoundInv
<1>2. source = <<>> /\ buf = <<>> /\ full = <<>> /\ pending = {}
  BY DEF Init, Delay!Init
<1>3. Windows
  BY <1>2 DEF Windows
<1>4. Numbered
  <2>1. DOMAIN source = {} /\ FramesSoFar \in Nat
    <3>1. DOMAIN source = {}
      BY <1>2
    <3>2. { k \in DOMAIN source : source[k] # Err } = {}
      BY <3>1
    <3>3. QED
      BY <3>1, <3>2, FS_EmptySet DEF FramesSoFar
  <2>2. QED
    BY <2>1 DEF Numbered
<1>5. Unmet
  BY <1>2 DEF Unmet
<1>6. FirstMet /\ Cause
  BY DEF Init, FirstMet, Cause
<1>7. QED
  BY <1>1, <1>3, <1>4, <1>5, <1>6 DEF AlarmInv

(* What a frame shows does not change.                                      *)
LEMMA ShowsStays ==
  ASSUME Extends(source, source'), UNCHANGED <<offset, file>>,
         NEW j \in DOMAIN source, NEW i
  PROVE  Shows(j, i)' <=> Shows(j, i)
<1>1. source'[j] = source[j]
  BY DEF Extends
<1>2. QED
  BY <1>1 DEF Shows, IsFrame, Covers, Timestamp

(* Nor does the cause of an alarm go away.                                  *)
LEMMA DiffersStays ==
  ASSUME source \in Seq(Delivering), Extends(source, source'), Len(source') \in Nat,
         UNCHANGED <<offset, file>>, NEW i, at[i] \in Nat \ {0}, at'[i] = at[i], Differs(i)
  PROVE  Differs(i)'
<1>1. PICK e \in 1..EndFrame(file[i]) :
        at[i] + e - 1 <= Len(source) /\ source[at[i] + e - 1] # Signed(i, e)
  BY DEF Differs
<1>2. PICK j \in Nat : j = at[i] + e - 1 /\ j \in 1..Len(source)
  <2>1. Len(source) \in Nat /\ e \in Int /\ e >= 1
    BY <1>1
  <2>2. at[i] + e - 1 \in 1..Len(source)
    BY <1>1, <2>1
  <2>3. QED
    BY <2>2
<1>3. source'[j] = source[j] /\ j <= Len(source')
  <2>1. Len(source) \in Nat /\ Len(source) <= Len(source') /\ DOMAIN source = 1..Len(source)
    BY DEF Extends
  <2>2. QED
    BY <1>2, <2>1 DEF Extends
<1>4. Signed(i, e)' = Signed(i, e) /\ EndFrame(file[i])' = EndFrame(file[i])
  BY DEF Signed, StartIdx, EndIdx, EndFrame
<1>5. QED
  BY <1>1, <1>2, <1>3, <1>4 DEF Differs

(* Where what has come out lies.                                            *)
LEMMA WindowsType ==
  ASSUME FromSource, Windows
  PROVE  /\ Len(full) \in Nat /\ DOMAIN full = 1..Len(full)
         /\ Len(source) \in Nat /\ DOMAIN source = 1..Len(source)
         /\ Len(full) <= Len(source)
<1>1. Len(full) \in Nat /\ DOMAIN full = 1..Len(full)
  <2> DEFINE W == [latest : Delivering, future : Seq(Delivering)]
  <2>1. full \in Seq(W)
    BY DEF FromSource
  <2> HIDE DEF W
  <2>2. QED
    BY <2>1
<1>2. Len(source) \in Nat /\ DOMAIN source = 1..Len(source) /\ Len(buf) \in Nat
  BY DEF FromSource
<1>3. Len(full) <= Len(source)
  BY <1>1, <1>2 DEF Windows
<1>4. QED
  BY <1>1, <1>2, <1>3

(* A step of the stream.                                                    *)
LEMMA NextFrameAlarmInv == AlarmInv /\ NextFrame => AlarmInv'
<1> SUFFICES ASSUME AlarmInv, NextFrame PROVE AlarmInv'
  OBVIOUS
<1>1. SoundInv'
  BY NextFrameSoundInv DEF AlarmInv
<1>2. /\ FromSource /\ FromSource' /\ Windows /\ Numbered
      /\ at \in [Chunks -> Nat] /\ \A i \in Chunks : pc[i] # "idle" => at[i] \in DOMAIN full
  BY <1>1 DEF SoundInv, AlarmInv, GivenWindow
<1>3. /\ pending = {} /\ pending' = CoveredNow
      /\ UNCHANGED <<offset, file, cache, pc, at, verdict>>
  BY DEF NextFrame, taskVars
<1>4. /\ Windows' /\ Extends(source, source') /\ Extends(full, full')
      /\ full' = full \/ Len(full') = Len(full) + 1
  BY <1>2, PollItemWindows, PollEndWindows DEF NextFrame
<1>5. Numbered'
  <2>1. CASE \E it \in NextItems : Delay!PollItem(it)
    BY <1>2, <2>1, PollItemNumbered
  <2>2. CASE Delay!PollEnd
    <3>1. source' = source
      BY <2>2 DEF Delay!PollEnd
    <3>2. QED
      BY <1>2, <3>1 DEF Numbered, IsFrame, FramesSoFar
  <2>3. QED
    BY <2>1, <2>2 DEF NextFrame
<1>6. PICK n \in Nat :
        /\ n = Len(full) /\ DOMAIN full = 1..n
        /\ \A j \in 1..n : j \in DOMAIN source
  <2>1. PICK n \in Nat : n = Len(full) /\ DOMAIN full = 1..n
    BY <1>2, WindowsType
  <2>2. PICK s \in Nat : s = Len(source) /\ DOMAIN source = 1..s
    BY <1>2, WindowsType
  <2>3. n <= s
    BY <1>2, <2>1, <2>2, WindowsType
  <2>4. \A j \in 1..n : j \in 1..s
    BY <2>3
  <2>5. QED
    BY <2>1, <2>2, <2>4
<1>7. /\ Len(full') \in Nat /\ DOMAIN full' = 1..Len(full')
      /\ Len(source') \in Nat
  BY <1>2, <1>4, WindowsType
<1> PICK m \in Nat : m = Len(full') /\ DOMAIN full' = 1..m
  BY <1>7
<1>8. \A i \in Chunks : \A j \in 1..n : Shows(j, i)' <=> Shows(j, i)
  BY <1>3, <1>4, <1>6, ShowsStays
<1>9. ASSUME NEW i, full' # full
      PROVE  i \in pending' <=> i \in Chunks /\ Shows(n + 1, i)'
  <2>1. n + 1 \in DOMAIN full' /\ Len(full') = n + 1
    <3>1. m = n + 1
      BY <1>4, <1>6, <1>9
    <3>2. n + 1 \in 1..(n + 1)
      OBVIOUS
    <3>3. QED
      BY <3>1, <3>2
  <2>2. full'[n + 1].latest = source'[n + 1]
    BY <1>4, <2>1 DEF Windows
  <2>3. Last(full').latest = source'[n + 1]
    BY <2>1, <2>2 DEF Last
  <2>4. Shows(n + 1, i)' <=> source'[n + 1] # Err /\ Covers(file[i], source'[n + 1].frame)
    BY <1>3 DEF Shows, IsFrame, Covers, Timestamp
  <2>5. i \in CoveredNow <=> /\ i \in Chunks /\ source'[n + 1] # Err
                             /\ Covers(file[i], source'[n + 1].frame)
    BY <1>9, <2>3 DEF CoveredNow
  <2>6. QED
    BY <1>3, <2>4, <2>5
<1>10. full' = full => pending' = {}
  BY <1>3 DEF CoveredNow
<1>11. Unmet'
  <2>1. ASSUME NEW i \in pending'
        PROVE  full' # <<>> /\ Shows(m, i)'
    <3>1. full' # full /\ m = n + 1
      BY <1>4, <1>6, <1>10, <2>1
    <3>2. full' # <<>>
      BY <3>1
    <3>3. Shows(n + 1, i)'
      BY <1>9, <2>1, <3>1
    <3>4. Shows(m, i)'
      BY <3>1, <3>3
    <3>5. QED
      BY <3>2, <3>4
  <2>2. ASSUME NEW i \in Chunks, NEW j \in DOMAIN full', cache[i] = "Absent", Shows(j, i)'
        PROVE  j = m /\ i \in pending'
    <3>1. j \notin 1..n
      <4>1. SUFFICES ASSUME j \in 1..n PROVE FALSE
        OBVIOUS
      <4>2. Shows(j, i)
        BY <1>8, <2>2, <4>1
      <4>3. QED
        BY <1>3, <1>6, <2>2, <4>1, <4>2 DEF AlarmInv, Unmet
    <3>2. full' # full /\ m = n + 1
      BY <1>4, <1>6, <3>1
    <3>3. j = n + 1
      BY <3>1, <3>2
    <3>4. Shows(n + 1, i)'
      BY <2>2, <3>3
    <3>5. QED
      BY <1>9, <2>2, <3>2, <3>3, <3>4
  <2>3. Chunks' = Chunks /\ cache' = cache /\ m = Len(full')
    BY <1>3 DEF Chunks
  <2>4. /\ \A i \in pending' : full' # <<>> /\ Shows(m, i)'
        /\ \A i \in Chunks', j \in DOMAIN full' :
              cache'[i] = "Absent" /\ Shows(j, i)' => j = m /\ i \in pending'
    BY <2>1, <2>2, <2>3
  <2>5. QED
    BY <2>3, <2>4 DEF Unmet, Shows, IsFrame
<1>12. ASSUME NEW i \in Chunks, pc[i] # "idle"
       PROVE  at[i] \in 1..n /\ at[i] \in Nat \ {0}
  BY <1>2, <1>6, <1>12
<1>13. FirstMet'
  <2>1. ASSUME NEW i \in Chunks, pc[i] # "idle"
        PROVE  Shows(at[i], i)' /\ \A j \in 1..(at[i] - 1) : ~ Shows(j, i)'
    <3>1. Shows(at[i], i) /\ \A j \in 1..(at[i] - 1) : ~ Shows(j, i)
      BY <2>1 DEF AlarmInv, FirstMet
    <3>2. PICK a \in 1..n : a = at[i] /\ a = at'[i]
      BY <1>3, <1>12, <2>1
    <3>3. Shows(a, i) /\ \A j \in 1..(a - 1) : j \in 1..n /\ ~ Shows(j, i)
      BY <3>1, <3>2
    <3>4. Shows(a, i)' /\ \A j \in 1..(a - 1) : ~ Shows(j, i)'
      BY <1>8, <3>3
    <3>5. QED
      BY <1>3, <3>2, <3>4 DEF Shows, IsFrame
  <2>2. QED
    BY <1>3, <2>1 DEF FirstMet, Chunks
<1>14. Cause'
  <2>1. ASSUME NEW i \in Chunks, verdict[i] = "Unverified"
        PROVE  pc[i] # "idle" /\ SizeAndOffsetOK(file[i]) /\ (Differs(i)' \/ OtherKey(i))
    <3>1. pc[i] # "idle" /\ SizeAndOffsetOK(file[i]) /\ (Differs(i) \/ OtherKey(i))
      BY <2>1 DEF AlarmInv, Cause
    <3>2. source \in Seq(Delivering)
      BY <1>2 DEF FromSource
    <3>3. Differs(i) => Differs(i)'
      BY <1>3, <1>4, <1>7, <1>12, <3>1, <3>2, DiffersStays
    <3>4. QED
      BY <3>1, <3>3
  <2>2. QED
    BY <1>3, <2>1 DEF Cause, SizeAndOffsetOK, OtherKey, Chunks
<1>15. QED
  BY <1>1, <1>4, <1>5, <1>11, <1>13, <1>14 DEF AlarmInv

(* A report: a task is given the frame at hand, the first of its chunk.     *)
LEMMA ReportAlarmInv == AlarmInv /\ ReportSignature => AlarmInv'
<1> SUFFICES ASSUME AlarmInv, ReportSignature PROVE AlarmInv'
  OBVIOUS
<1> DEFINE k == Min(pending)
<1>1. SoundInv'
  BY ReportSoundInv DEF AlarmInv
<1>2. /\ TaskInv /\ FromSource /\ Windows /\ Numbered /\ Unmet /\ FirstMet /\ Cause
      /\ at \in [Chunks -> Nat] /\ pc \in [Chunks -> TaskState]
      /\ cache \in [Chunks -> CacheState]
      /\ \A i \in Chunks : cache[i] = "Absent" <=> pc[i] = "idle"
  BY DEF SoundInv, AlarmInv, GivenWindow, TaskInv, Typed, CacheMirrorsTasks
<1>3. /\ UNCHANGED <<offset, file, source, buf, full, verdict>>
      /\ pending # {} /\ pending' = pending \ {k}
      /\ IF cache[k] = "Absent"
           THEN /\ cache' = [cache EXCEPT ![k] = "Loading"]
                /\ pc' = [pc EXCEPT ![k] = "spawned"]
                /\ at' = [at EXCEPT ![k] = Len(full)]
           ELSE cache' = cache /\ pc' = pc /\ at' = at
  BY DEF ReportSignature, TaskWindow, IsMiss, delayVars
<1>4. k \in pending /\ k \in Chunks
  <2>1. pending \subseteq Chunks /\ file \in Seq(Chunk)
    BY <1>2 DEF TaskInv, Typed
  <2>2. pending \in SUBSET Nat
    BY <2>1 DEF Chunks
  <2>3. QED
    BY <1>3, <2>1, <2>2, MinIsLeast
<1> HIDE DEF k
<1>5. Windows' /\ Numbered'
  BY <1>2, <1>3 DEF Windows, Numbered, IsFrame, FramesSoFar
<1>6. \A j, i : Shows(j, i)' <=> Shows(j, i)
  BY <1>3 DEF Shows, IsFrame, Covers, Timestamp
<1>7. \A i \in Chunks : cache'[i] = "Absent" => cache[i] = "Absent" /\ i # k
  BY <1>2, <1>3, <1>4
<1>8. Unmet'
  <2>1. \A i \in pending' : full' # <<>> /\ Shows(Len(full), i)'
    BY <1>2, <1>3, <1>6 DEF Unmet
  <2>2. ASSUME NEW i \in Chunks, NEW j \in DOMAIN full, cache'[i] = "Absent", Shows(j, i)'
        PROVE  j = Len(full) /\ i \in pending'
    <3>1. cache[i] = "Absent" /\ Shows(j, i) /\ i # k
      BY <1>6, <1>7, <2>2
    <3>2. j = Len(full) /\ i \in pending
      BY <1>2, <3>1 DEF Unmet
    <3>3. QED
      BY <1>3, <3>1, <3>2
  <2>3. QED
    BY <1>3, <2>1, <2>2 DEF Unmet, Shows, IsFrame, Covers, Timestamp, Chunks
<1>9. ASSUME NEW i \in Chunks, pc'[i] # "idle"
      PROVE  \/ pc[i] # "idle" /\ at'[i] = at[i]
             \/ cache[i] = "Absent" /\ i = k /\ at'[i] = Len(full)
  BY <1>2, <1>3, <1>9
<1>10. FirstMet'
  <2>1. ASSUME NEW i \in Chunks, pc'[i] # "idle"
        PROVE  Shows(at'[i], i) /\ \A j \in 1..(at'[i] - 1) : ~ Shows(j, i)
    <3>1. CASE pc[i] # "idle" /\ at'[i] = at[i]
      BY <1>2, <3>1 DEF FirstMet
    <3>2. CASE cache[i] = "Absent" /\ i = k /\ at'[i] = Len(full)
      <4>1. Shows(Len(full), i)
        BY <1>2, <1>4, <3>2 DEF Unmet
      <4>2. PICK n \in Nat : n = Len(full) /\ DOMAIN full = 1..n
        BY <1>2, WindowsType
      <4>3. \A j \in 1..(n - 1) : j \in DOMAIN full /\ j # n
        BY <4>2
      <4>4. \A j \in 1..(Len(full) - 1) : ~ Shows(j, i)
        BY <1>2, <3>2, <4>2, <4>3 DEF Unmet
      <4>5. QED
        BY <3>2, <4>1, <4>4
    <3>3. QED
      BY <1>9, <2>1, <3>1, <3>2
  <2>2. QED
    BY <1>3, <2>1 DEF FirstMet, Shows, IsFrame, Covers, Timestamp, Chunks
<1>11. Cause'
  <2>1. ASSUME NEW i \in Chunks, verdict[i] = "Unverified"
        PROVE  /\ pc'[i] # "idle" /\ SizeAndOffsetOK(file[i])
               /\ Differs(i)' \/ OtherKey(i)
    <3>1. pc[i] # "idle" /\ SizeAndOffsetOK(file[i]) /\ (Differs(i) \/ OtherKey(i))
      BY <1>2, <2>1 DEF Cause
    <3>2. pc'[i] # "idle" /\ at'[i] = at[i]
      BY <1>2, <1>3, <1>4, <3>1
    <3>3. Differs(i)' <=> Differs(i)
      BY <1>3, <3>2 DEF Differs, Signed, StartIdx, EndIdx, EndFrame
    <3>4. QED
      BY <3>1, <3>2, <3>3
  <2>2. QED
    BY <1>3, <2>1 DEF Cause, SizeAndOffsetOK, OtherKey, Chunks
<1>12. QED
  BY <1>1, <1>5, <1>8, <1>10, <1>11 DEF AlarmInv

-----------------------------------------------------------------------------
(* No false alarm: judging.                                                 *)

(* Without an error among the items, all of them are collected.             *)
LEMMA FramesAmongAll ==
  ASSUME NEW T, NEW items \in Seq(T), \A k \in 1..Len(items) : items[k] # Err
  PROVE  FramesAmong(items) = items
<1> DEFINE L == Len(items)
           f == CHOOSE f : f = [n \in 0..L |-> Collect(items, f, n)]
<1>1. L \in Nat /\ DOMAIN items = 1..L /\ \A k \in 1..L : items[k] \in T
  OBVIOUS
<1>2. PICK g : Collects(items, L, g)
  BY <1>1, CollectsExists
<1>3. g = [n \in 0..L |-> Collect(items, g, n)]
  BY <1>2 DEF Collects
<1>4. f = [n \in 0..L |-> Collect(items, f, n)]
  BY <1>3
<1>5. FramesAmong(items) = f[L]
  BY DEF FramesAmong, Collect
<1>6. \A k \in 1..L : items[k] # Err
  OBVIOUS
<1> HIDE DEF f, L
<1>7. \A n \in 0..L : f[n] = Collect(items, f, n)
  BY <1>4
<1> DEFINE Prefix(n, s) == s \in Seq(T) /\ Len(s) = n /\ \A k \in 1..n : s[k] = items[k]
           Bad == { n \in Nat : n <= L /\ ~ Prefix(n, f[n]) }
<1>8. ASSUME Bad # {} PROVE FALSE
  <2>1. PICK m \in Bad : \A y \in Bad : m <= y
    <3>1. Bad \in SUBSET Nat
      OBVIOUS
    <3>2. QED
      BY <1>8, <3>1, MinIsLeast
  <2>2. m \in 0..L /\ f[m] = Collect(items, f, m) /\ ~ Prefix(m, f[m])
    BY <1>1, <1>7, <2>1
  <2>3. m # 0
    <3>1. Prefix(0, <<>>)
      OBVIOUS
    <3>2. m = 0 => f[m] = <<>>
      BY <2>2 DEF Collect
    <3>3. QED
      BY <2>2, <3>1, <3>2
  <2>4. m - 1 \in Nat /\ m - 1 <= L /\ m - 1 \notin Bad /\ m \in 1..L
    BY <1>1, <2>1, <2>2, <2>3
  <2>5. PICK s : s = f[m - 1] /\ Prefix(m - 1, s)
    BY <2>4
  <2>6. PICK x \in T : x = items[m] /\ x # Err
    BY <1>1, <1>6, <2>4
  <2>7. f[m] = Append(s, x)
    BY <2>2, <2>3, <2>5, <2>6 DEF Collect
  <2>8. /\ Append(s, x) \in Seq(T) /\ Len(Append(s, x)) = m
        /\ \A k \in 1..(m - 1) : Append(s, x)[k] = s[k]
        /\ Append(s, x)[m] = x
    BY <2>4, <2>5
  <2>9. \A k \in 1..m : Append(s, x)[k] = items[k]
    <3> SUFFICES ASSUME NEW k \in 1..m PROVE Append(s, x)[k] = items[k]
      OBVIOUS
    <3>1. CASE k = m
      BY <2>6, <2>8, <3>1
    <3>2. CASE k # m
      <4>1. k \in 1..(m - 1)
        BY <2>4, <3>2
      <4>2. QED
        BY <2>5, <2>8, <4>1
    <3>3. QED
      BY <3>1, <3>2
  <2>10. QED
    BY <2>2, <2>7, <2>8, <2>9
<1>9. L \notin Bad
  BY <1>8
<1>10. f[L] \in Seq(T) /\ Len(f[L]) = L /\ \A k \in 1..L : f[L][k] = items[k]
  BY <1>1, <1>9
<1>11. f[L] = items
  <2>1. DOMAIN f[L] = 1..L
    BY <1>10
  <2>2. QED
    BY <1>1, <1>10, <2>1, SeqEqual
<1>12. QED
  BY <1>5, <1>11

(* What is gathered is what was signed unless what arrived differs.         *)
LEMMA GatheredIsSigned ==
  ASSUME AlarmInv, NEW i \in Chunks, pc[i] # "idle", ~ BeyondWindow(i),
         SizeAndOffsetOK(file[i]), ~ Differs(i)
  PROVE  Gathered(i) = SignedFrames(file[i])
<1> DEFINE W == [latest : Delivering, future : Seq(Delivering)]
           Rec == [frame : Nat, intact : BOOLEAN]
<1>1. /\ FromSource /\ Windows /\ offset \in Nat /\ file[i] \in Chunk
      /\ at \in [Chunks -> Nat] /\ at[i] \in DOMAIN full
  BY EntryFields DEF AlarmInv, SoundInv, GivenWindow, TaskInv, Typed
<1>2. offset <= file[i].start /\ file[i].start <= file[i].stop
  <2>1. file[i].start \in Nat /\ file[i].stop \in Nat
    BY <1>1 DEF Chunk, Millis
  <2>2. MinChunk <= file[i].stop - file[i].start /\ offset <= file[i].start
    BY DEF SizeAndOffsetOK, LengthAllowed
  <2>3. QED
    BY <2>1, <2>2, TimeAssumption
<1>3. PICK a \in Nat : a = at[i] /\ a \in DOMAIN full /\ a >= 1
  <2>1. DOMAIN full = 1..Len(full) /\ Len(full) \in Nat
    BY <1>1, WindowsType
  <2>2. QED
    BY <1>1, <2>1
<1>4. PICK w \in W : w = full[a]
  <2>1. full \in Seq(W)
    BY <1>1 DEF FromSource
  <2> HIDE DEF W
  <2>2. QED
    BY <1>3, <2>1
<1>5. w.latest \in Delivering /\ w.future \in Seq(Delivering)
  OBVIOUS
<1> HIDE DEF W
<1>6. PICK p \in Nat : p = StartIdx(file[i])
  BY <1>1, <1>2, ChunkFrames
<1>7. PICK E \in Nat \ {0} :
        /\ E = EndFrame(file[i]) /\ E - 1 \in 0..Len(w.future)
        /\ SignedFrames(file[i]) =
             [ k \in 1..E |-> [frame |-> p + k - 1, intact |-> TRUE] ]
  <2>1. PICK q \in Nat : q = EndIdx(file[i])
    BY <1>1, <1>2, ChunkFrames
  <2>2. EndFrame(file[i]) = q - p
    BY <1>6, <2>1 DEF EndFrame
  <2>3. (q - p) - 1 \in 0..Len(w.future)
    BY <1>3, <1>4, <2>2 DEF BeyondWindow
  <2>4. q - p \in Nat \ {0} /\ EndFrame(file[i]) >= 1
    BY <2>2, <2>3
  <2>5. SignedFrames(file[i]) =
          [ k \in 1..EndFrame(file[i]) |-> [frame |-> StartIdx(file[i]) + k - 1, intact |-> TRUE] ]
    BY <1>1, <1>2, <2>4, SignedFramesAre
  <2>6. QED
    BY <1>6, <2>2, <2>3, <2>4, <2>5
<1>8. PICK n \in Nat : n = Len(source) /\ a <= n
  <2>1. /\ DOMAIN full = 1..Len(full) /\ Len(full) \in Nat
        /\ Len(source) \in Nat /\ Len(full) <= Len(source)
    BY <1>1, WindowsType
  <2>2. a <= Len(source)
    BY <1>3, <2>1
  <2>3. QED
    BY <2>1, <2>2
<1>9. \A e \in 1..E : a + e - 1 <= n =>
        source[a + e - 1] = [frame |-> p + e - 1, intact |-> TRUE]
  BY <1>3, <1>6, <1>7, <1>8 DEF Differs, Signed
<1>10. w.latest = [frame |-> p, intact |-> TRUE]
  <2>1. w.latest = source[a]
    BY <1>1, <1>3, <1>4 DEF Windows
  <2>2. 1 \in 1..E /\ a + 1 - 1 = a /\ p + 1 - 1 = p
    OBVIOUS
  <2>3. QED
    BY <1>8, <1>9, <2>1, <2>2
<1>11. PICK S : S = SubSeq(w.future, 1, E - 1)
  OBVIOUS
<1>12. /\ S \in Seq(Delivering) /\ Len(S) = E - 1 /\ DOMAIN S = 1..(E - 1)
       /\ \A e \in 1..(E - 1) : e \in DOMAIN w.future /\ S[e] = w.future[e]
  <2>1. PICK L \in Nat : L = Len(w.future) /\ DOMAIN w.future = 1..L
    BY <1>5
  <2>2. E - 1 \in Nat /\ E - 1 <= L
    BY <1>7, <2>1
  <2>3. \A e \in 1..(E - 1) : e \in DOMAIN w.future /\ w.future[e] \in Delivering
    BY <1>5, <2>1, <2>2
  <2>4. S \in Seq(Delivering) /\ Len(S) = E - 1 /\ \A e \in 1..(E - 1) : S[e] = w.future[e]
    <3>1. 1 \in Int /\ E - 1 \in Int /\ (1 <= E - 1 => 1 \in 1..L /\ E - 1 \in 1..L)
      BY <2>2
    <3>2. QED
      BY <1>5, <1>11, <2>1, <2>2, <2>3, <3>1, SubSeqProperties
  <2>5. QED
    BY <2>2, <2>3, <2>4
<1>13. \A e \in 1..(E - 1) : S[e] = [frame |-> p + e, intact |-> TRUE]
  <2> SUFFICES ASSUME NEW e \in 1..(E - 1) PROVE S[e] = [frame |-> p + e, intact |-> TRUE]
    OBVIOUS
  <2>1. a + e <= n /\ w.future[e] = source[a + e]
    BY <1>1, <1>3, <1>4, <1>8, <1>12 DEF Windows
  <2>2. e + 1 \in 1..E /\ a + (e + 1) - 1 = a + e /\ p + (e + 1) - 1 = p + e
    OBVIOUS
  <2>3. QED
    BY <1>9, <1>12, <2>1, <2>2
<1>14. FramesAmong(S) = S
  <2>1. ASSUME NEW e \in 1..(E - 1) PROVE S[e] \in Rec
    <3>1. PICK f \in Nat : f = p + e
      OBVIOUS
    <3>2. S[e] = [frame |-> f, intact |-> TRUE]
      BY <1>13, <3>1
    <3>3. QED
      BY <3>2
  <2>2. Err \notin Rec
    BY VerifierAssumption
  <2>3. \A e \in 1..Len(S) : S[e] # Err
    BY <1>12, <2>1, <2>2
  <2>4. QED
    BY <1>12, <2>3, FramesAmongAll
<1>15. Gathered(i) = <<w.latest>> \o S
  BY <1>3, <1>4, <1>7, <1>11, <1>14 DEF Gathered
<1>16. /\ DOMAIN (<<w.latest>> \o S) = 1..E /\ <<w.latest>> \o S \in Seq(Delivering)
       /\ (<<w.latest>> \o S)[1] = w.latest
       /\ \A e \in 1..(E - 1) : (<<w.latest>> \o S)[e + 1] = S[e]
  BY <1>5, <1>12
<1>17. \A k \in 1..E : (<<w.latest>> \o S)[k] = [frame |-> p + k - 1, intact |-> TRUE]
  <2> SUFFICES ASSUME NEW k \in 1..E
               PROVE  (<<w.latest>> \o S)[k] = [frame |-> p + k - 1, intact |-> TRUE]
    OBVIOUS
  <2>1. CASE k = 1
    <3>1. p + k - 1 = p
      BY <2>1
    <3>2. QED
      BY <1>10, <1>16, <2>1, <3>1
  <2>2. CASE k # 1
    <3>1. PICK e \in 1..(E - 1) : k = e + 1
      <4>1. k - 1 \in 1..(E - 1) /\ k = (k - 1) + 1
        BY <2>2
      <4>2. QED
        BY <4>1
    <3>2. p + k - 1 = p + e
      BY <3>1
    <3>3. QED
      BY <1>13, <1>16, <3>1, <3>2
  <2>3. QED
    BY <2>1, <2>2
<1>18. <<w.latest>> \o S = [ k \in 1..E |-> [frame |-> p + k - 1, intact |-> TRUE] ]
  <2>1. PICK G : G = <<w.latest>> \o S
    OBVIOUS
  <2>2. G \in Seq(Delivering) /\ DOMAIN G = 1..E
    BY <1>16, <2>1
  <2>3. G = [ k \in 1..E |-> G[k] ]
    BY <2>2
  <2>4. \A k \in 1..E : G[k] = [frame |-> p + k - 1, intact |-> TRUE]
    BY <1>17, <2>1
  <2>5. [ k \in 1..E |-> G[k] ] = [ k \in 1..E |-> [frame |-> p + k - 1, intact |-> TRUE] ]
    BY <2>4, Zenon
  <2>6. QED
    BY <2>1, <2>3, <2>5
<1>19. QED
  BY <1>7, <1>15, <1>18

(* A chunk found Unverified has a cause.                                    *)
LEMMA JudgeUnverified ==
  ASSUME AlarmInv, NEW i \in Chunks, pc[i] # "idle",
         NEW subject \in Subjects, Judge(i, subject),
         verdict'[i] = "Unverified", verdict[i] # "Unverified",
         subject.state = "Valid" =>
             \E d \in Range(file) :
                 d.pres = "good" /\ d.id = file[i].id /\ d.key = subject.key
  PROVE  SizeAndOffsetOK(file[i]) /\ (Differs(i) \/ OtherKey(i))
<1>1. /\ ~ BeyondWindow(i) /\ SizeAndOffsetOK(file[i]) /\ subject.state = "Valid"
      /\ ~ (Gathered(i) = SignedFrames(file[i]) /\ subject.key = file[i].key)
  BY JudgeGives DEF AlarmInv
<1>2. CASE subject.key # file[i].key
  <2>1. PICK d \in Range(file) : d.pres = "good" /\ d.id = file[i].id /\ d.key = subject.key
    BY <1>1
  <2>2. d.pres # "ref"
    BY <2>1
  <2>3. QED
    BY <1>1, <1>2, <2>1, <2>2 DEF OtherKey
<1>3. CASE Gathered(i) # SignedFrames(file[i])
  BY <1>1, <1>3, GatheredIsSigned
<1>4. QED
  BY <1>1, <1>2, <1>3

(* A step that moves neither the stream nor what tasks were given.          *)
LEMMA StillAlarmInv ==
  ASSUME AlarmInv, SoundInv', UNCHANGED <<offset, file, source, buf, full, pending, at>>,
         \A i \in Chunks : pc[i] # "idle" <=> pc'[i] # "idle",
         \A i \in Chunks : verdict'[i] = "Unverified" /\ verdict[i] # "Unverified" =>
             pc[i] # "idle" /\ SizeAndOffsetOK(file[i]) /\ (Differs(i) \/ OtherKey(i))
  PROVE  AlarmInv'
<1>1. Windows /\ Numbered /\ Unmet /\ FirstMet /\ Cause
  BY DEF AlarmInv
<1>2. Windows' /\ Numbered'
  BY <1>1 DEF Windows, Numbered, IsFrame, FramesSoFar
<1>3. \A j, i : Shows(j, i)' <=> Shows(j, i)
  BY DEF Shows, IsFrame, Covers, Timestamp
<1>4. \A i \in Chunks : cache'[i] = "Absent" => cache[i] = "Absent"
  BY DEF AlarmInv, SoundInv, TaskInv, CacheMirrorsTasks, Chunks
<1>5. Unmet'
  <2>1. /\ \A i \in pending : full # <<>> /\ Shows(Len(full), i)'
        /\ \A i \in Chunks, j \in DOMAIN full :
              cache'[i] = "Absent" /\ Shows(j, i)' => j = Len(full) /\ i \in pending
    BY <1>1, <1>3, <1>4 DEF Unmet
  <2>2. QED
    BY <2>1 DEF Unmet, Shows, IsFrame, Chunks
<1>6. FirstMet'
  <2>1. \A i \in Chunks : pc'[i] # "idle" =>
            Shows(at[i], i)' /\ \A j \in 1..(at[i] - 1) : ~ Shows(j, i)'
    BY <1>1, <1>3 DEF FirstMet
  <2>2. QED
    BY <2>1 DEF FirstMet, Shows, IsFrame, Chunks
<1>7. Cause'
  <2>1. \A i \in Chunks : verdict'[i] = "Unverified" =>
            pc'[i] # "idle" /\ SizeAndOffsetOK(file[i]) /\ (Differs(i) \/ OtherKey(i))
    BY <1>1 DEF Cause
  <2>2. \A i : (Differs(i)' <=> Differs(i)) /\ (OtherKey(i)' <=> OtherKey(i))
    BY DEF Differs, Signed, StartIdx, EndIdx, EndFrame, OtherKey
  <2>3. \A c : SizeAndOffsetOK(c)' <=> SizeAndOffsetOK(c)
    BY DEF SizeAndOffsetOK
  <2>4. QED
    BY <2>1, <2>2, <2>3 DEF Cause, SizeAndOffsetOK, Chunks
<1>8. QED
  BY <1>2, <1>5, <1>6, <1>7 DEF AlarmInv

(* A step at the lock that judges with a subject of the file.               *)
LEMMA JudgeAlarmInv ==
  ASSUME AlarmInv, SoundInv', NEW i \in Chunks, pc[i] = "queued",
         NEW subject \in Subjects, Judge(i, subject),
         UNCHANGED <<offset, file, delayVars, pending, at>>,
         subject.state = "Valid" =>
             \E d \in Range(file) :
                 d.pres = "good" /\ d.id = file[i].id /\ d.key = subject.key
  PROVE  AlarmInv'
<1>1. /\ pc \in [Chunks -> TaskState] /\ verdict \in [Chunks -> Verdicts \cup {"Absent"}]
  BY DEF AlarmInv, SoundInv, TaskInv, Typed
<1>2. /\ pc'[i] # "idle" /\ pc[i] # "idle"
      /\ \A j \in Chunks : j # i => pc'[j] = pc[j] /\ verdict'[j] = verdict[j]
  BY <1>1 DEF Judge
<1>3. verdict'[i] = "Unverified" /\ verdict[i] # "Unverified" =>
          SizeAndOffsetOK(file[i]) /\ (Differs(i) \/ OtherKey(i))
  BY <1>2, JudgeUnverified
<1>4. \A j \in Chunks : verdict'[j] = "Unverified" /\ verdict[j] # "Unverified" =>
          pc[j] # "idle" /\ SizeAndOffsetOK(file[j]) /\ (Differs(j) \/ OtherKey(j))
  BY <1>2, <1>3
<1>5. UNCHANGED <<offset, file, source, buf, full, pending, at>>
  BY DEF delayVars
<1>6. QED
  BY <1>2, <1>4, <1>5, StillAlarmInv

(* A reference is judged by the subject on record.                          *)
LEMMA NormaliseRefAlarmInv ==
  ASSUME AlarmInv, NEW i \in Chunks, NormaliseRef(i)
  PROVE  AlarmInv'
<1>1. SoundInv'
  BY NormaliseRefSoundInv DEF AlarmInv
<1>2. file[i].id \in Id /\ credentials \in [Id -> Subjects]
  BY EntryFields DEF AlarmInv, SoundInv, TaskInv, Typed
<1>3. PICK s \in Subjects : s = credentials[file[i].id]
  BY <1>2
<1>4. pc[i] = "queued" /\ Judge(i, s) /\ UNCHANGED <<offset, file, delayVars, pending, at>>
  BY <1>3 DEF NormaliseRef, HoldsCredentials
<1>5. s.state = "Valid" =>
        \E d \in Range(file) : d.pres = "good" /\ d.id = file[i].id /\ d.key = s.key
  BY <1>2, <1>3 DEF AlarmInv, SoundInv, ValidFromFile
<1>6. QED
  BY <1>1, <1>4, <1>5, JudgeAlarmInv

(* A definition is judged by its own subject.                               *)
LEMMA NormaliseDefAlarmInv ==
  ASSUME AlarmInv, NEW i \in Chunks, NormaliseDef(i)
  PROVE  AlarmInv'
<1>1. SoundInv'
  BY NormaliseDefSoundInv DEF AlarmInv
<1>2. PICK s \in Outcomes(file[i]) : Judge(i, s)
  BY DEF NormaliseDef
<1>3. s \in Subjects
  BY OutcomesAreSubjects DEF AlarmInv, SoundInv, TaskInv, Typed
<1>4. pc[i] = "queued" /\ UNCHANGED <<offset, file, delayVars, pending, at>>
  BY DEF NormaliseDef, HoldsCredentials
<1>5. s.state = "Valid" =>
        \E d \in Range(file) : d.pres = "good" /\ d.id = file[i].id /\ d.key = s.key
  <2>1. file[i] \in Range(file)
    BY DEF Chunks, Range
  <2>2. QED
    BY <2>1, ValidOutcome
<1>6. QED
  BY <1>1, <1>2, <1>3, <1>4, <1>5, JudgeAlarmInv

(* The other steps judge nothing.                                           *)
LEMMA OtherAlarmInv ==
  ASSUME AlarmInv, \/ \E i \in Chunks : TaskStart(i) \/ NormalisePanics(i) \/ Publish(i)
                   \/ PeekFails
                   \/ UNCHANGED vars
  PROVE  AlarmInv'
<1>1. SoundInv'
  BY OtherTaskSoundInv, StutterSoundInv DEF AlarmInv
<1>2. pc \in [Chunks -> TaskState]
  BY DEF AlarmInv, SoundInv, TaskInv, Typed
<1>3. /\ UNCHANGED <<offset, file, source, buf, full, pending, at, verdict>>
      /\ \A i \in Chunks : pc[i] # "idle" <=> pc'[i] # "idle"
  <2>1. CASE \E i \in Chunks : TaskStart(i) \/ NormalisePanics(i) \/ Publish(i)
    <3>1. PICK i \in Chunks : TaskStart(i) \/ NormalisePanics(i) \/ Publish(i)
      BY <2>1
    <3>2. /\ UNCHANGED <<offset, file, source, buf, full, pending, at, verdict>>
          /\ \E p \in {"panicked", "queued", "done"} : pc' = [pc EXCEPT ![i] = p]
          /\ pc[i] # "idle"
      BY <3>1 DEF TaskStart, NormalisePanics, Publish, HoldsCredentials, delayVars
    <3>3. QED
      BY <1>2, <3>2
  <2>2. CASE PeekFails \/ UNCHANGED vars
    BY <2>2 DEF PeekFails, vars, delayVars, taskVars
  <2>3. QED
    BY <2>1, <2>2
<1>4. QED
  BY <1>1, <1>3, StillAlarmInv

-----------------------------------------------------------------------------
(* The invariant holds in every reachable state.                            *)
THEOREM AlarmInvariant == Spec => []AlarmInv
<1>1. AlarmInv /\ [Next]_vars => AlarmInv'
  BY NextFrameAlarmInv, ReportAlarmInv, NormaliseRefAlarmInv, NormaliseDefAlarmInv,
     OtherAlarmInv
     DEF Next, Task
<1>2. QED
  BY <1>1, InitAlarmInv, PTL DEF Spec

(* A chunk delivered whole was delivered from where it was first met.       *)
LEMMA DeliveredFromFirst ==
  ASSUME AlarmInv, NEW i \in Chunks, pc[i] # "idle", SizeAndOffsetOK(file[i]),
         Delivered(file[i])
  PROVE  ~ Differs(i)
<1> SUFFICES ASSUME Differs(i) PROVE FALSE
  OBVIOUS
<1> DEFINE c == file[i]
           Rec == [frame : Nat, intact : BOOLEAN]
<1>1. /\ FromSource /\ Windows /\ Numbered /\ FirstMet /\ offset \in Nat /\ c \in Chunk
      /\ at \in [Chunks -> Nat] /\ at[i] \in DOMAIN full
  BY EntryFields DEF AlarmInv, SoundInv, GivenWindow, TaskInv, Typed
<1>2. offset <= c.start /\ c.start <= c.stop
  <2>1. c.start \in Nat /\ c.stop \in Nat
    BY <1>1 DEF Chunk, Millis
  <2>2. MinChunk <= c.stop - c.start /\ offset <= c.start
    BY DEF SizeAndOffsetOK, LengthAllowed
  <2>3. QED
    BY <2>1, <2>2, TimeAssumption
<1>3. PICK p \in Nat : p = StartIdx(c)
  BY <1>1, <1>2, ChunkFrames
<1>4. PICK q \in Nat : q = EndIdx(c)
  BY <1>1, <1>2, ChunkFrames
<1>5. PICK E \in Nat \ {0} :
        /\ E = EndFrame(c) /\ E = q - p /\ Cardinality(FramesOf(c)) = E
        /\ SignedFrames(c) = [ k \in 1..E |-> [frame |-> p + k - 1, intact |-> TRUE] ]
  <2>1. q - p = EndFrame(c)
    BY <1>3, <1>4 DEF EndFrame
  <2>2. q - p \in Nat \ {0}
    <3>1. PICK e \in 1..(q - p) : TRUE
      BY <2>1 DEF Differs
    <3>2. QED
      BY <3>1
  <2>3. EndFrame(c) >= 1
    BY <2>1, <2>2
  <2>4. /\ Cardinality(FramesOf(c)) = EndFrame(c)
        /\ SignedFrames(c) = [ k \in 1..EndFrame(c) |->
                                 [frame |-> StartIdx(c) + k - 1, intact |-> TRUE] ]
    BY <1>1, <1>2, <2>3, SignedFramesAre
  <2>5. QED
    BY <1>3, <2>1, <2>2, <2>4
<1>6. PICK n \in Nat : n = Len(source) /\ DOMAIN source = 1..n
  BY <1>1, WindowsType
<1>7. PICK k \in 0..n :
        k + E <= n /\ SubSeq(source, k + 1, k + E) = SignedFrames(c)
  <2>1. \E k \in 0..Len(source) :
          k + E <= Len(source) /\ SubSeq(source, k + 1, k + E) = SignedFrames(c)
    BY <1>5 DEF Delivered
  <2>2. QED
    BY <1>6, <2>1
<1>8. \A e \in 1..E : k + e \in 1..n /\ source[k + e] = [frame |-> p + e - 1, intact |-> TRUE]
  <2> SUFFICES ASSUME NEW e \in 1..E
               PROVE  k + e \in 1..n /\ source[k + e] = [frame |-> p + e - 1, intact |-> TRUE]
    OBVIOUS
  <2>1. PICK x \in Int : x = k + 1
    OBVIOUS
  <2>2. PICK y \in Int : y = k + E
    OBVIOUS
  <2>3. \A j \in x..y : source[j] \in Delivering
    <3>1. k + E <= n
      BY <1>7
    <3>2. \A j \in x..y : j \in 1..n
      BY <2>1, <2>2, <3>1
    <3>3. QED
      BY <1>1, <1>6, <3>2 DEF FromSource
  <2>4. \A j \in 1..(y - x + 1) : SubSeq(source, x, y)[j] = source[x + j - 1]
    BY <2>3, SubSeqProperties
  <2>5. e \in 1..(y - x + 1) /\ x + e - 1 = k + e
    BY <2>1, <2>2
  <2>6. SubSeq(source, x, y)[e] = source[k + e]
    BY <2>4, <2>5
  <2>7. SubSeq(source, x, y)[e] = [frame |-> p + e - 1, intact |-> TRUE]
    BY <1>5, <1>7, <2>1, <2>2
  <2>8. k + e \in 1..n
    <3>1. k + E <= n
      BY <1>7
    <3>2. QED
      BY <3>1
  <2>9. QED
    BY <2>6, <2>7, <2>8
<1>9. /\ k + 1 \in 1..n /\ IsFrame(k + 1) /\ source[k + 1].frame = p
  <2>1. 1 \in 1..E /\ p + 1 - 1 = p
    OBVIOUS
  <2>2. k + 1 \in 1..n /\ source[k + 1] = [frame |-> p, intact |-> TRUE]
    BY <1>8, <2>1
  <2>3. source[k + 1] \in Rec
    BY <2>2
  <2>4. source[k + 1] # Err
    BY <2>3, VerifierAssumption
  <2>5. source[k + 1].frame = p
    BY <2>2
  <2>6. QED
    BY <2>2, <2>4, <2>5 DEF IsFrame
<1>10. Shows(k + 1, i)
  <2>1. p \in p..(q - 1)
    BY <1>5
  <2>2. Covers(c, p)
    BY <1>1, <1>2, <1>3, <1>4, <2>1, ChunkFrames
  <2>3. QED
    BY <1>9, <2>2 DEF Shows
<1>11. PICK a \in 1..n : a = at[i]
  <2>1. /\ Len(full) \in Nat /\ DOMAIN full = 1..Len(full) /\ Len(full) <= n
    BY <1>1, <1>6, WindowsType
  <2>2. at[i] \in 1..n
    BY <1>1, <2>1
  <2>3. QED
    BY <2>2
<1>12. Shows(a, i) /\ \A j \in 1..(a - 1) : ~ Shows(j, i)
  BY <1>1, <1>11 DEF FirstMet
<1>13. a <= k + 1
  <2>1. k + 1 \notin 1..(a - 1)
    BY <1>10, <1>12
  <2>2. QED
    BY <1>11, <2>1
<1>14. ~ (a < k + 1)
  <2>1. SUFFICES ASSUME a < k + 1 PROVE FALSE
    OBVIOUS
  <2>2. IsFrame(a) /\ Covers(c, source[a].frame)
    BY <1>12 DEF Shows
  <2>3. source[a].frame < p
    BY <1>1, <1>6, <1>9, <1>11, <2>1, <2>2 DEF Numbered
  <2>4. source[a].frame \in Nat
    BY <1>1, <1>6, <1>11, <2>2 DEF Numbered
  <2>5. source[a].frame \in p..(q - 1)
    BY <1>1, <1>2, <1>3, <1>4, <2>2, <2>4, ChunkFrames
  <2>6. QED
    BY <2>3, <2>4, <2>5
<1>15. a = k + 1
  BY <1>11, <1>13, <1>14
<1>16. \A e \in 1..E : source[a + e - 1] = [frame |-> p + e - 1, intact |-> TRUE]
  <2> SUFFICES ASSUME NEW e \in 1..E
               PROVE  source[a + e - 1] = [frame |-> p + e - 1, intact |-> TRUE]
    OBVIOUS
  <2>1. a + e - 1 = k + e
    BY <1>15
  <2>2. QED
    BY <1>8, <2>1
<1>17. QED
  BY <1>3, <1>5, <1>11, <1>16 DEF Differs, Signed

(* A chunk delivered whole and untouched is never found Unverified when     *)
(* every definition of its id carries its signer's key: the frame at which  *)
(* the chunk is met is its first one, and the window of that frame holds    *)
(* what the signer signed (manager.rs, verify_sig and with_frames).         *)
THEOREM NoAlarmIsFalse == Spec => []NoFalseAlarm
<1>1. AlarmInv => NoFalseAlarm
  <2> SUFFICES ASSUME AlarmInv, NEW i \in Chunks, verdict[i] = "Unverified", ~ OtherKey(i)
               PROVE  ~ Delivered(file[i])
    BY DEF NoFalseAlarm, OtherKey
  <2>1. pc[i] # "idle" /\ SizeAndOffsetOK(file[i]) /\ Differs(i)
    BY DEF AlarmInv, Cause
  <2>2. QED
    BY <2>1, DeliveredFromFirst
<1>2. QED
  BY <1>1, AlarmInvariant, PTL

-----------------------------------------------------------------------------
(* Types.                                                                   *)

(* The parameters of a behaviour stay what they were, and a task was given  *)
(* a window that had come out.                                              *)
Parameters ==
    /\ offset \in Offsets /\ file \in Files /\ failed \in BOOLEAN
    /\ \A i \in Chunks : pc[i] = "idle" => at[i] = 0

(* The types of the state hold in every reachable state.                    *)
THEOREM VerifierTypes == Spec => []TypeOK
<1>1. Init => Parameters
  BY DEF Init, Parameters
<1>2. SoundInv /\ Parameters /\ [Next]_vars => Parameters'
  <2> SUFFICES ASSUME SoundInv, Parameters, [Next]_vars PROVE Parameters'
    OBVIOUS
  <2>1. pc \in [Chunks -> TaskState] /\ at \in [Chunks -> Nat]
    BY DEF SoundInv, TaskInv, Typed, GivenWindow
  <2>2. UNCHANGED <<offset, file>> /\ (failed' = failed \/ failed' = TRUE)
    BY DEF Next, PeekFails, NextFrame, ReportSignature, Task, TaskStart, NormaliseRef,
           NormaliseDef, NormalisePanics, Publish, vars
  <2>3. \A i \in Chunks : pc'[i] = "idle" => pc[i] = "idle" /\ at'[i] = at[i]
    <3>1. CASE PeekFails \/ NextFrame \/ UNCHANGED vars
      BY <3>1 DEF PeekFails, NextFrame, vars, taskVars
    <3>2. CASE ReportSignature
      <4>1. \/ at' = at /\ pc' = pc
            \/ \E k : at' = [at EXCEPT ![k] = Len(full)] /\ pc' = [pc EXCEPT ![k] = "spawned"]
        BY <3>2 DEF ReportSignature, TaskWindow
      <4>2. QED
        BY <2>1, <4>1
    <3>3. ASSUME NEW k \in Chunks, Task(k)
          PROVE  \A i \in Chunks : pc'[i] = "idle" => pc[i] = "idle" /\ at'[i] = at[i]
      <4>1. at' = at /\ \E p \in TaskState \ {"idle"} : pc' = [pc EXCEPT ![k] = p]
        BY <3>3 DEF Task, TaskStart, NormaliseRef, NormaliseDef, NormalisePanics, Publish,
                    Judge, TaskState
      <4>2. QED
        BY <2>1, <4>1
    <3>4. QED
      BY <3>1, <3>2, <3>3 DEF Next
  <2>4. QED
    BY <2>2, <2>3 DEF Parameters, Chunks
<1>3. AlarmInv /\ Parameters => TypeOK
  <2> SUFFICES ASSUME AlarmInv, Parameters PROVE TypeOK
    OBVIOUS
  <2>1. Typed /\ at \in [Chunks -> Nat] /\ \A i \in Chunks : pc[i] # "idle" => at[i] \in DOMAIN full
    BY DEF AlarmInv, SoundInv, TaskInv, GivenWindow
  <2>2. Len(full) \in Nat /\ DOMAIN full = 1..Len(full)
    BY WindowsType DEF AlarmInv, SoundInv
  <2>3. \A i \in Chunks : at[i] \in 0..Len(full)
    BY <2>1, <2>2 DEF Parameters
  <2>4. at \in [Chunks -> 0..Len(full)]
    BY <2>1, <2>3
  <2>5. QED
    BY <2>1, <2>4 DEF TypeOK, Typed, Parameters, CacheState, TaskState
<1>4. AlarmInv => SoundInv
  BY DEF AlarmInv
<1>5. QED
  BY <1>1, <1>2, <1>3, <1>4, AlarmInvariant, PTL DEF Spec
=============================================================================
