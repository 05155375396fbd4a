------------------------------ MODULE Verifier ------------------------------
(***************************************************************************)
(* Verification of a video against its signature file:                     *)
(* SignPipeline::verify (pipeline/sign_pipeline.rs), the verification half *)
(* of manager.rs, SignatureState::from_signer (verify.rs) and              *)
(* CredentialStore::normalise (utils/credential.rs).                       *)
(*                                                                         *)
(* One task shows the video: it polls the DelayedStream for the next frame *)
(* and its future, and reports for every signature covering the frame what *)
(* the cache says.  A signature met for the first time is cached as        *)
(* Loading and verified by a task of its own, which queues for the         *)
(* credential store, may wait there for the DID resolver, and caches its   *)
(* verdict.  The tasks run concurrently with the video and each other.     *)
(***************************************************************************)
EXTENDS FrameTime, Sequences, FiniteSets, FiniteSetsExt, SequencesExt

CONSTANTS Rate,        \* the frame rate of the video
          Offsets,     \* the start offsets to try
          Files,       \* the signature files to try: sequences of chunks
          Id, Key,     \* presentation ids and the keys of signers
          Err,         \* the item of a GStreamer error
          VideoLen,    \* bound: frames of the video
          MaxFaults    \* bound: errors and replaced frames among the items

(* A presentation carried by a definition, and what validate_pres makes of  *)
(* it when all DIDs resolve: a subject, an error, or a panic when one of    *)
(* its credentials does not validate (credential.rs:279).                   *)
Presentation == {"good", "forged", "bad_credential"}

(* A SignFile keeps its intervals in milliseconds.                          *)
Millis == { t \in Nat : t % Tick = 0 }

Chunk == [ start : Millis, stop : Millis, id : Id, key : Key,
           pres : Presentation \cup {"ref"}, fits : BOOLEAN ]

ASSUME VerifierAssumption ==
    /\ Rate.frames \in Nat \ {0} /\ Rate.seconds \in Nat \ {0}
    /\ Offsets \subseteq Nat
    /\ Files \subseteq Seq(Chunk)
    /\ Err \notin [frame : Nat, intact : BOOLEAN]
    /\ VideoLen \in Nat /\ MaxFaults \in Nat

VARIABLES
    offset,          \* PipeState.offset
    file,            \* SigVideoContext.signfile
    failed,          \* verify has returned an error instead of a stream
    source, ended, buf, full, done,  \* the DelayedStream
    pending,         \* the chunks still to report for the frame at hand
    cache,           \* SigVideoContext.cache
    seen,            \* the last state reported for each chunk (history)
    pc,              \* the verification task of each chunk
    at,              \* which frame (index in full) that task was given
    verdict,         \* what verify_sig returned to that task
    credentials,     \* CredentialStore.map
    credQueue        \* the tasks at the credentials lock, its holder first

delayVars == <<source, ended, buf, full, done>>
taskVars  == <<cache, pc, at, verdict, credentials, credQueue>>
vars == <<offset, file, failed, delayVars, pending, seen, taskVars>>

FrameItem == [frame : 0..(VideoLen - 1), intact : BOOLEAN]
Item == FrameItem \cup {Err}

Delay == INSTANCE DelayedStream
            WITH BufferLen <- Capacity(Rate), MaxItems <- VideoLen + MaxFaults

Chunks == DOMAIN file

Verdicts == { "Verified", "Unverified", "Unresolved", "InvalidJwt", "UnknownKey",
              "OutOfRange", "InvalidChunkSize", "InvalidCrop" }

Settled(state) == state \in Verdicts

Subjects == [state : {"Valid"}, key : Key] \cup [state : {"Invalid", "ResolverFailed", "Undefined"}]
Undefined == [state |-> "Undefined"]

-----------------------------------------------------------------------------
(* The frames and the chunks that cover them.                              *)

(* Frame n, counted from the first one after the offset.                    *)
Timestamp(n) == offset + Pts(Rate, n)

(* get_signatures_at: whole milliseconds, a half-open interval.             *)
Covers(c, n) == c.start <= FloorMillis(Timestamp(n)) /\ FloorMillis(Timestamp(n)) < c.stop

(* What the signer of the chunk signed: the frames presented within it.     *)
FramesOf(c) ==
    { n \in 0..FramesCeil(Rate, c.stop) :
        LET t == offset * Rate.frames + n * SecondsOf(Rate)
        IN  c.start * Rate.frames <= t /\ t < c.stop * Rate.frames }

SignedFrames(c) == [ k \in 1..Cardinality(FramesOf(c)) |->
                       [frame |-> Min(FramesOf(c)) + k - 1, intact |-> TRUE] ]

(* verify_sig: start_idx, end_idx, and end_frame.                           *)
StartIdx(c) == FramesCeil(Rate, c.start - offset)
EndIdx(c)   == FramesCeil(Rate, c.stop - offset)

(* Mutated form of EndFrame: the end is rounded down.                       *)
EndFrameFloored(c) == (((c.stop - offset) * Rate.frames) \div SecondsOf(Rate)) - StartIdx(c)

EndFrame(c) == EndIdx(c) - StartIdx(c)

-----------------------------------------------------------------------------
(* The task that shows the video.                                          *)

Init ==
    /\ offset \in Offsets
    /\ file \in Files
    /\ failed = FALSE
    /\ Delay!Init
    /\ pending = {}
    /\ cache = [i \in Chunks |-> "Absent"]
    /\ seen = [i \in Chunks |-> "Absent"]
    /\ pc = [i \in Chunks |-> "idle"]
    /\ at = [i \in Chunks |-> 0]
    /\ verdict = [i \in Chunks |-> "Absent"]
    /\ credentials = [id \in Id |-> Undefined]
    /\ credQueue = <<>>

FramesSoFar == Cardinality({ k \in DOMAIN source : source[k] # Err })
Faults == Cardinality({ k \in DOMAIN source : source[k] = Err \/ ~ source[k].intact })

(* What FrameIter may yield next: a frame of the signed video, one that is  *)
(* not, or an error, which takes no frame with it.                          *)
NextItems ==
    { it \in [frame : {FramesSoFar}, intact : BOOLEAN] :
        FramesSoFar < VideoLen /\ (it.intact \/ Faults < MaxFaults) }
    \cup { it \in {Err} : source # <<>> /\ Faults < MaxFaults }

(* verify peeks at the first item to learn the frame rate, and returns its  *)
(* error if it is one.                                                      *)
PeekFails ==
    /\ ~ failed /\ ~ ended
    /\ source = <<>>
    /\ MaxFaults > 0
    /\ failed' = TRUE
    /\ UNCHANGED <<offset, file, delayVars, pending, seen, taskVars>>

(* The chunks to report once the stream has answered: those that cover the  *)
(* frame which has come out.  None for a Partial, which verify filters out, *)
(* and none for an error, which goes to the viewer as it is.                *)
CoveredNow ==
    IF full' = full \/ Last(full').latest = Err
      THEN {}
      ELSE { i \in Chunks : Covers(file[i], Last(full').latest.frame) }

(* The viewer polls: the next frame, an error, or a few more items buffered.*)
NextFrame ==
    /\ ~ failed /\ ~ done
    /\ pending = {}
    /\ (\E it \in NextItems : Delay!PollItem(it)) \/ Delay!PollEnd
    /\ pending' = CoveredNow
    /\ UNCHANGED <<offset, file, failed, seen, taskVars>>

(* Mutated form of IsMiss: only Loading counts as a hit.                    *)
IsMissUnlessLoading(i) == cache[i] # "Loading"

(* Mutated form of IsMiss: Loading counts as a miss.                        *)
IsMissWhenLoading(i) == cache[i] \in {"Absent", "Loading"}

IsMiss(i) == cache[i] = "Absent"

(* Mutated form of TaskWindow: the next frame.                              *)
TaskWindowNext == Len(full) + 1

(* The task of a chunk works on the frame, and its future, at which the     *)
(* chunk was first met.                                                     *)
TaskWindow == Len(full)

(* Mutated form of ReportSignature: it waits for the task of a chunk that   *)
(* is already Loading.                                                      *)
ReportSignatureWaits ==
    /\ pending # {}
    /\ LET i == Min(pending)
       IN  /\ cache[i] # "Loading"
           /\ pending' = pending \ {i}
           /\ IF IsMiss(i)
                THEN /\ cache' = [cache EXCEPT ![i] = "Loading"]
                     /\ pc' = [pc EXCEPT ![i] = "spawned"]
                     /\ at' = [at EXCEPT ![i] = TaskWindow]
                ELSE UNCHANGED <<cache, pc, at>>
           /\ seen' = [seen EXCEPT ![i] = cache'[i]]
    /\ UNCHANGED <<offset, file, failed, delayVars, verdict, credentials, credQueue>>

(* sigs_iter, for the next chunk of the frame, under the lock of the cache. *)
ReportSignature ==
    /\ pending # {}
    /\ LET i == Min(pending)
       IN  /\ pending' = pending \ {i}
           /\ IF IsMiss(i)
                THEN /\ cache' = [cache EXCEPT ![i] = "Loading"]
                     /\ pc' = [pc EXCEPT ![i] = "spawned"]
                     /\ at' = [at EXCEPT ![i] = TaskWindow]
                ELSE UNCHANGED <<cache, pc, at>>
           /\ seen' = [seen EXCEPT ![i] = cache'[i]]
    /\ UNCHANGED <<offset, file, failed, delayVars, verdict, credentials, credQueue>>

-----------------------------------------------------------------------------
(* The verification tasks.                                                 *)

(* verify_sig up to the lock of the credentials.  A chunk that starts       *)
(* before the offset is the end of the task: Timestamp - Timestamp          *)
(* underflows and panics.  end_idx < start_idx cannot be: an empty interval *)
(* covers no frame.                                                         *)
TaskStart(i) ==
    /\ pc[i] = "spawned"
    /\ IF file[i].start < offset
         THEN /\ pc' = [pc EXCEPT ![i] = "panicked"]
              /\ UNCHANGED credQueue
         ELSE /\ pc' = [pc EXCEPT ![i] = "queued"]
              /\ credQueue' = Append(credQueue, i)
    /\ UNCHANGED <<offset, file, failed, delayVars, pending, seen,
                   cache, at, verdict, credentials>>

(* Errors among the items are left out, one after the other.                *)
FramesAmong(items) ==
    LET f[n \in 0..Len(items)] ==
            IF n = 0 THEN <<>>
            ELSE IF items[n] = Err THEN f[n - 1] ELSE Append(f[n - 1], items[n])
    IN  f[Len(items)]

(* with_frames: the frame the task was given and the frames among the next  *)
(* end_frame - 1 items.                                                     *)
Gathered(i) ==
    LET w == full[at[i]]
    IN  <<w.latest>> \o FramesAmong(SubSeq(w.future, 1, EndFrame(file[i]) - 1))

(* Its slice panics when the buffer does not reach that far.                *)
BeyondWindow(i) == (EndFrame(file[i]) - 1) \notin 0..Len(full[at[i]].future)

SizeAndOffsetOK(c) == LengthAllowed(c.stop - c.start) /\ offset <= c.start

(* Mutated form of FromSigner: a key is taken from any subject on record.   *)
FromSignerUnchecked(i, subject) ==
    CASE subject.state = "Undefined"      -> "UnknownKey"
      [] subject.state = "ResolverFailed" -> "Unresolved"
      [] OTHER -> IF Gathered(i) = SignedFrames(file[i]) THEN "Verified" ELSE "Unverified"

(* SignatureState::from_signer: the signature matches the bytes gathered if *)
(* they are those that were signed and the subject holds the signer's key.  *)
FromSigner(i, subject) ==
    CASE subject.state = "Undefined"      -> "UnknownKey"
      [] subject.state = "Invalid"        -> "InvalidJwt"
      [] subject.state = "ResolverFailed" -> "Unresolved"
      [] subject.state = "Valid" ->
           IF Gathered(i) = SignedFrames(file[i]) /\ subject.key = file[i].key
             THEN "Verified" ELSE "Unverified"

(* verify_sig, once normalise has answered with the subject: its verdict,   *)
(* or the panic of with_frames; either way the lock is released.            *)
Judge(i, subject) ==
    LET c == file[i]
    IN  IF SizeAndOffsetOK(c) /\ BeyondWindow(i)
          THEN /\ pc' = [pc EXCEPT ![i] = "panicked"]
               /\ UNCHANGED verdict
          ELSE /\ pc' = [pc EXCEPT ![i] = "judged"]
               /\ verdict' = [verdict EXCEPT ![i] =
                    CASE ~ LengthAllowed(c.stop - c.start) -> "InvalidChunkSize"
                      [] SizeAndOffsetOK(c) /\ ~ c.fits    -> "InvalidCrop"
                      [] SizeAndOffsetOK(c) /\ c.fits      -> FromSigner(i, subject)
                      [] OTHER                             -> "OutOfRange"]

HoldsCredentials(i) == pc[i] = "queued" /\ Head(credQueue) = i

(* normalise of a reference: the subject on record, or UnknownKey.          *)
NormaliseRef(i) ==
    /\ HoldsCredentials(i)
    /\ file[i].pres = "ref"
    /\ Judge(i, credentials[file[i].id])
    /\ credQueue' = Tail(credQueue)
    /\ UNCHANGED <<offset, file, failed, delayVars, pending, seen, cache, at, credentials>>

(* What may be recorded for a definition: the resolver may always fail.     *)
Outcomes(c) ==
    { [state |-> "ResolverFailed"] }
    \cup (CASE c.pres = "good"   -> { [state |-> "Valid", key |-> c.key] }
            [] c.pres = "forged" -> { [state |-> "Invalid"] }
            [] OTHER             -> {})

(* Mutated form of NormaliseDef: the chunk is checked before its credential *)
(* is saved.                                                                *)
NormaliseDefCheckedFirst(i) ==
    /\ HoldsCredentials(i)
    /\ file[i].pres # "ref"
    /\ \E subject \in Outcomes(file[i]) :
         /\ credentials' = IF SizeAndOffsetOK(file[i])
                             THEN [credentials EXCEPT ![file[i].id] = subject]
                             ELSE credentials
         /\ Judge(i, subject)
    /\ credQueue' = Tail(credQueue)
    /\ UNCHANGED <<offset, file, failed, delayVars, pending, seen, cache, at>>

(* normalise of a definition: with the store locked, the presentation is    *)
(* validated and what came of it is recorded under its id.                  *)
NormaliseDef(i) ==
    /\ HoldsCredentials(i)
    /\ file[i].pres # "ref"
    /\ \E subject \in Outcomes(file[i]) :
         /\ credentials' = [credentials EXCEPT ![file[i].id] = subject]
         /\ Judge(i, subject)
    /\ credQueue' = Tail(credQueue)
    /\ UNCHANGED <<offset, file, failed, delayVars, pending, seen, cache, at>>

(* Mutated form of NormalisePanics: the lock stays with the dead task.      *)
NormalisePanicsLocked(i) ==
    /\ HoldsCredentials(i)
    /\ file[i].pres = "bad_credential"
    /\ pc' = [pc EXCEPT ![i] = "panicked"]
    /\ UNCHANGED <<offset, file, failed, delayVars, pending, seen,
                   cache, at, verdict, credentials, credQueue>>

(* validate_pres unwraps the validation of each credential: the task dies   *)
(* with nothing recorded, and the lock is released.                         *)
NormalisePanics(i) ==
    /\ HoldsCredentials(i)
    /\ file[i].pres = "bad_credential"
    /\ pc' = [pc EXCEPT ![i] = "panicked"]
    /\ credQueue' = Tail(credQueue)
    /\ UNCHANGED <<offset, file, failed, delayVars, pending, seen,
                   cache, at, verdict, credentials>>

(* The task caches its verdict.                                             *)
Publish(i) ==
    /\ pc[i] = "judged"
    /\ pc' = [pc EXCEPT ![i] = "done"]
    /\ cache' = [cache EXCEPT ![i] = verdict[i]]
    /\ UNCHANGED <<offset, file, failed, delayVars, pending, seen,
                   at, verdict, credentials, credQueue>>

Task(i) ==
    TaskStart(i) \/ NormaliseRef(i) \/ NormaliseDef(i) \/ NormalisePanics(i) \/ Publish(i)

-----------------------------------------------------------------------------
Next == PeekFails \/ NextFrame \/ ReportSignature \/ \E i \in Chunks : Task(i)

Spec == Init /\ [][Next]_vars

(* The viewer keeps polling, the runtime runs every spawned task, and the   *)
(* resolver answers, if only with an error.  Nothing is assumed of the      *)
(* order in which tasks run.                                                *)
MaxChunks == Max({ Len(f) : f \in Files })
FairSpec ==
    /\ Spec
    /\ WF_vars(NextFrame \/ ReportSignature)
    /\ \A i \in 1..MaxChunks : WF_vars(i \in Chunks /\ Task(i))

-----------------------------------------------------------------------------
(* Properties.                                                             *)

TypeOK ==
    /\ offset \in Offsets /\ file \in Files /\ failed \in BOOLEAN
    /\ pending \subseteq Chunks
    /\ cache \in [Chunks -> Verdicts \cup {"Absent", "Loading"}]
    /\ seen \in [Chunks -> Verdicts \cup {"Absent", "Loading"}]
    /\ pc \in [Chunks -> {"idle", "spawned", "queued", "judged", "done", "panicked"}]
    /\ at \in [Chunks -> 0..Len(full)]
    /\ verdict \in [Chunks -> Verdicts \cup {"Absent"}]
    /\ credentials \in [Id -> Subjects]
    /\ credQueue \in Seq(Chunks)

(* CacheMirrorsTasks: what the cache says of a chunk is exactly how far its *)
(* one task has got, and the queue at the credentials holds exactly the     *)
(* tasks that wait, each once.                                              *)
CacheMirrorsTasks ==
    /\ \A i \in Chunks :
         /\ cache[i] = "Absent"  <=> pc[i] = "idle"
         /\ Settled(cache[i])    <=> pc[i] = "done"
         /\ Settled(cache[i])     => cache[i] = verdict[i]
    /\ IsInjective(credQueue)
    /\ Range(credQueue) = { i \in Chunks : pc[i] = "queued" }

(* The frames of c have all been delivered, nothing in between and nothing  *)
(* replaced.                                                                *)
Delivered(c) ==
    \E k \in 0..Len(source) :
        /\ k + Cardinality(FramesOf(c)) <= Len(source)
        /\ SubSeq(source, k + 1, k + Cardinality(FramesOf(c))) = SignedFrames(c)

(* VerifiedIsSound: a chunk shown as Verified has a legal length, every one *)
(* of its frames is the signed one, and its signer's key comes from a       *)
(* presentation in the file that validates.                                 *)
VerifiedIsSound ==
    \A i \in Chunks : seen[i] = "Verified" =>
        LET c == file[i]
        IN  /\ LengthAllowed(c.stop - c.start)
            /\ \A n \in FramesOf(c) : [frame |-> n, intact |-> TRUE] \in Range(source)
            /\ \E d \in Range(file) : d.pres = "good" /\ d.id = c.id /\ d.key = c.key

(* NoFalseAlarm: a chunk delivered whole and untouched is never Unverified  *)
(* when every definition of its id carries its signer's key: whatever the   *)
(* buffer held back and whenever its task ran, the frames gathered are the  *)
(* frames signed.                                                           *)
NoFalseAlarm ==
    \A i \in Chunks : verdict[i] = "Unverified" =>
        \/ ~ Delivered(file[i])
        \/ \E d \in Range(file) :
              d.pres # "ref" /\ d.id = file[i].id /\ d.key # file[i].key

(* SavedFirst: a reference judged after a definition of its id is not an    *)
(* unknown key, even if the chunk of the definition was itself refused      *)
(* (manager.rs:647).                                                        *)
SavedFirst ==
    [][\A i, d \in Chunks :
         verdict[i] # "UnknownKey" /\ verdict'[i] = "UnknownKey" =>
            ~ (file[d].pres # "ref" /\ file[d].id = file[i].id /\ pc[d] \in {"judged", "done"})]_vars

(* VerdictsAreFinal: a verdict once cached is never replaced, and once the  *)
(* viewer has been told what a signature is, it is never told anything      *)
(* else, nor that it is Loading again.                                      *)
VerdictsAreFinal ==
    [][\A i \in Chunks :
         /\ Settled(cache[i]) => cache'[i] = cache[i]
         /\ Settled(seen[i]) => seen'[i] = seen[i]]_vars

(* The task of chunk i cannot settle it: it starts before the offset, the   *)
(* video ends before it does, or its presentation holds a bad credential.   *)
CutShort(i) == at[i] # 0 /\ ended /\ at[i] + EndFrame(file[i]) - 1 > Len(source)
Doomed(i) == file[i].start < offset \/ file[i].pres = "bad_credential" \/ CutShort(i)

Loading(i) == i \in Chunks /\ cache[i] = "Loading"

(* LoadingEndsUnlessDoomed: every other signature that is Loading gets its  *)
(* verdict, though tasks ahead of it in the queue may die.                  *)
LoadingEndsUnlessDoomed ==
    \A i \in 1..MaxChunks :
        Loading(i) ~> (i \in Chunks /\ (Settled(cache[i]) \/ Doomed(i)))

(* VideoNeverWaits: the video plays to its end, whatever becomes of the     *)
(* tasks (verify.rs:38, "due to the asyncronous nature of the library to    *)
(* stop stutters").                                                         *)
VideoNeverWaits == <>(failed \/ (done /\ pending = {}))

(* EarlyIsOutOfRange: a chunk that starts before the offset is reported as  *)
(* OutOfRange (manager.rs:650-653, tests/builder_options.rs:304-317).       *)
EarlyIsOutOfRange ==
    \A i \in 1..MaxChunks :
        (Loading(i) /\ file[i].start < offset) ~> (i \in Chunks /\ cache[i] = "OutOfRange")

(* DefinedEarlierIsKnown: a reference finds a definition whose chunk ends   *)
(* before its own starts (spec.md:251-254).                                 *)
DefinedEarlierIsKnown ==
    \A i, d \in Chunks :
        file[d].pres # "ref" /\ file[d].id = file[i].id /\ file[d].stop <= file[i].start
            => verdict[i] # "UnknownKey"
=============================================================================
