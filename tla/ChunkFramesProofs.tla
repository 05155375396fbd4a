------------------------- MODULE ChunkFramesProofs -------------------------
(***************************************************************************)
(* ChunkFrames for every frame rate, offset, chunk and video: the verifier *)
(* gathers the frames that were signed, and both are those the format      *)
(* names, although signer and verifier count them from different frames    *)
(* and round where the other does not.                                     *)
(*                                                                         *)
(* Two conditions are the code's: no more frames than milliseconds, and a  *)
(* buffer that begins at a frame whose timestamp is exact.  The run        *)
(* chunk_frames_evicted shows what happens without the second.             *)
(***************************************************************************)
EXTENDS ChunkFrames, FrameTimeProofs

(* The types of what never changes once a chunk is asked for.               *)
Asked ==
    /\ rate \in Rates /\ offset \in Offsets /\ last \in 0..(MaxFrame - 1) /\ start \in Starts
    /\ phase \in {"asked", "signed", "refused", "verified"}

(* What a signature and its entry come from.                                *)
Cut ==
    IF phase \in {"signed", "verified"}
    THEN /\ Refusal(start, EndTime, offset, Timestamp(ContextStart)) = "none"
         /\ signed = { ContextStart + i : i \in From .. (UpTo - 1) }
         /\ entry = [start |-> FloorMillis(start), stop |-> FloorMillis(EndTime)]
    ELSE signed = {} /\ entry = [start |-> 0, stop |-> 0]

(* What the verifier has answered.                                          *)
Answer ==
    IF phase = "verified"
    THEN /\ Showing # {}
         /\ answer = [ size_ok |-> LengthAllowed(entry.stop - entry.start),
                       frames |-> Min(Showing) .. (Min(Showing) + ChunkLen - 1) ]
    ELSE answer = NoAnswer

ChunkInv == Asked /\ Cut /\ Answer

(* The invariant holds in every reachable state.                            *)
THEOREM ChunkInvariant == Spec => []ChunkInv
<1>1. Init => ChunkInv
  BY DEF Init, ChunkInv, Asked, Cut, Answer
<1>2. ASSUME ChunkInv, Sign PROVE ChunkInv'
  <2>1. /\ phase = "asked" /\ UNCHANGED <<rate, offset, last, start, answer>>
        /\ phase' \in {"signed", "refused"}
    BY <1>2 DEF Sign
  <2>2. Asked' /\ Answer'
    BY <1>2, <2>1 DEF ChunkInv, Asked, Answer
  <2>3. Cut'
    BY <1>2, <2>1 DEF ChunkInv, Cut, Sign, From, UpTo, EndTime, ContextStart, ContextLen,
                      Timestamp, EntryTime
  <2>4. QED
    BY <2>2, <2>3 DEF ChunkInv
<1>3. ASSUME ChunkInv, Verify PROVE ChunkInv'
  <2>1. /\ phase = "signed" /\ phase' = "verified" /\ Showing # {}
        /\ UNCHANGED <<rate, offset, last, start, signed, entry>>
    BY <1>3 DEF Verify
  <2>2. Asked' /\ Cut'
    BY <1>3, <2>1 DEF ChunkInv, Asked, Cut, From, UpTo, EndTime, ContextStart, ContextLen, Timestamp
  <2>3. Answer'
    BY <1>3, <2>1 DEF Verify, Answer, Showing, ChunkLen, Timestamp
  <2>4. QED
    BY <2>2, <2>3 DEF ChunkInv
<1>4. ASSUME ChunkInv, UNCHANGED vars PROVE ChunkInv'
  BY <1>4 DEF vars, ChunkInv, Asked, Cut, Answer, From, UpTo, EndTime, ContextStart, ContextLen,
              Timestamp, Showing, ChunkLen
<1>5. QED
  BY <1>1, <1>2, <1>3, <1>4, PTL DEF Spec, Next

-----------------------------------------------------------------------------
(* The numbers behind a chunk.                                              *)

(* The types of the session.                                                *)
LEMMA AskedTypes ==
  ASSUME Asked
  PROVE  /\ IsRate(rate) /\ offset \in Nat /\ start \in Nat
         /\ last \in Nat /\ last + 1 \in Nat /\ last < MaxFrame
         /\ ContextStart \in 0..last /\ ContextLen = last + 1 - ContextStart
<1>1. /\ IsRate(rate) /\ offset \in Nat /\ start \in Nat
      /\ last \in Nat /\ last < MaxFrame
  BY ChunkFramesAssumption DEF Asked, IsRate
<1>2. Capacity(rate) \in Nat \ {0}
  BY <1>1, CapacityIsPositive
<1>3. QED
  BY <1>1, <1>2 DEF ContextStart, ContextLen

(* What is not refused (manager.rs:443-459): the chunk starts, in whole     *)
(* milliseconds, no earlier than the buffer.                                *)
LEMMA NotRefused ==
  ASSUME Asked, Cut, phase \in {"signed", "verified"}
  PROVE  /\ LengthAllowed(FloorMillis(EndTime) - start)
         /\ Timestamp(ContextStart) <= FloorMillis(start)
         /\ entry.start = FloorMillis(start) /\ entry.stop = FloorMillis(EndTime)
         /\ Timestamp(ContextStart) \in Nat /\ EndTime \in Nat /\ offset <= Timestamp(ContextStart)
<1>1. IsRate(rate) /\ offset \in Nat /\ start \in Nat /\ ContextStart \in Nat /\ last + 1 \in Nat
  BY AskedTypes
<1>2. /\ Timestamp(ContextStart) \in Nat /\ offset <= Timestamp(ContextStart)
      /\ EndTime \in Nat
  BY <1>1, PtsAtLeast DEF Timestamp, EndTime
<1>3. FloorMillis(start) \in Nat
  BY <1>1, FloorMillisBounds
<1>4. Refusal(start, EndTime, offset, Timestamp(ContextStart)) = "none"
  BY DEF Cut
<1>5. /\ LengthAllowed(FloorMillis(EndTime) - start)
      /\ ~ (FloorMillis(start) < Timestamp(ContextStart))
  BY <1>4 DEF Refusal
<1>6. QED
  BY <1>2, <1>3, <1>5 DEF Cut

(* Whatever is signed is in the buffer.                                     *)
LEMMA SignedInBuffer ==
  ASSUME Asked, Cut
  PROVE  signed \subseteq 0..last
<1>1. CASE ~ (phase \in {"signed", "verified"})
  BY <1>1 DEF Cut
<1>2. CASE phase \in {"signed", "verified"}
  <2>1. /\ IsRate(rate) /\ start \in Nat /\ last \in Nat
        /\ ContextStart \in 0..last /\ ContextLen = last + 1 - ContextStart
    BY AskedTypes
  <2>2. From \in Nat
    <3>1. /\ Timestamp(ContextStart) \in Nat /\ FloorMillis(start) \in Nat
          /\ Timestamp(ContextStart) <= FloorMillis(start)
      BY <1>2, <2>1, NotRefused, FloorMillisBounds
    <3>2. PICK d \in Nat : d = FloorMillis(start) - Timestamp(ContextStart)
      BY <3>1
    <3>3. FramesCeil(rate, d) \in Nat
      BY <2>1, CeilIsFirst
    <3>4. QED
      BY <3>2, <3>3 DEF From, StartIdx
  <2>3. UpTo \in Int /\ UpTo <= ContextLen
    <3>1. EndTime \in Nat
      BY <1>2, NotRefused
    <3>2. ExcessFrames(rate, EndTime) \in Nat
      BY <2>1, <3>1, NoExcess
    <3>3. QED
      BY <2>1, <3>2 DEF UpTo, EndIdx
  <2>4. \A i \in From .. (UpTo - 1) : ContextStart + i \in 0..last
    BY <2>1, <2>2, <2>3
  <2>5. signed = { ContextStart + i : i \in From .. (UpTo - 1) }
    BY <1>2 DEF Cut
  <2>6. QED
    BY <2>4, <2>5
<1>3. QED
  BY <1>1, <1>2

-----------------------------------------------------------------------------
(* The verifier.                                                            *)

(* The frames within the entry of a chunk, by their timestamps.             *)
Within == { n \in 0..last : entry.start <= Timestamp(n) /\ Timestamp(n) < entry.stop }

(* verify_sig and with_frames: what the verifier gathers, from the first    *)
(* frame at which it finds the entry, are the frames within the entry.      *)
LEMMA GatheredWithin ==
  ASSUME Asked, Cut, phase \in {"signed", "verified"}, Showing # {}
  PROVE  Min(Showing) .. (Min(Showing) + ChunkLen - 1) = Within
<1>1. /\ IsRate(rate) /\ offset \in Nat /\ start \in Nat /\ last \in Nat /\ last < MaxFrame
      /\ MaxFrame \in Nat
  BY AskedTypes, ChunkFramesAssumption
<1>2. PICK a \in Nat : a = entry.start - offset
  <2>1. FloorMillis(start) \in Nat
    BY <1>1, FloorMillisBounds
  <2>2. QED
    BY <1>1, <2>1, NotRefused
<1>3. PICK m \in Showing : TRUE
  OBVIOUS
<1>4. PICK b \in Nat : b = entry.stop - offset
  <2>1. m \in Nat /\ Timestamp(m) \in Nat /\ offset <= Timestamp(m)
    BY <1>1, PtsAtLeast DEF Showing, Timestamp
  <2>2. FloorMillis(Timestamp(m)) \in Nat /\ FloorMillis(EndTime) \in Nat
    BY <2>1, NotRefused, FloorMillisBounds
  <2>3. entry.start <= FloorMillis(Timestamp(m)) /\ FloorMillis(Timestamp(m)) < entry.stop
    BY DEF Showing
  <2>4. entry.start \in Nat /\ entry.stop \in Nat /\ offset <= entry.start
    BY <1>1, <1>2, <2>2, NotRefused, FloorMillisBounds
  <2>5. entry.stop - offset \in Nat
    BY <1>1, <2>2, <2>3, <2>4
  <2>6. QED
    BY <2>5
<1>5. PICK from \in Nat : from = FramesCeil(rate, a) /\ \A n \in Nat : from <= n <=> a <= Pts(rate, n)
  BY <1>1, CeilIsFirst
<1>6. PICK upto \in Nat : upto = FramesCeil(rate, b) /\ \A n \in Nat : upto <= n <=> b <= Pts(rate, n)
  BY <1>1, CeilIsFirst
<1>7. ASSUME NEW n \in Nat
      PROVE  /\ Timestamp(n) \in Nat
             /\ entry.start <= Timestamp(n) <=> from <= n
             /\ Timestamp(n) < entry.stop <=> n < upto
             /\ entry.start <= FloorMillis(Timestamp(n)) <=> from <= n
             /\ FloorMillis(Timestamp(n)) < entry.stop <=> n < upto
  <2>1. Pts(rate, n) \in Nat /\ Timestamp(n) = offset + Pts(rate, n)
    BY <1>1, PtsAtLeast DEF Timestamp
  <2>2. PICK p \in Nat : p = Pts(rate, n)
    BY <2>1
  <2>3. PICK t \in Nat : t = Timestamp(n) /\ t = offset + p
    BY <1>1, <2>1, <2>2
  <2>4. a <= p <=> from <= n
    BY <1>5, <2>2
  <2>5. b <= p <=> upto <= n
    BY <1>6, <2>2
  <2>6. entry.start = offset + a /\ entry.stop = offset + b
    <3>1. entry.start \in Nat /\ entry.stop \in Nat
      BY <1>1, NotRefused, FloorMillisBounds
    <3>2. QED
      BY <1>1, <1>2, <1>4, <3>1
  <2>7. entry.start <= FloorMillis(t) <=> entry.start <= t
    BY <1>1, NotRefused, FlooredIsWhole
  <2>8. entry.stop <= FloorMillis(t) <=> entry.stop <= t
    BY NotRefused, FlooredIsWhole
  <2>9. FloorMillis(t) \in Nat
    BY FloorMillisBounds
  <2>10. QED
    BY <1>1, <2>3, <2>4, <2>5, <2>6, <2>7, <2>8, <2>9
<1>8. upto <= last + 1
  <2>1. last + 1 \in Nat
    BY <1>1
  <2>2. FloorMillis(EndTime) <= EndTime /\ FloorMillis(EndTime) \in Nat
    BY NotRefused, FloorMillisBounds
  <2>3. entry.stop <= Timestamp(last + 1) /\ entry.stop \in Nat
    BY <2>2, NotRefused DEF EndTime
  <2>4. ~ (last + 1 < upto)
    BY <1>7, <2>1, <2>3
  <2>5. QED
    BY <2>1, <2>4
<1>9. Showing = { n \in 0..MaxFrame : from <= n /\ n < upto }
  <2>1. \A n \in 0..MaxFrame : n \in Nat
    BY <1>1
  <2>2. QED
    BY <1>7, <2>1 DEF Showing
<1>10. from < upto /\ Min(Showing) = from
  <2>1. m \in Nat /\ from <= m /\ m < upto /\ m <= MaxFrame
    BY <1>1, <1>9
  <2>2. from \in Showing
    BY <1>1, <1>9, <2>1
  <2>3. Showing \in SUBSET Nat
    BY <1>1, <1>9
  <2>4. Min(Showing) \in Showing /\ Min(Showing) <= from
    BY <2>2, <2>3, MinIsLeast
  <2>5. Min(Showing) \in Nat /\ from <= Min(Showing)
    BY <1>1, <1>9, <2>4
  <2>6. QED
    BY <2>1, <2>4, <2>5
<1>11. ChunkLen = upto - from
  BY <1>2, <1>4, <1>5, <1>6 DEF ChunkLen
<1>12. Min(Showing) .. (Min(Showing) + ChunkLen - 1) = from .. (upto - 1)
  BY <1>10, <1>11
<1>13. Within = { n \in 0..last : from <= n /\ n < upto }
  <2>1. \A n \in 0..last : n \in Nat
    BY <1>1
  <2>2. QED
    BY <1>7, <2>1 DEF Within
<1>14. from .. (upto - 1) = { n \in 0..last : from <= n /\ n < upto }
  BY <1>1, <1>8
<1>15. QED
  BY <1>12, <1>13, <1>14

(* The variables of a chunk have their types: what is signed is in the      *)
(* buffer, and what is gathered is in the video.                            *)
THEOREM ChunkTypes == Spec => []TypeOK
<1>1. ChunkInv => TypeOK
  <2>1. SUFFICES ASSUME ChunkInv PROVE TypeOK
    OBVIOUS
  <2>2. Asked /\ Cut /\ Answer
    BY <2>1 DEF ChunkInv
  <2>3. /\ IsRate(rate) /\ start \in Nat /\ last \in Nat /\ last < MaxFrame
        /\ MaxFrame \in Nat
    BY <2>2, AskedTypes, ChunkFramesAssumption
  <2>4. last \in 0..MaxFrame
    BY <2>3
  <2>5. entry \in [start : Nat, stop : Nat]
    <3>1. CASE phase \in {"signed", "verified"}
      <4>1. FloorMillis(start) \in Nat /\ FloorMillis(EndTime) \in Nat
        BY <2>2, <2>3, <3>1, NotRefused, FloorMillisBounds
      <4>2. QED
        BY <2>2, <3>1, <4>1 DEF Cut
    <3>2. CASE ~ (phase \in {"signed", "verified"})
      BY <2>2, <3>2 DEF Cut
    <3>3. QED
      BY <3>1, <3>2
  <2>6. answer.size_ok \in BOOLEAN /\ answer.frames \subseteq 0..MaxFrame
    <3>1. CASE phase = "verified"
      <4>1. answer.frames = Within
        BY <2>2, <3>1, GatheredWithin DEF Answer
      <4>2. Within \subseteq 0..MaxFrame
        BY <2>3 DEF Within
      <4>3. answer.size_ok = LengthAllowed(entry.stop - entry.start)
        BY <2>2, <3>1 DEF Answer
      <4>4. QED
        BY <4>1, <4>2, <4>3 DEF LengthAllowed
    <3>2. CASE phase # "verified"
      <4>1. answer.size_ok = FALSE /\ answer.frames = {}
        BY <2>2, <3>2 DEF Answer, NoAnswer
      <4>2. QED
        BY <4>1
    <3>3. QED
      BY <3>1, <3>2
  <2>7. QED
    BY <2>2, <2>4, <2>5, <2>6, SignedInBuffer DEF TypeOK, Asked
<1>2. QED
  BY <1>1, ChunkInvariant, PTL

(* What is long enough for the signer, and not too long, is so for the      *)
(* verifier, but for a chunk that starts off a millisecond and that the     *)
(* floored start takes to the maximum (manager.rs:443 and 650).             *)
THEOREM LengthsAgree == Spec => []SizeAgrees
<1>1. ChunkInv => SizeAgrees
  <2>1. SUFFICES ASSUME ChunkInv, phase = "verified", ~ answer.size_ok
                 PROVE  /\ start % Tick # 0
                        /\ MaxChunk <= entry.stop - entry.start
                        /\ entry.stop - entry.start < MaxChunk + Tick
    BY DEF SizeAgrees
  <2>2. Asked /\ Cut /\ Answer
    BY <2>1 DEF ChunkInv
  <2>3. /\ entry.start = FloorMillis(start) /\ entry.stop = FloorMillis(EndTime)
        /\ LengthAllowed(FloorMillis(EndTime) - start)
    BY <2>1, <2>2, NotRefused
  <2>4. ~ LengthAllowed(entry.stop - entry.start)
    BY <2>1, <2>2 DEF Answer
  <2>5. start % Tick # 0
    <3>1. SUFFICES ASSUME start % Tick = 0 PROVE FALSE
      OBVIOUS
    <3>2. entry.start = start
      BY <2>2, <2>3, <3>1, AskedTypes, AlignedIsWhole
    <3>3. QED
      BY <2>3, <2>4, <3>2
  <2>6. PICK e \in Nat, s \in Nat, f \in Nat :
          e = entry.stop /\ s = start /\ f = entry.start /\ f <= s /\ s < f + Tick
    <3>1. start \in Nat /\ EndTime \in Nat
      BY <2>1, <2>2, AskedTypes, NotRefused
    <3>2. QED
      BY <2>3, <3>1, FloorMillisBounds
  <2>7. MinChunk <= e - s /\ e - s < MaxChunk
    BY <2>3, <2>6 DEF LengthAllowed
  <2>8. ~ (MinChunk <= e - f /\ e - f < MaxChunk)
    BY <2>4, <2>6 DEF LengthAllowed
  <2>9. MaxChunk \in Nat /\ MinChunk \in Nat /\ Tick \in Nat
    BY TimeAssumption
  <2>10. MaxChunk <= e - f /\ e - f < MaxChunk + Tick
    BY <2>6, <2>7, <2>8, <2>9
  <2>11. QED
    BY <2>5, <2>6, <2>10
<1>2. QED
  BY <1>1, ChunkInvariant, PTL

-----------------------------------------------------------------------------
(* The signer.                                                              *)

(* No video has more than a frame per millisecond.                          *)
MillisecondRates == \A r \in Rates : MillisecondFrames(r)

(* sign: from a buffer that begins at an exact timestamp, the frames        *)
(* presented at or after the start of the entry are signed, all of them up  *)
(* to the frame the chunk was asked for at.                                 *)
LEMMA SignedFromStart ==
  ASSUME Asked, Cut, phase \in {"signed", "verified"}, ExactContext, MillisecondRates
  PROVE  signed = { n \in 0..last : entry.start <= Timestamp(n) }
<1>1. /\ IsRate(rate) /\ offset \in Nat /\ start \in Nat /\ last \in Nat /\ last + 1 \in Nat
      /\ ContextStart \in 0..last /\ ContextLen = last + 1 - ContextStart
      /\ MillisecondFrames(rate)
  BY AskedTypes DEF Asked, MillisecondRates
<1>2. PICK m \in Nat : m = ContextStart
  BY <1>1
<1>3. IsExact(rate, m)
  BY <1>2 DEF ExactContext, IsExact
<1>4. PICK s \in Nat : s = FloorMillis(start) /\ s = entry.start /\ offset + Pts(rate, m) <= s
  BY <1>1, <1>2, NotRefused, FloorMillisBounds DEF Timestamp
<1>5. PICK from \in Nat :
        /\ from = From
        /\ \A i \in Nat : from <= i <=> s <= Timestamp(m + i)
  <2>1. From = FramesCeil(rate, s - (offset + Pts(rate, m)))
    BY <1>2, <1>4 DEF From, StartIdx, Timestamp
  <2>2. /\ FramesCeil(rate, s - (offset + Pts(rate, m))) \in Nat
        /\ \A i \in Nat : FramesCeil(rate, s - (offset + Pts(rate, m))) <= i
                              <=> s <= offset + Pts(rate, m + i)
    BY <1>1, <1>3, <1>4, CeilFromExact
  <2>3. QED
    BY <2>1, <2>2 DEF Timestamp
<1>6. UpTo = last + 1 - m
  <2>1. ExcessFrames(rate, EndTime) = 0
    BY <1>1, NotRefused, NoExcess
  <2>2. QED
    BY <1>1, <1>2, <2>1 DEF UpTo, EndIdx
<1>7. signed = { m + i : i \in from .. (last - m) }
  <2>1. UpTo - 1 = last - m
    BY <1>1, <1>2, <1>6
  <2>2. QED
    BY <1>2, <1>5, <2>1 DEF Cut
<1>8. ASSUME NEW n \in 0..last, s <= Timestamp(n) PROVE n \in signed
  <2>1. m <= n
    <3>1. SUFFICES ASSUME n < m PROVE FALSE
      BY <1>1
    <3>2. n \in Nat /\ n + 1 \in Nat /\ n + 1 <= m
      BY <1>1, <1>2, <3>1
    <3>3. Pts(rate, n) + Tick <= Pts(rate, n + 1) /\ Pts(rate, n + 1) <= Pts(rate, m)
      BY <1>1, <3>2, MillisecondApart, PtsMonotone
    <3>4. Pts(rate, n) \in Nat /\ Pts(rate, n + 1) \in Nat /\ Pts(rate, m) \in Nat
      BY <1>1, <3>2, PtsAtLeast
    <3>5. Tick \in Nat \ {0} /\ s <= offset + Pts(rate, n)
      BY <1>8, TimeAssumption DEF Timestamp
    <3>6. QED
      BY <1>1, <1>4, <3>3, <3>4, <3>5
  <2>2. PICK i \in Nat : n = m + i
    BY <1>1, <2>1
  <2>3. from <= i /\ i <= last - m
    BY <1>1, <1>5, <1>8, <2>2
  <2>4. QED
    BY <1>1, <1>7, <2>2, <2>3
<1>9. ASSUME NEW n \in signed PROVE n \in 0..last /\ s <= Timestamp(n)
  <2>1. n \in 0..last
    BY SignedInBuffer
  <2>2. PICK i \in from .. (last - m) : n = m + i
    BY <1>7
  <2>3. i \in Nat /\ from <= i
    BY <1>5, <2>2
  <2>4. QED
    BY <1>5, <2>1, <2>2, <2>3
<1>10. signed = { n \in 0..last : s <= Timestamp(n) }
  BY <1>8, <1>9
<1>11. QED
  BY <1>4, <1>10

(* The last of them ends no earlier than the entry, so that all of them lie *)
(* within it.                                                               *)
LEMMA SignedWithin ==
  ASSUME Asked, Cut, phase \in {"signed", "verified"}, MillisecondRates
  PROVE  Within = { n \in 0..last : entry.start <= Timestamp(n) }
<1>1. /\ IsRate(rate) /\ offset \in Nat /\ last \in Nat /\ last + 1 \in Nat
      /\ MillisecondFrames(rate)
  BY AskedTypes DEF Asked, MillisecondRates
<1>2. ASSUME NEW n \in 0..last PROVE Timestamp(n) < entry.stop
  <2>1. n \in Nat /\ n <= last
    BY <1>1
  <2>2. /\ Pts(rate, n) \in Nat /\ Pts(rate, last) \in Nat /\ Pts(rate, last + 1) \in Nat
        /\ Pts(rate, n) <= Pts(rate, last) /\ Pts(rate, last) + Tick <= Pts(rate, last + 1)
    BY <1>1, <2>1, PtsAtLeast, PtsMonotone, MillisecondApart
  <2>3. /\ EndTime \in Nat /\ EndTime = offset + Pts(rate, last + 1)
        /\ entry.stop = FloorMillis(EndTime)
    BY NotRefused DEF EndTime, Timestamp
  <2>4. FloorMillis(EndTime) \in Nat /\ EndTime < FloorMillis(EndTime) + Tick
    BY <2>3, FloorMillisBounds
  <2>5. Timestamp(n) = offset + Pts(rate, n) /\ Tick \in Nat
    BY TimeAssumption DEF Timestamp
  <2>6. QED
    BY <1>1, <2>2, <2>3, <2>4, <2>5
<1>3. QED
  BY <1>2 DEF Within

(* The format (spec.md:372): whatever the rate, offset, start and length,   *)
(* the signed frames are those presented from the start of the entry on.    *)
THEOREM SignedAsSpecified ==
  ASSUME MillisecondRates
  PROVE  Spec => []SpecFrames
<1>1. ChunkInv => SpecFrames
  <2>1. SUFFICES ASSUME ChunkInv, phase = "signed", ExactContext
                 PROVE  signed = { n \in 0..last :
                                     (entry.start - offset) * rate.frames <= n * SecondsOf(rate) }
    BY DEF SpecFrames
  <2>2. Asked /\ Cut
    BY <2>1 DEF ChunkInv
  <2>3. signed = { n \in 0..last : entry.start <= Timestamp(n) }
    BY <2>1, <2>2, SignedFromStart
  <2>4. IsRate(rate) /\ offset \in Nat /\ start \in Nat /\ last \in Nat
    BY <2>2, AskedTypes
  <2>5. entry.start \in Nat /\ offset <= entry.start
    BY <2>1, <2>2, <2>4, NotRefused, FloorMillisBounds
  <2>6. PICK d \in Nat : d = entry.start - offset
    BY <2>4, <2>5
  <2>7. ASSUME NEW n \in 0..last
        PROVE  entry.start <= Timestamp(n) <=> d * rate.frames <= n * SecondsOf(rate)
    <3>1. n \in Nat
      BY <2>4
    <3>2. Pts(rate, n) \in Nat /\ (d <= Pts(rate, n) <=> d * rate.frames <= n * SecondsOf(rate))
      BY <2>4, <3>1, PtsAtLeast
    <3>3. entry.start <= offset + Pts(rate, n) <=> d <= Pts(rate, n)
      BY <2>4, <2>5, <2>6, <3>2
    <3>4. QED
      BY <3>2, <3>3 DEF Timestamp
  <2>8. QED
    BY <2>3, <2>6, <2>7
<1>2. QED
  BY <1>1, ChunkInvariant, PTL

(* verify_sig against sign: whatever the rate, the offset, the start and    *)
(* the frame a chunk was asked for at, the verifier gathers the very frames *)
(* that were signed, if the buffer began at an exact timestamp.             *)
THEOREM SignedIsGathered ==
  ASSUME MillisecondRates
  PROVE  Spec => []SameFramesExact
<1>1. ChunkInv => SameFramesExact
  <2>1. SUFFICES ASSUME ChunkInv, ExactContext, phase = "verified"
                 PROVE  answer.frames = signed
    BY DEF SameFramesExact, SameFrames
  <2>2. Asked /\ Cut /\ Answer
    BY <2>1 DEF ChunkInv
  <2>3. answer.frames = Within
    BY <2>1, <2>2, GatheredWithin DEF Answer
  <2>4. QED
    BY <2>1, <2>2, <2>3, SignedWithin, SignedFromStart
<1>2. QED
  BY <1>1, ChunkInvariant, PTL
=============================================================================
