-------------------------- MODULE FrameTimeProofs --------------------------
(***************************************************************************)
(* The arithmetic by which both pipelines turn times into frame indexes,   *)
(* for every frame rate: file/time.rs and video/frame/rate.rs.             *)
(*                                                                         *)
(* All of it rests on one fact, CeilIsFirst: to round a time up to frames  *)
(* is to look for the first frame that starts no earlier.                  *)
(***************************************************************************)
EXTENDS FrameTime, FiniteSetsExt, WellFoundedInduction, TLAPS

IsRate(r) == r.frames \in Nat \ {0} /\ r.seconds \in Nat \ {0}

(* At most a frame per millisecond.                                         *)
MillisecondFrames(r) == r.frames * Tick <= SecondsOf(r)

(* The timestamp GStreamer gives to frame n is not truncated.               *)
IsExact(r, n) == (n * SecondsOf(r)) % r.frames = 0

(* Division leaves a remainder smaller than the divisor.                    *)
LEMMA Division ==
  ASSUME NEW a \in Nat, NEW b \in Nat \ {0}
  PROVE  /\ a \div b \in Nat
         /\ a % b \in 0..(b - 1)
         /\ a = b * (a \div b) + (a % b)
OBVIOUS

(* So many frames take a positive number of ticks.                          *)
LEMMA SecondsOfType ==
  ASSUME NEW r, IsRate(r)
  PROVE  SecondsOf(r) \in Nat \ {0} /\ r.frames \in Nat \ {0}
<1>1. r.seconds * 1000 \in Nat \ {0}
  BY DEF IsRate
<1>2. SecondsOf(r) \in Nat \ {0}
  BY <1>1, TimeAssumption DEF SecondsOf
<1>3. QED
  BY <1>2 DEF IsRate

(* A number of whole divisors fits exactly if it does without remainder.    *)
LEMMA AtMostQuotient ==
  ASSUME NEW a \in Nat, NEW b \in Nat \ {0}, NEW x \in Nat
  PROVE  x <= a \div b <=> x * b <= a
<1> DEFINE q == a \div b
           m == a % b
<1>1. q \in Nat /\ m \in 0..(b - 1) /\ a = b * q + m
  BY Division
<1> HIDE DEF q, m
<1>2. CASE x <= q
  <2>1. PICK e \in Nat : q = x + e
    BY <1>1, <1>2
  <2>2. b * q = x * b + b * e /\ b * e \in Nat /\ x * b \in Nat
    BY <2>1
  <2>3. QED
    BY <1>1, <1>2, <2>2 DEF q
<1>3. CASE ~ (x <= q)
  <2>1. PICK e \in Nat : x = q + 1 + e
    BY <1>1, <1>3
  <2>2. x * b = b * q + b + b * e /\ b * e \in Nat /\ b * q \in Nat
    BY <1>1, <2>1
  <2>3. QED
    BY <1>1, <1>3, <2>2 DEF q
<1>4. QED
  BY <1>2, <1>3

(* Rounding up gives the least number of divisors that is enough.           *)
LEMMA CeilQuotient ==
  ASSUME NEW a \in Nat, NEW b \in Nat \ {0}, NEW x \in Nat
  PROVE  CeilDiv(a, b) \in Nat /\ (CeilDiv(a, b) <= x <=> a <= x * b)
<1> DEFINE q == (a + b - 1) \div b
           m == (a + b - 1) % b
<1>1. q \in Nat /\ m \in 0..(b - 1) /\ a + b - 1 = b * q + m
  <2>1. a + b - 1 \in Nat
    OBVIOUS
  <2>2. QED
    BY <2>1, Division
<1>2. CeilDiv(a, b) = q
  BY DEF CeilDiv
<1> HIDE DEF q, m
<1>3. CASE q <= x
  <2>1. PICK e \in Nat : x = q + e
    BY <1>1, <1>3
  <2>2. x * b = b * q + b * e /\ b * e \in Nat /\ b * q \in Nat
    BY <1>1, <2>1
  <2>3. a <= x * b
    BY <1>1, <2>2
  <2>4. QED
    BY <1>1, <1>2, <1>3, <2>3
<1>4. CASE ~ (q <= x)
  <2>1. PICK e \in Nat : q = x + 1 + e
    BY <1>1, <1>4
  <2>2. b * q = x * b + b + b * e /\ b * e \in Nat /\ x * b \in Nat
    BY <1>1, <2>1
  <2>3. ~ (a <= x * b)
    BY <1>1, <2>2
  <2>4. QED
    BY <1>1, <1>2, <1>4, <2>3
<1>5. QED
  BY <1>3, <1>4

(* Frame n starts at the time d or later exactly if n times its length is   *)
(* no less.                                                                 *)
LEMMA PtsAtLeast ==
  ASSUME NEW r, IsRate(r), NEW n \in Nat, NEW d \in Nat
  PROVE  Pts(r, n) \in Nat /\ (d <= Pts(r, n) <=> d * r.frames <= n * SecondsOf(r))
<1>1. PICK s \in Nat \ {0} : s = SecondsOf(r)
  BY SecondsOfType
<1>2. PICK f \in Nat \ {0} : f = r.frames
  BY SecondsOfType
<1>3. PICK a \in Nat : a = n * s
  BY <1>1
<1>4. Pts(r, n) = a \div f
  BY <1>1, <1>2, <1>3 DEF Pts, FloorDiv
<1>5. a \div f \in Nat /\ (d <= a \div f <=> d * f <= a)
  BY AtMostQuotient, Division
<1>6. QED
  BY <1>1, <1>2, <1>3, <1>4, <1>5

(* Rounded up to frames, a time is the number of the first frame that       *)
(* starts no earlier (into_frames and convert_to_frames with ceil).         *)
LEMMA CeilIsFirst ==
  ASSUME NEW r, IsRate(r), NEW n \in Nat, NEW d \in Nat
  PROVE  FramesCeil(r, d) \in Nat /\ (FramesCeil(r, d) <= n <=> d <= Pts(r, n))
<1>1. PICK s \in Nat \ {0} : s = SecondsOf(r)
  BY SecondsOfType
<1>2. PICK f \in Nat \ {0} : f = r.frames
  BY SecondsOfType
<1>3. PICK a \in Nat : a = d * f
  BY <1>2
<1>4. FramesCeil(r, d) = CeilDiv(a, s)
  BY <1>1, <1>2, <1>3 DEF FramesCeil
<1>5. CeilDiv(a, s) \in Nat /\ (CeilDiv(a, s) <= n <=> a <= n * s)
  BY CeilQuotient
<1>6. d <= Pts(r, n) <=> d * r.frames <= n * SecondsOf(r)
  BY PtsAtLeast
<1>7. QED
  BY <1>1, <1>2, <1>3, <1>4, <1>5, <1>6

-----------------------------------------------------------------------------
(* Milliseconds.                                                            *)

(* Flooring takes off less than a millisecond, and leaves whole ones.       *)
LEMMA FloorMillisBounds ==
  ASSUME NEW t \in Nat
  PROVE  /\ FloorMillis(t) \in Nat /\ t % Tick \in 0..(Tick - 1)
         /\ FloorMillis(t) <= t /\ t < FloorMillis(t) + Tick
         /\ FloorMillis(t) = Tick * (t \div Tick)
<1>1. Tick \in Nat \ {0}
  BY TimeAssumption
<1>2. /\ t \div Tick \in Nat /\ t % Tick \in 0..(Tick - 1)
      /\ t = Tick * (t \div Tick) + (t % Tick)
  BY <1>1, Division
<1>3. PICK q \in Nat : q = t \div Tick
  BY <1>2
<1>4. PICK m \in 0..(Tick - 1) : m = t % Tick
  BY <1>2
<1>5. PICK p \in Nat : p = Tick * q
  BY <1>1
<1>6. FloorMillis(t) = t - m /\ t = p + m
  BY <1>2, <1>3, <1>4, <1>5 DEF FloorMillis
<1>7. QED
  BY <1>1, <1>3, <1>4, <1>5, <1>6

(* A whole number of milliseconds lies at or before a time exactly if it    *)
(* does when the time is floored.                                           *)
LEMMA WholeMillis ==
  ASSUME NEW q \in Nat, NEW t \in Nat
  PROVE  Tick * q <= FloorMillis(t) <=> Tick * q <= t
<1>1. Tick \in Nat \ {0}
  BY TimeAssumption
<1>2. PICK k \in Nat : k = t \div Tick
  BY <1>1, Division
<1>3. FloorMillis(t) = Tick * k /\ FloorMillis(t) <= t
  BY <1>2, FloorMillisBounds
<1>4. q <= k <=> q * Tick <= t
  BY <1>1, <1>2, AtMostQuotient
<1>5. q <= k => Tick * q <= Tick * k
  <2>1. SUFFICES ASSUME q <= k PROVE Tick * q <= Tick * k
    OBVIOUS
  <2>2. PICK e \in Nat : k = q + e
    BY <2>1
  <2>3. Tick * k = Tick * q + Tick * e /\ Tick * e \in Nat /\ Tick * q \in Nat
    BY <1>1, <2>2
  <2>4. QED
    BY <2>3
<1>6. Tick * q = q * Tick /\ Tick * q \in Nat /\ Tick * k \in Nat
  BY <1>1
<1>7. QED
  BY <1>3, <1>4, <1>5, <1>6

(* A floored time stays as it is when it is floored again.                  *)
LEMMA FlooredIsWhole ==
  ASSUME NEW t \in Nat, NEW u \in Nat
  PROVE  FloorMillis(t) <= FloorMillis(u) <=> FloorMillis(t) <= u
<1>1. PICK q \in Nat : FloorMillis(t) = Tick * q
  <2>1. Tick \in Nat \ {0}
    BY TimeAssumption
  <2>2. t \div Tick \in Nat
    BY <2>1, Division
  <2>3. QED
    BY <2>2, FloorMillisBounds
<1>2. QED
  BY <1>1, WholeMillis

(* Aligned times are their own floor.                                       *)
LEMMA AlignedIsWhole ==
  ASSUME NEW t \in Nat, t % Tick = 0
  PROVE  FloorMillis(t) = t
BY DEF FloorMillis

-----------------------------------------------------------------------------
(* Frames.                                                                  *)

(* Frames start one after the other.                                        *)
LEMMA PtsMonotone ==
  ASSUME NEW r, IsRate(r), NEW m \in Nat, NEW n \in Nat, m <= n
  PROVE  Pts(r, m) <= Pts(r, n)
<1>1. Pts(r, m) \in Nat
  BY PtsAtLeast
<1>2. FramesCeil(r, Pts(r, m)) \in Nat /\ FramesCeil(r, Pts(r, m)) <= m
  BY <1>1, CeilIsFirst
<1>3. FramesCeil(r, Pts(r, m)) <= n
  BY <1>2
<1>4. QED
  BY <1>1, <1>3, CeilIsFirst

(* A chunk may always hold a frame.                                         *)
LEMMA CapacityIsPositive ==
  ASSUME NEW r, IsRate(r)
  PROVE  Capacity(r) \in Nat \ {0}
<1>1. MaxChunk \in Nat \ {0}
  BY TimeAssumption
<1>2. Pts(r, 0) \in Nat /\ ~ (1 <= Pts(r, 0))
  <2>1. SecondsOf(r) \in Nat \ {0} /\ r.frames \in Nat \ {0}
    BY SecondsOfType
  <2>2. 1 * r.frames = r.frames /\ 0 * SecondsOf(r) = 0
    BY <2>1
  <2>3. 1 <= Pts(r, 0) <=> 1 * r.frames <= 0 * SecondsOf(r)
    BY PtsAtLeast
  <2>4. QED
    BY <2>1, <2>2, <2>3, PtsAtLeast
<1>3. FramesCeil(r, MaxChunk) \in Nat /\ (FramesCeil(r, MaxChunk) <= 0 <=> MaxChunk <= Pts(r, 0))
  BY <1>1, CeilIsFirst
<1>4. QED
  BY <1>1, <1>2, <1>3 DEF Capacity

(* When there is at most one in a millisecond, each starts a millisecond    *)
(* after the one before it.                                                 *)
LEMMA MillisecondApart ==
  ASSUME NEW r, IsRate(r), MillisecondFrames(r), NEW n \in Nat
  PROVE  Pts(r, n) + Tick <= Pts(r, n + 1)
<1>1. PICK s \in Nat \ {0} : s = SecondsOf(r)
  BY SecondsOfType
<1>2. PICK f \in Nat \ {0} : f = r.frames
  BY SecondsOfType
<1>3. PICK d \in Nat : d = Pts(r, n)
  BY PtsAtLeast
<1>4. d * f <= n * s
  BY <1>1, <1>2, <1>3, PtsAtLeast
<1>5. f * Tick <= s /\ Tick \in Nat \ {0}
  BY <1>1, <1>2, TimeAssumption DEF MillisecondFrames
<1>6. (d + Tick) * f <= (n + 1) * s
  <2>1. (d + Tick) * f = d * f + f * Tick /\ (n + 1) * s = n * s + s
    BY <1>5
  <2>2. d * f \in Nat /\ n * s \in Nat /\ f * Tick \in Nat
    BY <1>5
  <2>3. QED
    BY <1>4, <1>5, <2>1, <2>2
<1>7. d + Tick \in Nat
  BY <1>5
<1>8. d + Tick <= Pts(r, n + 1)
  BY <1>1, <1>2, <1>6, <1>7, PtsAtLeast
<1>9. QED
  BY <1>3, <1>8

(* Less than a millisecond holds no whole frame then: nothing is left out   *)
(* at the end of a chunk.                                                   *)
LEMMA NoExcess ==
  ASSUME NEW r, IsRate(r), NEW t \in Nat
  PROVE  /\ ExcessFrames(r, t) \in Nat
         /\ MillisecondFrames(r) => ExcessFrames(r, t) = 0
<1>1. PICK s \in Nat \ {0} : s = SecondsOf(r)
  BY SecondsOfType
<1>2. PICK f \in Nat \ {0} : f = r.frames
  BY SecondsOfType
<1>3. Tick \in Nat \ {0} /\ t % Tick \in 0..(Tick - 1)
  BY TimeAssumption, FloorMillisBounds
<1>4. PICK m \in 0..(Tick - 1) : m = t % Tick
  BY <1>3
<1>5. PICK a \in Nat : a = m * f
  BY <1>3
<1>6. ExcessFrames(r, t) = a \div s
  BY <1>1, <1>2, <1>4, <1>5 DEF ExcessFrames, FloorDiv
<1>7. a \div s \in Nat
  BY Division
<1>8. ASSUME f * Tick <= s PROVE a \div s = 0
  <2>1. PICK e \in Nat \ {0} : Tick = m + e
    <3>1. Tick - m \in Nat \ {0} /\ Tick = m + (Tick - m)
      BY <1>3
    <3>2. QED
      BY <3>1
  <2>2. f * Tick = a + e * f /\ e * f \in Nat \ {0}
    BY <1>5, <2>1
  <2>3. a < s
    BY <1>8, <2>2
  <2>4. ~ (1 * s <= a)
    BY <2>3
  <2>5. ~ (1 <= a \div s)
    BY <2>4, AtMostQuotient
  <2>6. QED
    BY <1>7, <2>5
<1>9. QED
  BY <1>1, <1>2, <1>6, <1>7, <1>8 DEF MillisecondFrames

(* From a frame whose timestamp is exact, frames start as from zero.        *)
LEMMA PtsFromExact ==
  ASSUME NEW r, IsRate(r), NEW m \in Nat, IsExact(r, m), NEW i \in Nat
  PROVE  Pts(r, m + i) = Pts(r, m) + Pts(r, i)
<1>1. PICK s \in Nat \ {0} : s = SecondsOf(r)
  BY SecondsOfType
<1>2. PICK f \in Nat \ {0} : f = r.frames
  BY SecondsOfType
<1>3. PICK a \in Nat : a = m * s
  BY <1>1
<1>4. PICK b \in Nat : b = i * s
  BY <1>1
<1>5. PICK c \in Nat : c = a \div f
  BY Division
<1>6. PICK e \in Nat : e = b \div f
  BY Division
<1>7. a = f * c
  <2>1. a % f = 0
    BY <1>1, <1>2, <1>3 DEF IsExact
  <2>2. a = f * (a \div f) + (a % f)
    BY Division
  <2>3. QED
    BY <1>5, <2>1, <2>2
<1>8. (m + i) * s = a + b
  BY <1>3, <1>4
<1>9. (a + b) \div f = c + e
  <2>1. PICK q \in 0..(f - 1) : b = f * e + q
    <3>1. (b % f) \in 0..(f - 1) /\ b = f * (b \div f) + (b % f)
      BY Division
    <3>2. QED
      BY <1>6, <3>1, Zenon
  <2>2. f * (c + e) = f * c + f * e /\ f * c \in Nat /\ f * e \in Nat
    OBVIOUS
  <2>3. PICK w \in Nat : w = c + e
    OBVIOUS
  <2>4. a + b = f * w + q
    BY <1>7, <2>1, <2>2, <2>3
  <2>5. w * f <= a + b /\ ~ ((w + 1) * f <= a + b)
    <3>1. w * f = f * w /\ (w + 1) * f = f * w + f /\ f * w \in Nat
      OBVIOUS
    <3>2. QED
      BY <2>4, <3>1
  <2>6. a + b \in Nat /\ (a + b) \div f \in Nat
    <3>1. PICK z \in Nat : z = a + b
      OBVIOUS
    <3>2. z \div f \in Nat
      BY Division
    <3>3. QED
      BY <3>1, <3>2
  <2>7. w <= (a + b) \div f /\ ~ (w + 1 <= (a + b) \div f)
    BY <2>5, <2>6, AtMostQuotient
  <2>8. QED
    BY <2>3, <2>6, <2>7
<1>10. QED
  BY <1>1, <1>2, <1>3, <1>4, <1>5, <1>6, <1>8, <1>9 DEF Pts, FloorDiv

(* Counted from a frame whose timestamp is exact, the first frame to start  *)
(* no earlier than a time is the first of the video to do so.               *)
LEMMA CeilFromExact ==
  ASSUME NEW r, IsRate(r), NEW offset \in Nat, NEW m \in Nat, IsExact(r, m),
         NEW t \in Nat, offset + Pts(r, m) <= t, NEW i \in Nat
  PROVE  /\ FramesCeil(r, t - (offset + Pts(r, m))) \in Nat
         /\ FramesCeil(r, t - (offset + Pts(r, m))) <= i <=> t <= offset + Pts(r, m + i)
<1>1. PICK p \in Nat : p = Pts(r, m)
  BY PtsAtLeast
<1>2. PICK q \in Nat : q = Pts(r, i)
  BY PtsAtLeast
<1>3. PICK d \in Nat : d = t - (offset + p)
  BY <1>1
<1>4. FramesCeil(r, d) \in Nat /\ (FramesCeil(r, d) <= i <=> d <= q)
  BY <1>2, CeilIsFirst
<1>5. Pts(r, m + i) = p + q
  BY <1>1, <1>2, PtsFromExact
<1>6. QED
  BY <1>1, <1>3, <1>4, <1>5

-----------------------------------------------------------------------------
(* A set of natural numbers has a least element.                            *)
LEMMA MinIsLeast ==
  ASSUME NEW S \in SUBSET Nat, S # {}
  PROVE  Min(S) \in S /\ \A n \in S : Min(S) <= n
<1>1. \E m \in S : \A n \in S : m <= n
  <2>1. PICK m \in S : \A n \in S : ~ (n < m)
    <3>1. PICK m \in S : \A n \in S : ~ (<<n, m>> \in OpToRel(<, Nat))
      BY NatLessThanWellFounded, WFMin
    <3>2. QED
      BY <3>1 DEF OpToRel
  <2>2. QED
    BY <2>1
<1>2. QED
  BY <1>1 DEF Min
=============================================================================
