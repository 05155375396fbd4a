--------------------------- MODULE AppsSoundness ---------------------------
(***************************************************************************)
(* What is signed is signed whole, and what is shown was signed, for every *)
(* set of sessions: references stand behind their definitions, the         *)
(* verifier shows who signed a frame and nobody else, no frame is left out *)
(* between the chunks, or of a file that was collected at the end of its   *)
(* video, and sign refuses nothing that fits.                              *)
(***************************************************************************)
EXTENDS AppsProofs

-----------------------------------------------------------------------------
(* Where frames cross and chunks start.                                     *)

(* Multiples that are not too large are no larger than the largest.         *)
LEMMA Multiples ==
  ASSUME NEW d \in Nat \ {0}, NEW x \in Nat, NEW y \in Nat, NEW u \in Int, NEW v \in Int,
         u < d, 0 <= v, d * x + v <= d * y + u
  PROVE  x <= y
<1>1. SUFFICES ASSUME ~ (x <= y) PROVE FALSE
  OBVIOUS
<1>2. PICK e \in Nat : x = y + 1 + e
  BY <1>1
<1>3. d * x = d * y + d + d * e /\ d * e \in Nat /\ d * y \in Nat
  BY <1>2
<1>4. QED
  BY <1>3

(* Timestamp::round_millis is off by half a millisecond at most.            *)
LEMMA RoundBounds ==
  ASSUME NEW x \in Nat
  PROVE  /\ RoundMillis(x) \in Nat
         /\ 2 * RoundMillis(x) <= 2 * x + Tick /\ 2 * x < 2 * RoundMillis(x) + Tick
<1>1. PICK t \in Nat \ {0} : t = Tick
  BY TimeAssumption
<1>2. PICK b \in Nat \ {0} : b = 2 * t
  OBVIOUS
<1>3. PICK a \in Nat : a = 2 * x + t
  OBVIOUS
<1>4. PICK q \in Nat : q = a \div b
  BY Division
<1>5. a % b \in 0..(b - 1) /\ a = b * q + (a % b)
  BY <1>4, Division
<1>6. PICK p \in Nat : p = q * t
  OBVIOUS
<1>7. b * q = 2 * p
  BY <1>2, <1>6
<1>8. RoundMillis(x) = p
  BY <1>1, <1>2, <1>3, <1>4, <1>6 DEF RoundMillis
<1>9. QED
  BY <1>1, <1>2, <1>3, <1>5, <1>7, <1>8

(* crosses_interval: the multiple behind the start of the frame, moved by   *)
(* what rounding adds or takes away.                                        *)
LEMMA CrossingValue ==
  ASSUME NEW t, t.start \in Nat /\ t.end \in Nat /\ t.start <= t.end, NEW d \in Nat \ {0}
  PROVE  \E q \in Nat, m \in 0..(d - 1), r \in Nat :
            /\ q = t.start \div d
            /\ t.start = d * q + m
            /\ 2 * r <= 2 * (m + t.end - t.start) + Tick
            /\ 2 * (m + t.end - t.start) < 2 * r + Tick
            /\ Crossing(t, d) = IF r < d THEN None ELSE t.end - (r - d)
<1>1. PICK q \in Nat : q = t.start \div d
  BY Division
<1>2. PICK m \in 0..(d - 1) : m = (t.start % d)
  BY Division
<1>3. t.start = d * q + m
  BY <1>1, <1>2, Division
<1>4. PICK x \in Nat : x = m + t.end - t.start
  OBVIOUS
<1>5. x = (t.start % d) + Duration(t)
  BY <1>2, <1>4 DEF Duration
<1>6. PICK r \in Nat : r = RoundMillis(x) /\ 2 * r <= 2 * x + Tick /\ 2 * x < 2 * r + Tick
  BY RoundBounds
<1>7. Crossing(t, d) = IF r < d THEN None ELSE t.end - (r - d)
  BY <1>5, <1>6 DEF Crossing
<1>8. QED
  BY <1>1, <1>3, <1>4, <1>6, <1>7

(* An interval back from a time, or zero.                                   *)
Back(e, d) == IF e < d THEN 0 ELSE e - d

(* The end get_chunk goes back from.                                        *)
EndOfChunk(t, d) == IF Crossing(t, d) = None THEN t.end ELSE Crossing(t, d)

(* Controllers ask for chunks that start one no earlier than the other,     *)
(* counted in milliseconds, when the interval is one of milliseconds: what  *)
(* rounding takes away from a frame that crosses early is less than what it *)
(* takes from a frame of the same interval that crosses later.              *)
LEMMA ChunksInOrder ==
  ASSUME NEW d \in Nat \ {0}, d % Tick = 0,
         NEW f, f.start \in Nat /\ f.end \in Nat /\ f.start <= f.end,
         NEW k, k.start \in Nat /\ k.end \in Nat /\ k.start <= k.end,
         f.end <= k.start, Crossing(f, d) # None
  PROVE  FloorMillis(Back(Crossing(f, d), d)) <= FloorMillis(Back(EndOfChunk(k, d), d))
<1>1. PICK t \in Nat \ {0} : t = Tick
  BY TimeAssumption
<1>2. PICK i \in Nat \ {0} : d = t * i
  <2>1. PICK i \in Nat : i = d \div t
    BY <1>1, Division
  <2>2. d = t * i
    BY <1>1, <2>1, Division
  <2>3. i # 0
    BY <2>2
  <2>4. QED
    BY <2>1, <2>2, <2>3
<1>3. d >= t
  <2>1. PICK e \in Nat : i = 1 + e
    BY <1>2
  <2>2. d = t + t * e /\ t * e \in Nat
    BY <1>2, <2>1
  <2>3. QED
    BY <2>2
<1>4. PICK qf \in Nat, mf \in 0..(d - 1), rf \in Nat :
        /\ f.start = d * qf + mf
        /\ 2 * rf <= 2 * (mf + f.end - f.start) + t
        /\ 2 * (mf + f.end - f.start) < 2 * rf + t
        /\ Crossing(f, d) = IF rf < d THEN None ELSE f.end - (rf - d)
  <2>1. \E q \in Nat, m \in 0..(d - 1), r \in Nat :
            /\ q = f.start \div d
            /\ f.start = d * q + m
            /\ 2 * r <= 2 * (m + f.end - f.start) + Tick
            /\ 2 * (m + f.end - f.start) < 2 * r + Tick
            /\ Crossing(f, d) = IF r < d THEN None ELSE f.end - (r - d)
    BY CrossingValue
  <2>2. QED
    BY <2>1, <1>1, Zenon
<1>5. PICK qk \in Nat, mk \in 0..(d - 1), rk \in Nat :
        /\ k.start = d * qk + mk
        /\ 2 * rk <= 2 * (mk + k.end - k.start) + t
        /\ 2 * (mk + k.end - k.start) < 2 * rk + t
        /\ Crossing(k, d) = IF rk < d THEN None ELSE k.end - (rk - d)
  <2>1. \E q \in Nat, m \in 0..(d - 1), r \in Nat :
            /\ q = k.start \div d
            /\ k.start = d * q + m
            /\ 2 * r <= 2 * (m + k.end - k.start) + Tick
            /\ 2 * (m + k.end - k.start) < 2 * r + Tick
            /\ Crossing(k, d) = IF r < d THEN None ELSE k.end - (r - d)
    BY CrossingValue
  <2>2. QED
    BY <2>1, <1>1, Zenon
<1>6. PICK a \in Nat : a = d * qf
  OBVIOUS
<1>7. PICK b \in Nat : b = d * qk
  OBVIOUS
<1>8. PICK sf \in Nat, ef \in Nat, sk \in Nat, ek \in Nat :
        sf = f.start /\ ef = f.end /\ sk = k.start /\ ek = k.end
  OBVIOUS
<1>9. /\ sf = a + mf /\ 2 * rf <= 2 * (mf + ef - sf) + t /\ 2 * (mf + ef - sf) < 2 * rf + t
      /\ rf >= d /\ Crossing(f, d) = ef - (rf - d) /\ sf <= ef /\ ef <= sk /\ sk <= ek
  BY <1>4, <1>6, <1>8
<1>10. sk = b + mk /\ 2 * rk <= 2 * (mk + ek - sk) + t /\ 2 * (mk + ek - sk) < 2 * rk + t
  BY <1>5, <1>7, <1>8
<1>11. PICK u \in Nat : u = Back(Crossing(f, d), d)
  <2>1. PICK e \in Int : e = Crossing(f, d)
    BY <1>9
  <2>2. Back(e, d) \in Nat
    BY DEF Back
  <2>3. QED
    BY <2>1, <2>2
<1>12. PICK v : v = Back(EndOfChunk(k, d), d)
  OBVIOUS
<1>13. u = IF ef - rf < 0 THEN 0 ELSE ef - rf
  BY <1>9, <1>11 DEF Back
<1>14. FloorMillis(u) \in Nat /\ FloorMillis(u) <= u
  BY FloorMillisBounds
<1>15. CASE Crossing(k, d) = None
  <2>1. v = IF ek < d THEN 0 ELSE ek - d
    BY <1>8, <1>12, <1>15 DEF EndOfChunk, Back
  <2>2. v \in Nat /\ u <= v
    BY <2>1, <1>9, <1>13
  <2>3. FloorMillis(u) <= v
    BY <2>2, <1>14
  <2>4. QED
    BY <2>2, <2>3, <1>11, <1>12, FlooredIsWhole
<1>16. CASE Crossing(k, d) # None
  <2>1. rk >= d /\ Crossing(k, d) = ek - (rk - d)
    BY <1>5, <1>8, <1>16
  <2>2. v = IF ek - rk < 0 THEN 0 ELSE ek - rk
    BY <2>1, <1>12, <1>16 DEF EndOfChunk, Back
  <2>3. v \in Nat
    BY <2>2
  <2>4. FloorMillis(u) <= v
    <3>1. CASE qf = qk
      <4>1. a = b
        BY <3>1, <1>6, <1>7
      <4>2. ef - rf < a
        BY <4>1, <1>9, <1>10
      <4>3. CASE u = 0
        BY <4>3, <1>14, <2>3
      <4>4. CASE u # 0
        <5>1. PICK w \in Nat : w = t * (u \div t) /\ w = FloorMillis(u)
          BY <1>1, <1>14, FloorMillisBounds
        <5>2. PICK n \in Nat : n = u \div t
          BY Division
        <5>3. PICK m \in Nat : m = i * qf
          BY <1>2
        <5>4. a = t * m
          BY <5>3, <1>2, <1>6
        <5>5. w <= u /\ u < a
          BY <5>1, <4>2, <4>4, <1>13, <1>14
        <5>6. w + t <= a
          <6>1. SUFFICES ASSUME ~ (w + t <= a) PROVE FALSE
            OBVIOUS
          <6>2. w = t * n
            BY <5>1, <5>2
          <6>3. t * m + 0 <= t * n + (a - w) /\ a - w < t
            BY <6>1, <6>2, <5>4
          <6>4. m <= n
            <7>1. PICK y \in Int : y = a - w
              OBVIOUS
            <7>2. t * m + 0 <= t * n + y /\ y < t
              BY <6>3, <7>1
            <7>3. QED
              BY <7>2, Multiples
          <6>5. PICK e \in Nat : n = m + e
            BY <6>4
          <6>6. t * n = t * m + t * e /\ t * e \in Nat
            BY <6>5
          <6>7. QED
            BY <6>2, <6>6, <5>4, <5>5
        <5>7. QED
          BY <5>1, <5>6, <4>1, <2>2, <1>10, <1>1
      <4>5. QED
        BY <4>3, <4>4
    <3>2. CASE qf # qk
      <4>1. qf <= qk
        <5>1. d * qf + mf <= d * qk + mk
          BY <1>6, <1>7, <1>9, <1>10
        <5>2. QED
          BY <5>1, Multiples
      <4>2. PICK e \in Nat : qk = qf + 1 + e
        BY <4>1, <3>2
      <4>3. b = a + d + d * e /\ d * e \in Nat
        BY <4>2, <1>6, <1>7
      <4>4. b >= a + t
        BY <4>3, <1>3, <1>6, <1>7
      <4>5. u <= v
        BY <4>4, <2>2, <1>3, <1>9, <1>10, <1>13
      <4>6. QED
        BY <4>5, <2>3, <1>14
    <3>3. QED
      BY <3>1, <3>2
  <2>5. QED
    BY <2>3, <2>4, <1>11, <1>12, FlooredIsWhole
<1>17. QED
  BY <1>15, <1>16

-----------------------------------------------------------------------------
(* Which chunk a controller asks for, of either kind.                       *)

IsOfFunction(c) == c.kind = "function"

AsksAt(c, f) == IF IsOfFunction(c) THEN FnAsks(c, f) ELSE Asks(c, f)

PanicsAt(c, f) == IF IsOfFunction(c) THEN FnPanics(c, f) ELSE ConvertPanics(c, f.time)

StartAt(c, f) ==
    FloorMillis(IF IsOfFunction(c) THEN Crossing(f.time, c.interval) - c.interval
                ELSE ChunkStart(c, f))

(* The chunk that a controller asks for at a frame.                         *)
IsChunkBy(q, c, f) == q.start = StartAt(c, f) /\ q.who = c.who /\ q.ref = c.started

(* What is said of a chunk holds of what it is built to.                    *)
LEMMA BuiltIs ==
  ASSUME NEW q, {"start", "who", "ref", "area", "channels"} \subseteq DOMAIN q
  PROVE  Built(q).start = q.start /\ Built(q).who = q.who /\ Built(q).ref = q.ref
BY DEF Built

(* What a request is made of.                                               *)
LEMMA RequestIs ==
  ASSUME NEW x, NEW w, NEW r
  PROVE  LET q == WithIsRef(Request(x, w), r)
         IN  /\ {"start", "who", "ref", "area", "channels"} \subseteq DOMAIN q
             /\ q.start = FloorMillis(x) /\ q.who = w /\ q.ref = r
<1>1. PICK y : y = FloorMillis(x)
  OBVIOUS
<1>2. PICK p : /\ p = Request(x, w)
               /\ p = [start |-> y, who |-> w, ref |-> FALSE, area |-> None, channels |-> None]
  BY <1>1 DEF Request
<1>3. /\ p.start = y /\ p.who = w
      /\ {"start", "who", "ref", "area", "channels"} \subseteq DOMAIN p
  BY <1>2
<1>4. PICK q : q = [p EXCEPT !.ref = r]
  OBVIOUS
<1>5. /\ q.start = y /\ q.who = w /\ q.ref = r
      /\ {"start", "who", "ref", "area", "channels"} \subseteq DOMAIN q
  BY <1>3, <1>4
<1>6. WithIsRef(Request(x, w), r) = q
  BY <1>2, <1>4 DEF WithIsRef
<1>7. QED
  BY <1>1, <1>5, <1>6

(* get_chunk: the start, the signer, and whether it is a reference.         *)
LEMMA GetChunkIs ==
  ASSUME NEW c, NEW f
  PROVE  /\ Built(GetChunk(c, f)).start = FloorMillis(ChunkStart(c, f))
         /\ Built(GetChunk(c, f)).who = c.who /\ Built(GetChunk(c, f)).ref = c.started
<1>1. PICK x, w, r : x = ChunkStart(c, f) /\ w = c.who /\ r = c.started
  OBVIOUS
<1>2. PICK y : y = FloorMillis(x)
  OBVIOUS
<1> DEFINE Fits5(q) == /\ {"start", "who", "ref", "area", "channels"} \subseteq DOMAIN q
                      /\ q.start = y /\ q.who = w /\ q.ref = r
<1>3. PICK whole : whole = WithIsRef(Request(x, w), r)
  OBVIOUS
<1>4. Fits5(whole)
  BY <1>2, <1>3, RequestIs
<1>5. PICK part : part = IF c.area = None THEN whole ELSE WithEmbedding(whole, c.area)
  OBVIOUS
<1>6. Fits5(part)
  <2>1. CASE c.area = None
    BY <2>1, <1>4, <1>5
  <2>2. CASE c.area # None
    <3>1. part = [whole EXCEPT !.area = c.area]
      BY <2>2, <1>5 DEF WithEmbedding
    <3>2. QED
      BY <3>1, <1>4
  <2>3. QED
    BY <2>1, <2>2
<1>7. PICK q : q = IF c.channels = None THEN part ELSE WithChannels(part, c.channels)
  OBVIOUS
<1>8. Fits5(q)
  <2>1. CASE c.channels = None
    BY <2>1, <1>6, <1>7
  <2>2. CASE c.channels # None
    <3>1. q = [part EXCEPT !.channels = c.channels]
      BY <2>2, <1>7 DEF WithChannels
    <3>2. QED
      BY <3>1, <1>6
  <2>3. QED
    BY <2>1, <2>2
<1>9. GetChunk(c, f) = q
  BY <1>1, <1>3, <1>5, <1>7 DEF GetChunk, AsRef
<1>10. Built(q).start = y /\ Built(q).who = w /\ Built(q).ref = r
  BY <1>8, BuiltIs
<1>11. QED
  BY <1>1, <1>2, <1>9, <1>10

(* A session has one function, or controllers of the other kind.            *)
KindsOK(cs) == \A i \in DOMAIN cs : IsOfFunction(cs[i]) => DOMAIN cs = {1}

(* Of either kind, a chunk for each controller that asks, and nothing else. *)
LEMMA ChunksAre ==
  ASSUME NEW cs, NEW n \in Nat, DOMAIN cs = 1..n, KindsOK(cs),
         cs # <<>> => 1 \in DOMAIN cs, NEW f, ~ TurnPanics(cs, f)
  PROVE  /\ \A k \in DOMAIN Chunks(cs, f) : \E i \in 1..n :
               /\ AsksAt(cs[i], f) /\ ~ PanicsAt(cs[i], f)
               /\ IsChunkBy(Built(Chunks(cs, f)[k]), cs[i], f)
         /\ \A i \in 1..n : AsksAt(cs[i], f) =>
               /\ ~ PanicsAt(cs[i], f)
               /\ \E k \in DOMAIN Chunks(cs, f) : IsChunkBy(Built(Chunks(cs, f)[k]), cs[i], f)
<1>1. CASE IsFunction(cs)
  <2>1. cs[1].kind = "function" /\ cs # <<>>
    BY <1>1 DEF IsFunction
  <2>2. n = 1
    <3>1. 1 \in DOMAIN cs
      BY <2>1
    <3>2. DOMAIN cs = {1}
      BY <3>1, <2>1 DEF KindsOK, IsOfFunction
    <3>3. n \in {1}
      BY <3>1, <3>2
    <3>4. QED
      BY <3>3
  <2>3. PICK c : c = cs[1]
    OBVIOUS
  <2>4. IsOfFunction(c) /\ ~ FnPanics(c, f)
    <3>1. 1 \in DOMAIN cs
      BY <2>2
    <3>2. QED
      BY <3>1, <2>1, <2>3, <1>1 DEF IsOfFunction, TurnPanics
  <2>5. AsksAt(c, f) = FnAsks(c, f) /\ ~ PanicsAt(c, f)
    BY <2>4 DEF AsksAt, PanicsAt
  <2>6. \A i \in 1..n : i = 1
    BY <2>2
  <2>7. CASE ~ FnAsks(c, f)
    <3>1. Chunks(cs, f) = <<>>
      BY <1>1, <2>3, <2>7 DEF Chunks, FnChunks
    <3>2. QED
      BY <3>1, <2>3, <2>5, <2>6, <2>7
  <2>8. CASE FnAsks(c, f)
    <3>1. PICK x, w, r : x = Crossing(f.time, c.interval) - c.interval /\ w = c.who /\ r = c.started
      OBVIOUS
    <3>2. PICK q : q = WithIsRef(Request(x, w), r)
      OBVIOUS
    <3>3. Chunks(cs, f) = << q >>
      BY <1>1, <2>3, <2>8, <3>1, <3>2 DEF Chunks, FnChunks
    <3>4. /\ {"start", "who", "ref", "area", "channels"} \subseteq DOMAIN q
          /\ q.start = FloorMillis(x) /\ q.who = w /\ q.ref = r
      BY <3>2, RequestIs
    <3>5. Built(q).start = q.start /\ Built(q).who = q.who /\ Built(q).ref = q.ref
      BY <3>4, BuiltIs
    <3>6. StartAt(c, f) = FloorMillis(x)
      BY <2>4, <3>1 DEF StartAt
    <3>7. IsChunkBy(Built(q), c, f)
      BY <3>1, <3>4, <3>5, <3>6 DEF IsChunkBy
    <3>8. PICK g : g = Chunks(cs, f) /\ DOMAIN g = {1} /\ g[1] = q
      BY <3>3
    <3>9. ASSUME NEW k \in DOMAIN g
          PROVE  k = 1 /\ g[k] = q
      BY <3>8
    <3>10. 1 \in 1..n /\ 1 \in DOMAIN g
      BY <3>8, <2>2
    <3>11. ASSUME NEW k \in DOMAIN g
           PROVE  \E i \in 1..n : /\ AsksAt(cs[i], f) /\ ~ PanicsAt(cs[i], f)
                                  /\ IsChunkBy(Built(g[k]), cs[i], f)
      BY <3>7, <3>9, <3>10, <2>3, <2>5, <2>8
    <3>12. ASSUME NEW i \in 1..n
           PROVE  ~ PanicsAt(cs[i], f) /\ \E k \in DOMAIN g : IsChunkBy(Built(g[k]), cs[i], f)
      <4>1. cs[i] = c /\ g[1] = q
        BY <2>3, <2>6, <3>8
      <4>2. QED
        BY <4>1, <3>7, <3>10, <2>5
    <3>13. QED
      BY <3>8, <3>11, <3>12
  <2>9. QED
    BY <2>7, <2>8
<1>2. CASE ~ IsFunction(cs)
  <2>1. ASSUME NEW i \in 1..n
        PROVE  ~ IsOfFunction(cs[i])
    <3>1. SUFFICES ASSUME IsOfFunction(cs[i]) PROVE FALSE
      OBVIOUS
    <3>2. DOMAIN cs = {1} /\ i \in DOMAIN cs
      BY <3>1 DEF KindsOK
    <3>3. i = 1 /\ cs # <<>>
      <4>1. DOMAIN <<>> = {}
        OBVIOUS
      <4>2. QED
        BY <4>1, <3>2
    <3>4. QED
      BY <3>1, <3>3, <1>2 DEF IsFunction, IsOfFunction
  <2>2. ASSUME NEW i \in 1..n
        PROVE  /\ AsksAt(cs[i], f) = Asks(cs[i], f) /\ ~ PanicsAt(cs[i], f)
               /\ IsChunkBy(Built(GetChunk(cs[i], f)), cs[i], f)
    <3>1. PICK c : c = cs[i] /\ ~ IsOfFunction(c)
      BY <2>1
    <3>2. ~ ConvertPanics(c, f.time)
      BY <3>1, <1>2 DEF TurnPanics
    <3>3. StartAt(c, f) = FloorMillis(ChunkStart(c, f))
      BY <3>1 DEF StartAt
    <3>4. IsChunkBy(Built(GetChunk(c, f)), c, f)
      BY <3>3, GetChunkIs DEF IsChunkBy
    <3>5. QED
      BY <3>1, <3>2, <3>4 DEF AsksAt, PanicsAt
  <2>3. PICK g : g = GetChunks(cs, f)
    OBVIOUS
  <2>4. /\ \A k \in DOMAIN g : \E i \in 1..n : Asks(cs[i], f) /\ g[k] = GetChunk(cs[i], f)
        /\ \A i \in 1..n : Asks(cs[i], f) => \E k \in DOMAIN g : g[k] = GetChunk(cs[i], f)
    BY <2>3, GetChunksAre
  <2>5. Chunks(cs, f) = g
    BY <1>2, <2>3 DEF Chunks
  <2>6. QED
    BY <2>2, <2>4, <2>5
<1>3. QED
  BY <1>1, <1>2

(* Whether a controller has asked before says nothing of when it asks.      *)
LEMMA SameAsks ==
  ASSUME NEW c, NEW d, d.kind = c.kind, d.interval = c.interval, d.range = c.range, NEW f
  PROVE  /\ AsksAt(d, f) = AsksAt(c, f) /\ PanicsAt(d, f) = PanicsAt(c, f)
         /\ StartAt(d, f) = StartAt(c, f)
<1>1. IsOfFunction(d) = IsOfFunction(c)
  BY DEF IsOfFunction
<1>2. InRange(d, f.time) = InRange(c, f.time) /\ Converted(d, f.time) = Converted(c, f.time)
  BY DEF InRange, Converted
<1>3. AsksAt(d, f) = AsksAt(c, f)
  BY <1>1, <1>2 DEF AsksAt, FnAsks, Asks
<1>4. PanicsAt(d, f) = PanicsAt(c, f)
  <2>1. FnPanics(d, f) = FnPanics(c, f)
    BY DEF FnPanics, FnAsks
  <2>2. QED
    BY <2>1, <1>1, <1>2 DEF PanicsAt, ConvertPanics
<1>5. StartAt(d, f) = StartAt(c, f)
  <2>1. ChunkStart(d, f) = ChunkStart(c, f)
    BY <1>2 DEF ChunkStart
  <2>2. QED
    BY <2>1, <1>1 DEF StartAt
<1>6. QED
  BY <1>3, <1>4, <1>5

(* The times of a frame, and that another starts when it ends or later.     *)
LEMMA FramesFollow ==
  ASSUME NEW j \in Jobs, NEW f \in Nat \ {0}, NEW k \in Nat \ {0}, f < k
  PROVE  /\ FrameState(j, f).time.end <= FrameState(j, k).time.start
         /\ MillisecondFrames(j.rate) =>
               /\ FrameState(j, f).time.start + Tick <= FrameState(j, f).time.end
               /\ FrameState(j, f).time.end + Tick <= FrameState(j, k).time.end
<1>1. PICK s \in Nat \ {0} : s = SecondsOf(j.rate)
  BY JobTypes, SecondsOfType
<1>2. PICK r \in Nat \ {0} : r = j.rate.frames
  BY JobTypes, SecondsOfType
<1>3. PICK l \in Nat : l = FrameLength(j) /\ l = s \div r
  BY <1>1, <1>2, Division DEF FrameLength, FloorDiv
<1>4. PICK o \in Nat : o = j.offset
  BY JobTypes
<1>5. IsRate(j.rate) /\ f - 1 \in Nat /\ k - 1 \in Nat
  BY JobTypes
<1>6. PICK a \in Nat : a = Pts(j.rate, f - 1)
  BY <1>5, PtsAtLeast
<1>7. PICK b \in Nat : b = Pts(j.rate, k - 1)
  BY <1>5, PtsAtLeast
<1>8. /\ FrameState(j, f).time = [start |-> o + a, end |-> o + a + l]
      /\ FrameState(j, k).time = [start |-> o + b, end |-> o + b + l]
  BY <1>3, <1>4, <1>6, <1>7 DEF FrameState, Span
<1>9. l * r <= s
  BY <1>3, AtMostQuotient
<1>10. a + l <= b
  <2>1. a * r <= (f - 1) * s
    BY <1>1, <1>2, <1>5, <1>6, PtsAtLeast
  <2>2. PICK e \in Nat : k - 1 = (f - 1) + 1 + e
    <3>1. k - 1 - f \in Nat /\ k - 1 = (f - 1) + 1 + (k - 1 - f)
      OBVIOUS
    <3>2. QED
      BY <3>1
  <2>3. PICK g \in Nat : g = f - 1
    BY <1>5
  <2>4. (a + l) * r = a * r + l * r
    OBVIOUS
  <2>5. (g + 1 + e) * s = g * s + s + e * s /\ e * s \in Nat
    OBVIOUS
  <2>6. (a + l) * r <= (k - 1) * s
    BY <2>1, <2>2, <2>3, <2>4, <2>5, <1>9
  <2>7. a + l \in Nat
    OBVIOUS
  <2>8. QED
    BY <2>6, <2>7, <1>1, <1>2, <1>5, <1>7, PtsAtLeast
<1>11. ASSUME MillisecondFrames(j.rate)
       PROVE  Tick <= l
  <2>1. PICK t \in Nat \ {0} : t = Tick
    BY TimeAssumption
  <2>2. t * r <= s
    BY <1>1, <1>2, <1>11, <2>1 DEF MillisecondFrames
  <2>3. t <= s \div r
    BY <2>2, AtMostQuotient
  <2>4. QED
    BY <2>1, <2>3, <1>3
<1>12. Tick \in Nat \ {0}
  BY TimeAssumption
<1>13. QED
  BY <1>8, <1>10, <1>11, <1>12

(* A range with a start passes only for the frame that starts there.        *)
LEMMA RangedAsksOnce ==
  ASSUME NEW c, IsController(c), c.range # None, NEW t, t.start \in Nat, t.end \in Nat,
         InRange(c, t), ~ ConvertPanics(c, t)
  PROVE  t.start = c.range.start
<1>1. PICK x \in Nat : x = c.range.start
  BY DEF IsController
<1>2. ~ (t.start < x)
  BY <1>1 DEF ConvertPanics
<1>3. Compare(t, x) \in {"Equal", "Greater"}
  BY <1>1 DEF InRange
<1>4. t.start <= x
  BY <1>3 DEF Compare, Includes
<1>5. QED
  BY <1>1, <1>2, <1>4

(* A controller's chunks start one no earlier than the other.               *)
LEMMA StartsInOrder ==
  ASSUME NEW j \in Jobs, MillisecondFrames(j.rate),
         NEW c, IsController(c), c.interval % Tick = 0,
         NEW f \in 1..j.frames, NEW k \in 1..j.frames, f < k,
         AsksAt(c, FrameState(j, f)), ~ PanicsAt(c, FrameState(j, f)),
         AsksAt(c, FrameState(j, k)), ~ PanicsAt(c, FrameState(j, k))
  PROVE  StartAt(c, FrameState(j, f)) <= StartAt(c, FrameState(j, k))
<1>0. j.frames \in Nat \ {0}
  BY JobTypes
<1>1. f \in Nat \ {0} /\ k \in Nat \ {0} /\ f # j.frames
  BY <1>0
<1>2. PICK x, y : x = FrameState(j, f) /\ y = FrameState(j, k)
  OBVIOUS
<1>3. /\ x.time.start \in Nat /\ x.time.end \in Nat /\ x.time.start <= x.time.end
      /\ y.time.start \in Nat /\ y.time.end \in Nat /\ y.time.start <= y.time.end
  BY <1>1, <1>2, FrameTimes
<1>4. x.time.end <= y.time.start /\ x.time.start + Tick <= x.time.end
  BY <1>1, <1>2, FramesFollow
<1>5. PICK d \in Nat \ {0} : d = c.interval /\ d % Tick = 0
  BY DEF IsController
<1>6. PICK s, t : s = x.time /\ t = y.time
  OBVIOUS
<1>7. Crossing(s, d) # None
      => FloorMillis(Back(Crossing(s, d), d)) <= FloorMillis(Back(EndOfChunk(t, d), d))
  BY <1>3, <1>4, <1>5, <1>6, ChunksInOrder
<1>8. CASE IsOfFunction(c)
  <2>1. /\ Crossing(s, d) # None /\ ~ (Crossing(s, d) < d)
        /\ Crossing(t, d) # None /\ ~ (Crossing(t, d) < d)
    BY <1>2, <1>5, <1>6, <1>8 DEF AsksAt, PanicsAt, FnPanics, FnAsks
  <2>2. Back(Crossing(s, d), d) = Crossing(s, d) - d
    BY <2>1 DEF Back
  <2>3. Back(EndOfChunk(t, d), d) = Crossing(t, d) - d
    BY <2>1 DEF Back, EndOfChunk
  <2>4. /\ StartAt(c, x) = FloorMillis(Crossing(s, d) - d)
        /\ StartAt(c, y) = FloorMillis(Crossing(t, d) - d)
    BY <1>5, <1>6, <1>8 DEF StartAt
  <2>5. QED
    BY <2>1, <2>2, <2>3, <2>4, <1>2, <1>7
<1>9. CASE ~ IsOfFunction(c)
  <2>1. /\ Asks(c, x) /\ ~ ConvertPanics(c, s) /\ Asks(c, y) /\ ~ ConvertPanics(c, t)
    BY <1>2, <1>6, <1>9 DEF AsksAt, PanicsAt
  <2>2. CASE c.range = None
    <3>1. /\ StartAt(c, x) = FloorMillis(ChunkStart(c, x))
          /\ StartAt(c, y) = FloorMillis(ChunkStart(c, y))
      BY <1>9 DEF StartAt
    <3>2. /\ ChunkStart(c, x) = Back(EndOfChunk(s, d), d)
          /\ ChunkStart(c, y) = Back(EndOfChunk(t, d), d)
      BY <2>2, <1>5, <1>6 DEF ChunkStart, Converted, Back, EndOfChunk
    <3>3. ~ x.last
      BY <1>1, <1>2 DEF FrameState
    <3>4. Crossing(s, d) # None
      BY <2>1, <2>2, <3>3, <1>5, <1>6 DEF Asks, Converted
    <3>5. EndOfChunk(s, d) = Crossing(s, d)
      BY <3>4 DEF EndOfChunk
    <3>6. QED
      BY <3>1, <3>2, <3>4, <3>5, <1>2, <1>7
  <2>3. CASE c.range # None
    <3>1. InRange(c, s) /\ InRange(c, t)
      BY <2>1, <1>6 DEF Asks
    <3>2. s.start = c.range.start /\ t.start = c.range.start
      <4>1. s.start \in Nat /\ s.end \in Nat /\ t.start \in Nat /\ t.end \in Nat
        BY <1>3, <1>6
      <4>2. QED
        BY <4>1, <2>1, <2>3, <3>1, RangedAsksOnce
    <3>3. s.start < t.start
      BY <1>3, <1>4, <1>6, TimeAssumption
    <3>4. QED
      BY <1>3, <1>6, <3>2, <3>3
  <2>4. QED
    BY <2>2, <2>3
<1>10. QED
  BY <1>8, <1>9

-----------------------------------------------------------------------------
(* References stand behind what they refer to.                              *)

(* At most a frame per millisecond, and intervals of whole milliseconds.    *)
WholeMillisJobs ==
    \A j \in Jobs :
        /\ MillisecondFrames(j.rate)
        /\ \A i \in DOMAIN j.controllers : j.controllers[i].interval % Tick = 0

ControllersWhole ==
    /\ KindsOK(ctrls)
    /\ \A i \in DOMAIN ctrls :
          ctrls[i].interval % Tick = 0 /\ ctrls[i].started \in BOOLEAN

(* The m-th chunk asked for is a definition, asked for by c at frame f.     *)
DefinedBy(c, m, f) ==
    /\ asked[m].frame = f /\ asked[m].chunk.who = c.who /\ ~ asked[m].chunk.ref
    /\ AsksAt(c, FrameState(job, f)) /\ ~ PanicsAt(c, FrameState(job, f))
    /\ asked[m].chunk.start = StartAt(c, FrameState(job, f))

StartedDefined ==
    \A i \in DOMAIN ctrls : ctrls[i].started =>
        \E m \in DOMAIN asked, f \in 1..taken : DefinedBy(ctrls[i], m, f)

(* The signer's GUI is past its first chunk when it has a last signature.   *)
GuiDefined ==
    job.app /\ lastSign # 0 =>
        \E m \in DOMAIN asked :
            asked[m].chunk.who = "alice" /\ ~ asked[m].chunk.ref /\ asked[m].chunk.start = 0

(* Chunk m is the definition that chunk n can refer to.                     *)
Refers(n, m) ==
    /\ asked[m].chunk.who = asked[n].chunk.who /\ ~ asked[m].chunk.ref
    /\ asked[m].chunk.start <= asked[n].chunk.start /\ asked[m].frame < asked[n].frame

ReferencesOK ==
    \A n \in DOMAIN asked : asked[n].chunk.ref => \E m \in DOMAIN asked : Refers(n, m)

(* The reader is done when everything is answered, and nothing is asked for *)
(* any more.                                                                *)
ReaderOK == reader = "collected" => pending = {} /\ thread \in {"ended", "panicked"}

DefinedInv == ControllersWhole /\ StartedDefined /\ GuiDefined /\ ReferencesOK /\ ReaderOK

(* What was asked for before stays defined.                                 *)
LEMMA DefinedByStays ==
  ASSUME UNCHANGED job, NEW c, NEW m, NEW f, asked'[m] = asked[m], DefinedBy(c, m, f)
  PROVE  DefinedBy(c, m, f)'
BY DEF DefinedBy

(* What a chunk could refer to before, it still can.                        *)
LEMMA RefersStays ==
  ASSUME NEW n, NEW m, asked'[m] = asked[m], asked'[n] = asked[n], Refers(n, m)
  PROVE  Refers(n, m)'
BY DEF Refers

(* A session starts with controllers that have not asked.                   *)
LEMMA NewSessionDefined ==
  ASSUME NEW j \in Jobs, WholeMillisJobs
  PROVE  /\ KindsOK(j.controllers)
         /\ \A i \in DOMAIN j.controllers :
               /\ j.controllers[i].interval % Tick = 0
               /\ j.controllers[i].started = FALSE
<1>1. IsJob(j)
  BY SessionAssumption
<1>2. PICK cs : cs = j.controllers
  OBVIOUS
<1>3. /\ cs \in Seq(ToSet(cs))
      /\ \A i \in DOMAIN cs : IsNewController(cs[i]) /\ (cs[i].kind = "function" => Len(cs) = 1)
  BY <1>1, <1>2 DEF IsJob
<1>4. KindsOK(cs)
  <2>1. DOMAIN cs = 1..Len(cs)
    BY <1>3
  <2>2. QED
    BY <2>1, <1>3 DEF KindsOK, IsOfFunction
<1>5. ASSUME NEW i \in DOMAIN cs
      PROVE  cs[i].started = FALSE
  <2>1. PICK c : c = cs[i] /\ IsNewController(c)
    BY <1>3
  <2>2. PICK w, d, r, a, h : w = c.who /\ d = c.interval /\ r = c.range /\ a = c.area /\ h = c.channels
    OBVIOUS
  <2>3. \/ c = FnMutController(w, d)
        \/ c = [IntervalController(w, d) EXCEPT !.range = r, !.area = a, !.channels = h]
    BY <2>1, <2>2 DEF IsNewController
  <2>4. c.started = FALSE
    <3>1. CASE c = FnMutController(w, d)
      BY <3>1 DEF FnMutController
    <3>2. CASE c = [IntervalController(w, d) EXCEPT !.range = r, !.area = a, !.channels = h]
      <4>1. PICK b : /\ b = IntervalController(w, d)
                     /\ b = [kind |-> "interval", who |-> w, interval |-> d, range |-> None,
                             area |-> None, channels |-> None, started |-> FALSE]
        BY DEF IntervalController
      <4>2. b.started = FALSE /\ DOMAIN b = {"kind", "who", "interval", "range", "area", "channels", "started"}
        BY <4>1
      <4>3. c = [b EXCEPT !.range = r, !.area = a, !.channels = h]
        BY <3>2, <4>1
      <4>4. QED
        BY <4>2, <4>3
    <3>3. QED
      BY <2>3, <3>1, <3>2
  <2>5. QED
    BY <2>1, <2>4
<1>6. QED
  BY <1>2, <1>4, <1>5 DEF WholeMillisJobs

(* Steps that ask for nothing.                                              *)
LEMMA DefinedUnchanged ==
  ASSUME DefinedInv, UNCHANGED <<job, ctrls, asked, lastSign>>, taken' \in {taken, taken + 1},
         SessionInv, ReaderOK'
  PROVE  DefinedInv'
<1>1. job \in Jobs /\ taken \in Nat
  BY NewControllers DEF SessionInv
<1>2. ControllersWhole' /\ GuiDefined' /\ ReferencesOK'
  BY DEF DefinedInv, ControllersWhole, GuiDefined, ReferencesOK, Refers
<1>3. StartedDefined'
  <2>1. ASSUME NEW i \in DOMAIN ctrls, ctrls[i].started
        PROVE  \E m \in DOMAIN asked, f \in 1..(taken') : DefinedBy(ctrls[i], m, f)'
    <3>1. PICK m \in DOMAIN asked, f \in 1..taken : DefinedBy(ctrls[i], m, f)
      BY <2>1 DEF DefinedInv, StartedDefined
    <3>2. f \in 1..(taken')
      BY <1>1
    <3>3. DefinedBy(ctrls[i], m, f)'
      BY <3>1 DEF DefinedBy
    <3>4. QED
      BY <3>2, <3>3
  <2>2. QED
    BY <2>1 DEF StartedDefined
<1>4. QED
  BY <1>2, <1>3 DEF DefinedInv

(* Every chunk of a frame is asked for.                                     *)
LEMMA AskForAll ==
  ASSUME SessionInv, NEW chunks, chunks \in Seq(ToSet(chunks)), NEW k \in Nat,
         AskFor(chunks, k)
  PROVE  /\ DOMAIN asked \subseteq DOMAIN asked'
         /\ \A m \in DOMAIN asked : asked'[m] = asked[m]
         /\ \A m \in DOMAIN asked' \ DOMAIN asked : \E h \in DOMAIN chunks :
               asked'[m] = [chunk |-> Built(chunks[h]), frame |-> k]
         /\ \A h \in DOMAIN chunks : \E m \in DOMAIN asked' \ DOMAIN asked :
               asked'[m] = [chunk |-> Built(chunks[h]), frame |-> k]
<1>1. /\ DOMAIN asked' = DOMAIN asked \cup (Len(asked) + 1)..(Len(asked) + Len(chunks))
      /\ \A n \in DOMAIN asked : asked'[n] = asked[n]
      /\ \A n \in DOMAIN asked' \ DOMAIN asked : \E i \in DOMAIN chunks :
            asked'[n] = [chunk |-> Built(chunks[i]), frame |-> k]
  <2>1. /\ asked' \in Seq(ToSet(asked'))
        /\ DOMAIN asked' = DOMAIN asked \cup (Len(asked) + 1)..(Len(asked) + Len(chunks))
        /\ DOMAIN asked = 1..Len(asked) /\ Len(asked) \in Nat /\ Len(chunks) \in Nat
        /\ \A n \in DOMAIN asked : asked'[n] = asked[n]
        /\ \A n \in DOMAIN asked' \ DOMAIN asked : \E i \in DOMAIN chunks :
              asked'[n] = [chunk |-> Built(chunks[i]), frame |-> k]
        /\ pending' = pending \cup (Len(asked) + 1)..(Len(asked) + Len(chunks))
    BY AskForAppends
  <2>2. QED
    BY <2>1, Zenon
<1>2. PICK u : u = [ i \in DOMAIN chunks |-> [chunk |-> Built(chunks[i]), frame |-> k] ]
  OBVIOUS
<1>3. asked' = asked \o u
  BY <1>2 DEF AskFor
<1>4. PICK m \in Nat : m = Len(chunks) /\ DOMAIN chunks = 1..m
  OBVIOUS
<1>5. /\ DOMAIN u = 1..m /\ Len(u) = m /\ u \in Seq(ToSet(u))
      /\ \A i \in 1..m : u[i] = [chunk |-> Built(chunks[i]), frame |-> k]
  BY <1>2, <1>4 DEF ToSet
<1>6. PICK s : s = asked /\ s \in Seq(ToSet(s))
  BY DEF SessionInv, AskedOK
<1>7. /\ s \o u \in Seq(ToSet(s \o u)) /\ Len(s) \in Nat /\ Len(u) \in Nat
      /\ DOMAIN s = 1..Len(s) /\ DOMAIN u = 1..Len(u)
      /\ DOMAIN (s \o u) = 1..(Len(s) + Len(u))
      /\ \A i \in 1..Len(s) : (s \o u)[i] = s[i]
      /\ \A i \in 1..Len(u) : (s \o u)[Len(s) + i] = u[i]
  <2>1. s \in Seq(ToSet(s)) /\ u \in Seq(ToSet(u))
    BY <1>5, <1>6
  <2>2. QED
    BY <2>1, BehindAny
<1>8. PICK l \in Nat : l = Len(s)
  BY <1>7
<1>9. ASSUME NEW h \in DOMAIN chunks
      PROVE  \E x \in DOMAIN asked' \ DOMAIN asked :
                asked'[x] = [chunk |-> Built(chunks[h]), frame |-> k]
  <2>1. h \in 1..m
    BY <1>4
  <2>2. l + h \in 1..(l + m) /\ l + h \notin 1..l
    BY <2>1, <1>4, <1>8
  <2>3. asked'[l + h] = u[h]
    BY <2>1, <1>3, <1>5, <1>6, <1>7, <1>8
  <2>4. DOMAIN asked' = 1..(l + m) /\ DOMAIN asked = 1..l
    BY <1>3, <1>5, <1>6, <1>7, <1>8
  <2>5. QED
    BY <2>1, <2>2, <2>3, <2>4, <1>5
<1>10. QED
  BY <1>1, <1>9

(* All controllers of a session are of one kind.                            *)
LEMMA KindsAgree ==
  ASSUME NEW cs, NEW n \in Nat, DOMAIN cs = 1..n, KindsOK(cs), NEW i \in 1..n
  PROVE  IsFunction(cs) <=> IsOfFunction(cs[i])
<1>1. ASSUME IsOfFunction(cs[i])
      PROVE  IsFunction(cs)
  <2>1. DOMAIN cs = {1} /\ i \in DOMAIN cs
    BY <1>1 DEF KindsOK
  <2>2. i = 1 /\ cs # <<>>
    <3>1. DOMAIN <<>> = {}
      OBVIOUS
    <3>2. QED
      BY <2>1, <3>1
  <2>3. QED
    BY <1>1, <2>2 DEF IsFunction, IsOfFunction
<1>2. ASSUME IsFunction(cs)
      PROVE  IsOfFunction(cs[i])
  <2>1. cs[1].kind = "function" /\ 1 \in DOMAIN cs
    BY <1>2 DEF IsFunction
  <2>2. DOMAIN cs = {1}
    BY <2>1 DEF KindsOK, IsOfFunction
  <2>3. i = 1
    BY <2>2
  <2>4. QED
    BY <2>1, <2>3 DEF IsOfFunction
<1>3. QED
  BY <1>1, <1>2

(* A turn of sign_with_thread.                                              *)
LEMMA DefinedAskControllers ==
  ASSUME SessionInv, DefinedInv, WholeMillisJobs, AskControllers, UNCHANGED lastSign
  PROVE  DefinedInv'
<1>1. /\ ~ job.app /\ taken < job.frames /\ taken' = taken + 1 /\ thread = "running"
      /\ UNCHANGED <<job, reader>>
  BY DEF AskControllers, NextFrameReady
<1>2. /\ job \in Jobs /\ taken \in Nat /\ job.frames \in Nat \ {0}
      /\ MillisecondFrames(job.rate)
  BY NewControllers DEF SessionInv, WholeMillisJobs
<1>3. PICK k \in Nat \ {0} : k = taken + 1
  BY <1>2
<1>4. PICK f : f = FrameState(job, k)
  OBVIOUS
<1>5. \/ thread' = "panicked" /\ UNCHANGED <<ctrls, asked, pending>>
      \/ /\ ~ TurnPanics(ctrls, f) /\ AskFor(Chunks(ctrls, f), k)
         /\ ctrls' = AfterTurn(ctrls, f) /\ UNCHANGED thread
  BY <1>3, <1>4 DEF AskControllers
<1>6. ReaderOK'
  BY <1>1 DEF DefinedInv, ReaderOK
<1>7. CASE thread' = "panicked" /\ UNCHANGED <<ctrls, asked, pending>>
  BY <1>1, <1>6, <1>7, DefinedUnchanged
<1>8. CASE /\ ~ TurnPanics(ctrls, f) /\ AskFor(Chunks(ctrls, f), k)
           /\ ctrls' = AfterTurn(ctrls, f) /\ UNCHANGED thread
  <2>1. PICK n \in Nat : DOMAIN ctrls = 1..n
    BY DEF SessionInv, ControllersOK
  <2>2. PICK cs : cs = ctrls
    OBVIOUS
  <2>3. PICK chunks : chunks = Chunks(cs, f)
    OBVIOUS
  <2>4. /\ DOMAIN cs = 1..n /\ KindsOK(cs) /\ (cs # <<>> => 1 \in DOMAIN cs)
        /\ \A i \in 1..n : IsController(cs[i]) /\ cs[i].interval % Tick = 0 /\ cs[i].started \in BOOLEAN
    BY <2>1, <2>2 DEF SessionInv, ControllersOK, DefinedInv, ControllersWhole
  <2>5. f.time.start \in Int /\ f.time.end \in Int
    BY <1>2, <1>4, FrameTimes
  <2>6. chunks \in Seq(ToSet(chunks))
    BY <2>3, <2>4, <2>5, ChunksType
  <2>7. /\ \A h \in DOMAIN chunks : \E i \in 1..n :
              /\ AsksAt(cs[i], f) /\ ~ PanicsAt(cs[i], f) /\ IsChunkBy(Built(chunks[h]), cs[i], f)
        /\ \A i \in 1..n : AsksAt(cs[i], f) =>
              /\ ~ PanicsAt(cs[i], f)
              /\ \E h \in DOMAIN chunks : IsChunkBy(Built(chunks[h]), cs[i], f)
    BY <1>8, <2>2, <2>3, <2>4, ChunksAre
  <2>8. AskFor(chunks, k)
    BY <1>8, <2>2, <2>3
  <2>9. /\ DOMAIN asked \subseteq DOMAIN asked'
        /\ \A m \in DOMAIN asked : asked'[m] = asked[m]
        /\ \A m \in DOMAIN asked' \ DOMAIN asked : \E h \in DOMAIN chunks :
              asked'[m] = [chunk |-> Built(chunks[h]), frame |-> k]
        /\ \A h \in DOMAIN chunks : \E m \in DOMAIN asked' :
              asked'[m] = [chunk |-> Built(chunks[h]), frame |-> k]
    BY <2>6, <2>8, AskForAll
  <2>10. \A m \in DOMAIN asked : asked[m].frame \in 1..taken
    BY DEF SessionInv, AskedOK
  <2>11. ASSUME NEW i \in 1..n
         PROVE  /\ i \in DOMAIN ctrls' /\ ctrls'[i].kind = cs[i].kind
                /\ ctrls'[i].who = cs[i].who /\ ctrls'[i].interval = cs[i].interval
                /\ ctrls'[i].range = cs[i].range
                /\ ctrls'[i].started = (cs[i].started \/ AsksAt(cs[i], f))
    <3>1. PICK c : c = cs[i] /\ IsController(c)
      BY <2>4
    <3>2. PICK b : b = (c.started \/ AsksAt(c, f))
      OBVIOUS
    <3>3. ctrls'[i] = [c EXCEPT !.started = b]
      <4>1. IsFunction(cs) <=> IsOfFunction(c)
        BY <2>4, <3>1, KindsAgree
      <4>2. ctrls'[i] = IF IsFunction(cs) THEN FnAfterFrame(c, f) ELSE AfterFrame(c, f)
        BY <1>8, <2>2, <2>4, <3>1 DEF AfterTurn
      <4>3. CASE IsOfFunction(c)
        BY <3>2, <4>1, <4>2, <4>3 DEF FnAfterFrame, AsksAt
      <4>4. CASE ~ IsOfFunction(c)
        BY <3>2, <4>1, <4>2, <4>4 DEF AfterFrame, AsksAt
      <4>5. QED
        BY <4>3, <4>4
    <3>4. PICK d : d = [c EXCEPT !.started = b]
      OBVIOUS
    <3>5. {"kind", "who", "interval", "range", "started"} \subseteq DOMAIN c
      BY <3>1 DEF IsController
    <3>6. /\ d.kind = c.kind /\ d.who = c.who /\ d.interval = c.interval
          /\ d.range = c.range /\ d.started = b
      BY <3>4, <3>5
    <3>7. i \in DOMAIN ctrls'
      BY <1>8, <2>2, <2>4 DEF AfterTurn
    <3>8. QED
      BY <3>1, <3>2, <3>3, <3>4, <3>6, <3>7
  <2>12. DOMAIN ctrls' = 1..n
    BY <1>8, <2>1 DEF AfterTurn
  <2>13. ControllersWhole'
    <3>1. KindsOK(ctrls')
      BY <2>4, <2>11, <2>12 DEF KindsOK, IsOfFunction
    <3>2. ASSUME NEW i \in 1..n
          PROVE  ctrls'[i].interval % Tick = 0 /\ ctrls'[i].started \in BOOLEAN
      <4>1. cs[i].interval % Tick = 0
        BY <2>4
      <4>2. (cs[i].started \/ AsksAt(cs[i], f)) \in BOOLEAN
        OBVIOUS
      <4>3. QED
        BY <4>1, <4>2, <2>11
    <3>3. QED
      BY <3>1, <3>2, <2>12 DEF ControllersWhole
  <2>14. StartedDefined'
    <3>1. SUFFICES ASSUME NEW i \in 1..n, ctrls'[i].started
                   PROVE  (\E m \in DOMAIN asked, g \in 1..taken : DefinedBy(ctrls[i], m, g))'
      BY <2>12 DEF StartedDefined
    <3>2. PICK c, d : c = cs[i] /\ d = ctrls'[i]
      OBVIOUS
    <3>3. /\ d.kind = c.kind /\ d.who = c.who /\ d.interval = c.interval
          /\ d.range = c.range /\ (c.started \/ AsksAt(c, f))
      BY <2>11, <3>1, <3>2
    <3>4. CASE c.started
      <4>1. PICK m \in DOMAIN asked, g \in 1..taken : DefinedBy(c, m, g)
        BY <2>1, <2>2, <3>2, <3>4 DEF DefinedInv, StartedDefined
      <4>2. g \in 1..k /\ m \in DOMAIN asked' /\ asked'[m] = asked[m]
        BY <1>2, <1>3, <2>9
      <4>3. DefinedBy(d, m, g)'
        BY <4>1, <4>2, <3>3, <1>1, SameAsks DEF DefinedBy
      <4>4. DefinedBy(ctrls[i], m, g)'
        BY <4>3, <3>2 DEF DefinedBy
      <4>5. QED
        BY <4>2, <4>4, <1>1, <1>3
    <3>5. CASE ~ c.started
      <4>1. AsksAt(c, f)
        BY <3>3, <3>5
      <4>2. PICK h \in DOMAIN chunks : IsChunkBy(Built(chunks[h]), c, f) /\ ~ PanicsAt(c, f)
        BY <4>1, <2>7, <3>2
      <4>3. PICK m \in DOMAIN asked' : asked'[m] = [chunk |-> Built(chunks[h]), frame |-> k]
        BY <2>9
      <4>4. /\ asked'[m].frame = k /\ asked'[m].chunk.who = c.who /\ ~ asked'[m].chunk.ref
            /\ asked'[m].chunk.start = StartAt(c, f)
        BY <4>2, <4>3, <3>5 DEF IsChunkBy
      <4>5. DefinedBy(d, m, k)'
        BY <4>1, <4>2, <4>4, <3>3, <1>1, <1>4, SameAsks DEF DefinedBy
      <4>6. k \in 1..k
        BY <1>3
      <4>7. DefinedBy(ctrls[i], m, k)'
        BY <4>5, <3>2 DEF DefinedBy
      <4>8. QED
        BY <4>6, <4>7, <1>1, <1>3
    <3>6. QED
      BY <3>4, <3>5
  <2>15. GuiDefined'
    BY <1>1 DEF GuiDefined
  <2>16. ReferencesOK'
    <3>1. SUFFICES ASSUME NEW n1 \in DOMAIN asked', asked'[n1].chunk.ref
                   PROVE  \E m \in DOMAIN asked' : Refers(n1, m)'
      BY DEF ReferencesOK
    <3>2. CASE n1 \in DOMAIN asked
      <4>1. asked[n1].chunk.ref
        BY <3>1, <3>2, <2>9
      <4>2. PICK m \in DOMAIN asked : Refers(n1, m)
        BY <4>1, <3>2 DEF DefinedInv, ReferencesOK
      <4>3. Refers(n1, m)'
        BY <4>2, <3>2, <2>9, RefersStays
      <4>4. QED
        BY <4>3, <2>9
    <3>3. CASE n1 \notin DOMAIN asked
      <4>1. PICK h \in DOMAIN chunks : asked'[n1] = [chunk |-> Built(chunks[h]), frame |-> k]
        BY <3>3, <2>9
      <4>2. PICK i \in 1..n : /\ AsksAt(cs[i], f) /\ ~ PanicsAt(cs[i], f)
                              /\ IsChunkBy(Built(chunks[h]), cs[i], f)
        BY <2>7
      <4>3. PICK c : c = cs[i] /\ IsController(c) /\ c.interval % Tick = 0
        BY <2>4
      <4>4. /\ asked'[n1].chunk.start = StartAt(c, f) /\ asked'[n1].chunk.who = c.who
            /\ asked'[n1].chunk.ref = c.started /\ asked'[n1].frame = k
        BY <4>1, <4>2, <4>3 DEF IsChunkBy
      <4>5. c.started
        BY <4>4, <3>1
      <4>6. PICK m \in DOMAIN asked, g \in 1..taken : DefinedBy(c, m, g)
        BY <4>3, <4>5, <2>1, <2>2 DEF DefinedInv, StartedDefined
      <4>7. g \in 1..job.frames /\ k \in 1..job.frames /\ g < k
        BY <1>1, <1>2, <1>3
      <4>8. StartAt(c, FrameState(job, g)) <= StartAt(c, FrameState(job, k))
        <5>1. /\ AsksAt(c, FrameState(job, g)) /\ ~ PanicsAt(c, FrameState(job, g))
              /\ AsksAt(c, FrameState(job, k)) /\ ~ PanicsAt(c, FrameState(job, k))
          BY <4>2, <4>3, <4>6, <1>4 DEF DefinedBy
        <5>2. QED
          BY <5>1, <4>3, <4>7, <1>2, StartsInOrder
      <4>9. Refers(n1, m)'
        BY <4>4, <4>6, <4>7, <4>8, <1>4, <2>9 DEF Refers, DefinedBy
      <4>10. QED
        BY <4>9, <2>9
    <3>4. QED
      BY <3>2, <3>3
  <2>17. QED
    BY <1>6, <2>13, <2>14, <2>15, <2>16 DEF DefinedInv
<1>9. QED
  BY <1>5, <1>7, <1>8

(* SignController's chunk: from the time of the last, of which it is a      *)
(* reference, or from zero.                                                 *)
LEMMA GuiChunkIs ==
  ASSUME NEW at, NEW who
  PROVE  /\ Built(GuiChunk(at, who)).start = FloorMillis(at)
         /\ Built(GuiChunk(at, who)).who = who /\ Built(GuiChunk(at, who)).ref = (at # 0)
<1>1. PICK r : r = (at # 0)
  OBVIOUS
<1>2. PICK q : q = WithIsRef(Request(at, who), r)
  OBVIOUS
<1>3. /\ {"start", "who", "ref", "area", "channels"} \subseteq DOMAIN q
      /\ q.start = FloorMillis(at) /\ q.who = who /\ q.ref = r
  BY <1>2, RequestIs
<1>4. Built(q).start = q.start /\ Built(q).who = q.who /\ Built(q).ref = q.ref
  BY <1>3, BuiltIs
<1>5. GuiChunk(at, who) = q
  BY <1>1, <1>2 DEF GuiChunk
<1>6. QED
  BY <1>1, <1>3, <1>4, <1>5

(* A turn of the signer's GUI.                                              *)
LEMMA DefinedGuiTurn ==
  ASSUME SessionInv, DefinedInv, GuiTurn
  PROVE  DefinedInv'
<1>1. /\ job.app /\ taken < job.frames /\ taken' = taken + 1 /\ thread = "running"
      /\ UNCHANGED <<job, reader, ctrls, thread>>
  BY DEF GuiTurn, NextFrameReady, Up
<1>2. job \in Jobs /\ taken \in Nat
  BY NewControllers DEF SessionInv
<1>3. PICK k \in Nat \ {0} : k = taken + 1
  BY <1>2
<1>4. \/ AskFor(<< GuiChunk(lastSign, "alice") >>, k)
      \/ UNCHANGED <<asked, pending, lastSign>>
  BY <1>3 DEF GuiTurn
<1>5. ReaderOK'
  BY <1>1 DEF DefinedInv, ReaderOK
<1>6. CASE UNCHANGED <<asked, pending, lastSign>>
  BY <1>1, <1>5, <1>6, DefinedUnchanged
<1>7. CASE AskFor(<< GuiChunk(lastSign, "alice") >>, k)
  <2>1. PICK q : q = GuiChunk(lastSign, "alice")
    OBVIOUS
  <2>2. PICK chunks : chunks = << q >>
    OBVIOUS
  <2>3. chunks \in Seq(ToSet(chunks)) /\ DOMAIN chunks = {1} /\ chunks[1] = q
    BY <2>2 DEF ToSet
  <2>4. AskFor(chunks, k)
    BY <1>7, <2>1, <2>2
  <2>5. /\ DOMAIN asked \subseteq DOMAIN asked'
        /\ \A m \in DOMAIN asked : asked'[m] = asked[m]
        /\ \A m \in DOMAIN asked' \ DOMAIN asked : \E h \in DOMAIN chunks :
              asked'[m] = [chunk |-> Built(chunks[h]), frame |-> k]
        /\ \A h \in DOMAIN chunks : \E m \in DOMAIN asked' \ DOMAIN asked :
              asked'[m] = [chunk |-> Built(chunks[h]), frame |-> k]
    BY <2>3, <2>4, AskForAll
  <2>6. /\ Built(q).start = FloorMillis(lastSign) /\ Built(q).who = "alice"
        /\ Built(q).ref = (lastSign # 0) /\ lastSign \in Nat
    BY <2>1, GuiChunkIs DEF SessionInv
  <2>7. ASSUME lastSign = 0
        PROVE  FloorMillis(lastSign) = 0
    BY <2>7, TimeAssumption DEF FloorMillis
  <2>8. FloorMillis(lastSign) \in Nat
    BY <2>6, FloorMillisBounds
  <2>9. ControllersWhole'
    BY <1>1 DEF DefinedInv, ControllersWhole
  <2>10. StartedDefined'
    <3>1. ASSUME NEW i \in DOMAIN ctrls, ctrls[i].started
          PROVE  \E m \in DOMAIN asked', f \in 1..(taken') : DefinedBy(ctrls[i], m, f)'
      <4>1. PICK m \in DOMAIN asked, f \in 1..taken : DefinedBy(ctrls[i], m, f)
        BY <3>1 DEF DefinedInv, StartedDefined
      <4>2. f \in 1..(taken') /\ m \in DOMAIN asked' /\ asked'[m] = asked[m]
        BY <1>1, <1>2, <2>5
      <4>3. DefinedBy(ctrls[i], m, f)'
        BY <1>1, <4>1, <4>2 DEF DefinedBy
      <4>4. QED
        BY <4>2, <4>3
    <3>2. QED
      BY <3>1, <1>1 DEF StartedDefined
  <2>11. GuiDefined'
    <3>1. SUFFICES \E m \in DOMAIN asked' : /\ asked'[m].chunk.who = "alice"
                                            /\ ~ asked'[m].chunk.ref /\ asked'[m].chunk.start = 0
      BY DEF GuiDefined
    <3>2. CASE lastSign # 0
      <4>1. PICK m \in DOMAIN asked : /\ asked[m].chunk.who = "alice"
                                      /\ ~ asked[m].chunk.ref /\ asked[m].chunk.start = 0
        BY <1>1, <3>2 DEF DefinedInv, GuiDefined
      <4>2. QED
        BY <4>1, <2>5
    <3>3. CASE lastSign = 0
      <4>1. PICK m \in DOMAIN asked' : asked'[m] = [chunk |-> Built(chunks[1]), frame |-> k]
        BY <2>3, <2>5
      <4>2. asked'[m].chunk = Built(q)
        BY <4>1, <2>3
      <4>3. QED
        BY <4>2, <3>3, <2>6, <2>7
    <3>4. QED
      BY <3>2, <3>3
  <2>12. ReferencesOK'
    <3>1. SUFFICES ASSUME NEW n \in DOMAIN asked', asked'[n].chunk.ref
                   PROVE  \E m \in DOMAIN asked' : Refers(n, m)'
      BY DEF ReferencesOK
    <3>2. CASE n \in DOMAIN asked
      <4>1. PICK m \in DOMAIN asked : Refers(n, m)
        BY <3>1, <3>2, <2>5 DEF DefinedInv, ReferencesOK
      <4>2. Refers(n, m)'
        BY <4>1, <3>2, <2>5, RefersStays
      <4>3. QED
        BY <4>2, <2>5
    <3>3. CASE n \notin DOMAIN asked
      <4>1. asked'[n] = [chunk |-> Built(q), frame |-> k]
        BY <3>3, <2>3, <2>5
      <4>2. /\ asked'[n].chunk.start = FloorMillis(lastSign) /\ asked'[n].frame = k
            /\ asked'[n].chunk.who = "alice" /\ lastSign # 0
        <5>1. lastSign # 0
          <6>1. PICK b : b = Built(q)
            OBVIOUS
          <6>2. asked'[n].chunk = b
            BY <4>1, <6>1
          <6>3. b.ref
            BY <6>2, <3>1, Zenon
          <6>4. b.ref = (lastSign # 0)
            BY <6>1, <2>6, Zenon
          <6>5. QED
            BY <6>3, <6>4, Zenon
        <5>2. QED
          BY <4>1, <5>1, <2>6
      <4>3. PICK m \in DOMAIN asked : /\ asked[m].chunk.who = "alice"
                                      /\ ~ asked[m].chunk.ref /\ asked[m].chunk.start = 0
        BY <1>1, <4>2 DEF DefinedInv, GuiDefined
      <4>4. asked[m].frame < k
        <5>1. asked[m].frame \in 1..taken
          BY DEF SessionInv, AskedOK
        <5>2. QED
          BY <5>1, <1>2, <1>3
      <4>5. Refers(n, m)'
        BY <4>2, <4>3, <4>4, <2>5, <2>8 DEF Refers
      <4>6. QED
        BY <4>5, <2>5
    <3>4. QED
      BY <3>2, <3>3
  <2>13. QED
    BY <1>5, <2>9, <2>10, <2>11, <2>12 DEF DefinedInv
<1>8. QED
  BY <1>4, <1>6, <1>7

(* A session that starts has defined nothing, and asked for nothing.        *)
LEMMA DefinedStart ==
  ASSUME SessionInv, WholeMillisJobs, src # None, Start(src), lastSign' = 0
  PROVE  DefinedInv'
<1>1. /\ src \in Jobs /\ job' = src /\ ctrls' = src.controllers /\ asked' = <<>>
      /\ reader' = "open"
  BY DEF Start, SessionInv
<1>2. /\ KindsOK(src.controllers)
      /\ \A i \in DOMAIN src.controllers :
            /\ src.controllers[i].interval % Tick = 0
            /\ src.controllers[i].started = FALSE
  BY <1>1, NewSessionDefined
<1>3. ControllersWhole' /\ StartedDefined'
  BY <1>1, <1>2 DEF ControllersWhole, StartedDefined
<1>4. GuiDefined' /\ ReferencesOK' /\ ReaderOK'
  BY <1>1 DEF GuiDefined, ReferencesOK, ReaderOK
<1>5. QED
  BY <1>3, <1>4 DEF DefinedInv

(* Initially nothing is asked for.                                          *)
LEMMA DefinedInit == ASSUME WholeMillisJobs PROVE Init => DefinedInv
<1> SUFFICES ASSUME Init
             PROVE  DefinedInv
  OBVIOUS
<1>1. /\ job \in Jobs /\ ctrls = job.controllers /\ asked = <<>> /\ lastSign = 0
      /\ reader = "open"
  BY DEF Init, InitSession, InitGui
<1>2. /\ KindsOK(job.controllers)
      /\ \A i \in DOMAIN job.controllers :
            /\ job.controllers[i].interval % Tick = 0
            /\ job.controllers[i].started = FALSE
  BY <1>1, NewSessionDefined
<1>3. ControllersWhole /\ StartedDefined
  BY <1>1, <1>2 DEF ControllersWhole, StartedDefined
<1>4. GuiDefined /\ ReferencesOK /\ ReaderOK
  BY <1>1 DEF GuiDefined, ReferencesOK, ReaderOK
<1>5. QED
  BY <1>3, <1>4 DEF DefinedInv

(* Every step keeps references behind what they refer to.                   *)
LEMMA DefinedStep ==
  ASSUME WholeMillisJobs
  PROVE  SessionInv /\ DefinedInv /\ [Next]_appVars => DefinedInv'
<1> SUFFICES ASSUME SessionInv, DefinedInv, [Next]_appVars
             PROVE  DefinedInv'
  OBVIOUS
<1>1. CASE UNCHANGED <<job, taken, ctrls, asked, lastSign, thread, pending, reader>>
  <2>1. ReaderOK'
    BY <1>1 DEF DefinedInv, ReaderOK
  <2>2. QED
    BY <1>1, <2>1, DefinedUnchanged
<1>2. CASE UNCHANGED <<sessionVars, guiVars>>
  BY <1>1, <1>2 DEF sessionVars, guiVars
<1>3. CASE Menu
  <2>1. CASE (\E j \in Jobs : ChooseVideo(j)) \/ ChooseOutput
    BY <1>1, <2>1 DEF ChooseVideo, ChooseOutput, sessionVars
  <2>2. CASE GoToVideo
    <3>1. \/ UNCHANGED <<sessionVars, lastSign>>
          \/ src # None /\ Start(src) /\ lastSign' = 0
      BY <2>2 DEF GoToVideo, SpawnPlayer, WatchVideo
    <3>2. CASE UNCHANGED <<sessionVars, lastSign>>
      BY <1>1, <3>2 DEF sessionVars
    <3>3. QED
      BY <3>1, <3>2, DefinedStart
  <2>3. QED
    BY <1>3, <2>1, <2>2 DEF Menu
<1>4. CASE VideoView
  <2>1. CASE PressEnter \/ PressSpace \/ PaintOverlay
    BY <1>1, <2>1 DEF PressEnter, PressSpace, PaintOverlay, GoDown, sessionVars
  <2>2. CASE RunIdle
    BY <1>1, <2>2 DEF RunIdle, ShowFrame, ShowSign, Finish, GoDown, sessionVars
  <2>3. QED
    BY <1>4, <2>1, <2>2 DEF VideoView
<1>5. CASE NextSession /\ UNCHANGED guiVars
  <2>1. UNCHANGED lastSign
    BY <1>5 DEF guiVars
  <2>2. CASE AskControllers
    BY <2>1, <2>2, DefinedAskControllers
  <2>3. CASE ThreadEnds \/ Answer \/ Collect \/ WriteFile
    <3>1. UNCHANGED <<job, taken, ctrls, asked>>
      BY <2>3 DEF ThreadEnds, Answer, Receive, ReceiveError, Collect, WriteFile
    <3>2. ReaderOK'
      <4>1. CASE ThreadEnds
        BY <4>1 DEF ThreadEnds, DefinedInv, ReaderOK
      <4>2. CASE Answer
        BY <4>2 DEF Answer, Receive, ReceiveError, ReaderOK
      <4>3. CASE Collect
        BY <4>3 DEF Collect, ReaderOK
      <4>4. CASE WriteFile
        BY <4>4 DEF WriteFile, DefinedInv, ReaderOK
      <4>5. QED
        BY <2>3, <4>1, <4>2, <4>3, <4>4
    <3>3. QED
      BY <2>1, <3>1, <3>2, DefinedUnchanged
  <2>4. QED
    BY <1>5, <2>2, <2>3 DEF NextSession
<1>6. CASE WatchEnds
  BY <1>1, <1>6 DEF WatchEnds, sessionVars
<1>7. CASE Signing
  BY <1>3, <1>4, <1>5, <1>6, <1>7, DefinedGuiTurn DEF Signing, NextGui, GuiSession
<1>8. QED
  BY <1>2, <1>7 DEF Next, Verifying, appVars

(* A chunk's presentation in the file.                                      *)
LEMMA PresentationIs ==
  ASSUME NEW n
  PROVE  SignedAs(n).val.presentation =
            [kind |-> IF asked[n].chunk.ref THEN "ref" ELSE "def", id |-> asked[n].chunk.who]
BY DEF SignedAs, SignedInterval, Signature

(* Chunks of a later frame end a millisecond later.                         *)
LEMMA StopsInOrder ==
  ASSUME SessionInv, MillisecondFrames(job.rate),
         NEW m \in DOMAIN asked, NEW n \in DOMAIN asked, asked[m].frame < asked[n].frame
  PROVE  SignedAs(m).stop < SignedAs(n).stop
<1>1. job \in Jobs /\ asked[m].frame \in Nat \ {0} /\ asked[n].frame \in Nat \ {0}
  <2>1. job \in Jobs /\ taken \in Nat
    BY NewControllers DEF SessionInv
  <2>2. asked[m].frame \in 1..taken /\ asked[n].frame \in 1..taken
    BY DEF SessionInv, AskedOK
  <2>3. QED
    BY <2>1, <2>2
<1>2. PICK x \in Nat, y \in Nat : x = ChunkEnd(m) /\ y = ChunkEnd(n)
  BY <1>1, FrameTimes DEF ChunkEnd
<1>3. x + Tick <= y
  BY <1>1, <1>2, FramesFollow DEF ChunkEnd
<1>4. PICK t \in Nat \ {0} : t = Tick
  BY TimeAssumption
<1>5. PICK a \in Nat, b \in Nat : a = x \div t /\ b = y \div t
  BY Division
<1>6. a * t <= x
  BY <1>5, AtMostQuotient
<1>7. (a + 1) * t <= y
  <2>1. (a + 1) * t = a * t + t
    OBVIOUS
  <2>2. QED
    BY <2>1, <1>3, <1>4, <1>6
<1>8. a + 1 <= b
  BY <1>5, <1>7, AtMostQuotient
<1>9. SignedAs(m).stop = a /\ SignedAs(n).stop = b
  BY <1>2, <1>4, <1>5 DEF SignedAs, SignedInterval
<1>10. QED
  BY <1>8, <1>9

(* A whole number of milliseconds is not behind another that is no less.    *)
LEMMA DivMonotone ==
  ASSUME NEW x \in Int, NEW y \in Int, x <= y
  PROVE  x \div Tick <= y \div Tick
<1>1. PICK t \in Nat \ {0} : t = Tick
  BY TimeAssumption
<1>2. x \div t <= y \div t
  OBVIOUS
<1>3. QED
  BY <1>1, <1>2

(* spec.md:251-253, ChunkSigner::sign and the controllers: in the file that *)
(* is collected a reference stands behind the definition it refers to, for  *)
(* every video of at most a frame per millisecond and all intervals of      *)
(* whole milliseconds, in whatever order the chunks were answered; unless   *)
(* the chunk with the definition failed.                                    *)
THEOREM ReferencesStandBehind == ASSUME WholeMillisJobs PROVE Spec => []DefinedFirst
<1>1. ASSUME SessionInv, FileInv, DefinedInv
      PROVE  DefinedFirst
  <2> SUFFICES ASSUME reader = "collected", NEW i \in DOMAIN file,
                      file[i].val.presentation.kind = "ref",
                      ~ FirstFailed(file[i].val.presentation.id)
               PROVE  \E j \in 1..(i - 1) :
                         file[j].val.presentation =
                         [kind |-> "def", id |-> file[i].val.presentation.id]
    BY DEF DefinedFirst
  <2>1. /\ file \in Seq(ToSet(file)) /\ Sorted(file)
        /\ \A x \in DOMAIN file : \E n \in Answered : file[x] = SignedAs(n)
        /\ \A v : Cardinality({ x \in DOMAIN file : file[x] = v }) =
                  Cardinality({ n \in Answered : SignedAs(n) = v })
    BY <1>1 DEF FileInv
  <2>2. PICK n \in Answered : file[i] = SignedAs(n)
    BY <2>1
  <2>3. n \in DOMAIN asked /\ pending = {}
    BY <1>1 DEF Answered, DefinedInv, ReaderOK
  <2>4. asked[n].chunk.ref /\ file[i].val.presentation.id = asked[n].chunk.who
    <3>1. PICK q : q = SignedAs(n).val.presentation
      OBVIOUS
    <3>2. q = [kind |-> IF asked[n].chunk.ref THEN "ref" ELSE "def", id |-> asked[n].chunk.who]
      BY <3>1, PresentationIs
    <3>3. q.kind = "ref" /\ q = file[i].val.presentation
      BY <2>2, <3>1
    <3>4. asked[n].chunk.ref
      <4>1. CASE ~ asked[n].chunk.ref
        <5>1. q.kind = "def"
          BY <3>2, <4>1
        <5>2. QED
          BY <3>3, <5>1
      <4>2. QED
        BY <4>1
    <3>5. QED
      BY <3>2, <3>3, <3>4
  <2>5. PICK m \in DOMAIN asked : Refers(n, m)
    BY <1>1, <2>3, <2>4 DEF DefinedInv, ReferencesOK
  <2>6. m \in Answered
    <3>1. m \notin failed
      BY <2>4, <2>5 DEF FirstFailed, Refers
    <3>2. QED
      BY <2>3, <3>1 DEF Answered
  <2>7. PICK v : v = SignedAs(m)
    OBVIOUS
  <2>8. PICK j \in DOMAIN file : file[j] = v
    <3>1. PICK M : M = { x \in Answered : SignedAs(x) = v } /\ IsFiniteSet(M)
      BY <1>1, AnsweredFinite
    <3>2. m \in M
      BY <2>6, <2>7, <3>1
    <3>3. Cardinality(M) # 0
      BY <3>1, <3>2, FS_EmptySet
    <3>4. Cardinality({ x \in DOMAIN file : file[x] = v }) # 0
      BY <2>1, <3>1, <3>3
    <3>5. { x \in DOMAIN file : file[x] = v } # {}
      BY <3>4, FS_EmptySet
    <3>6. QED
      BY <3>5
  <2>9. Before(SignedAs(m), SignedAs(n))
    <3>1. MillisecondFrames(job.rate)
      BY <1>1 DEF WholeMillisJobs, SessionInv
    <3>2. asked[m].frame < asked[n].frame /\ asked[m].chunk.start <= asked[n].chunk.start
      BY <2>5 DEF Refers
    <3>3. SignedAs(m).stop < SignedAs(n).stop
      BY <1>1, <2>3, <3>1, <3>2, StopsInOrder
    <3>4. PICK x \in Int, y \in Int : x = asked[m].chunk.start /\ y = asked[n].chunk.start
      BY <1>1, <2>3 DEF SessionInv, AskedOK
    <3>5. x \div Tick <= y \div Tick
      BY <3>2, <3>4, DivMonotone
    <3>6. SignedAs(m).start = x \div Tick /\ SignedAs(n).start = y \div Tick
      BY <3>4 DEF SignedAs, SignedInterval
    <3>7. x \div Tick \in Int /\ y \div Tick \in Int
      BY TimeAssumption
    <3>8. SignedAs(m).start < SignedAs(n).start \/ SignedAs(m).start = SignedAs(n).start
      BY <3>5, <3>6, <3>7
    <3>9. QED
      BY <3>3, <3>8 DEF Before
  <2>10. j \in 1..(i - 1)
    <3>1. Before(file[j], file[i])
      BY <2>2, <2>7, <2>8, <2>9
    <3>2. ~ (i < j) /\ i # j
      <4>1. i < j => ~ Before(file[j], file[i])
        BY <2>1 DEF Sorted
      <4>2. ~ Before(file[i], file[i])
        <5>1. SignedAs(n).start \in Int /\ SignedAs(n).stop \in Int
          BY <1>1, <2>3, SignedType
        <5>2. QED
          BY <5>1, <2>2 DEF Before
      <4>3. QED
        BY <3>1, <4>1, <4>2
    <3>3. DOMAIN file = 1..Len(file) /\ Len(file) \in Nat
      BY <2>1
    <3>4. QED
      BY <3>2, <3>3
  <2>11. file[j].val.presentation = [kind |-> "def", id |-> asked[m].chunk.who]
    <3>1. ~ asked[m].chunk.ref
      BY <2>5 DEF Refers
    <3>2. QED
      BY <2>7, <2>8, <3>1, PresentationIs
  <2>12. asked[m].chunk.who = asked[n].chunk.who
    BY <2>5 DEF Refers
  <2>13. QED
    BY <2>4, <2>10, <2>11, <2>12
<1>2. Spec => []DefinedInv
  BY DefinedInit, DefinedStep, SessionInvariant, PTL DEF Spec
<1>3. QED
  BY <1>1, <1>2, SessionInvariant, PTL

-----------------------------------------------------------------------------
(* What is shown is what was signed.                                        *)

(* A one-to-one map onto a set counts its parts.                            *)
LEMMA SameSize ==
  ASSUME NEW S, IsFiniteSet(S), NEW T, NEW f \in [S -> T],
         \A x, y \in S : f[x] = f[y] => x = y, \A t \in T : \E x \in S : f[x] = t,
         NEW B \in SUBSET T
  PROVE  Cardinality({ x \in S : f[x] \in B }) = Cardinality(B)
<1>1. PICK A : A = { x \in S : f[x] \in B }
  OBVIOUS
<1>2. IsFiniteSet(A)
  BY <1>1, FS_Subset
<1>3. PICK g : g = [ x \in A |-> f[x] ]
  OBVIOUS
<1>4. g \in Injection(A, B)
  <2>1. g \in [A -> B] /\ \A x, y \in A : g[x] = g[y] => x = y
    BY <1>1, <1>3
  <2>2. QED
    BY <2>1 DEF Injection, IsInjective
<1>5. g \in Surjection(A, B)
  <2>1. g \in [A -> B]
    BY <1>1, <1>3
  <2>2. \A t \in B : \E x \in A : g[x] = t
    BY <1>1, <1>3
  <2>3. QED
    BY <2>1, <2>2 DEF Surjection
<1>6. ExistsBijection(A, B)
  BY <1>4, <1>5 DEF ExistsBijection, Bijection
<1>7. Cardinality(B) = Cardinality(A)
  BY <1>2, <1>6, FS_Bijection
<1>8. QED
  BY <1>1, <1>7

(* Where each answer stands in the file.                                    *)
IsPlacement(at) ==
    /\ at \in [Answered -> DOMAIN file]
    /\ \A m, n \in Answered : at[m] = at[n] => m = n
    /\ \A i \in DOMAIN file : \E n \in Answered : at[n] = i
    /\ \A n \in Answered : file[at[n]] = SignedAs(n)

PlacedInv == reader # "failed" => \E at : IsPlacement(at)

(* Nothing answered, nothing to place.                                      *)
LEMMA NothingPlaced == ASSUME Answered = {}, file = EmptyFile PROVE PlacedInv
<1>1. PICK at : at = [ n \in {} |-> n ]
  OBVIOUS
<1>2. DOMAIN file = {}
  BY DEF EmptyFile
<1>3. IsPlacement(at)
  BY <1>1, <1>2 DEF IsPlacement
<1>4. QED
  BY <1>3 DEF PlacedInv

(* Answers stay where they are when there are no more of them.              *)
LEMMA PlacedStays ==
  ASSUME PlacedInv, UNCHANGED <<job, file>>, Answered' = Answered,
         reader' # "failed" => reader # "failed",
         \A n \in Answered : asked'[n] = asked[n]
  PROVE  PlacedInv'
<1> SUFFICES ASSUME reader' # "failed" PROVE \E at : IsPlacement(at)'
  BY DEF PlacedInv
<1>1. PICK at : IsPlacement(at)
  BY DEF PlacedInv
<1>2. \A n \in Answered : SignedAs(n)' = SignedAs(n)
  BY AskedForStays
<1>3. IsPlacement(at)'
  BY <1>1, <1>2 DEF IsPlacement
<1>4. QED
  BY <1>3

(* An answer is put into the file, and those behind it move on by one.      *)
LEMMA ReceivePlaces ==
  ASSUME SessionInv, FileInv, PlacedInv, NEW k \in DOMAIN asked, Receive(k)
  PROVE  PlacedInv'
<1>1. /\ reader = "open" /\ k \in pending /\ file' = Push(file, SignedAs(k))
      /\ pending' = pending \ {k}
      /\ UNCHANGED <<job, taken, asked, failed, reader>>
  BY DEF Receive, NextOfFrame
<1>2. Answered' = Answered \cup {k} /\ k \notin Answered
  BY <1>1 DEF Answered, SessionInv, AnswersOK
<1>3. \A n : SignedAs(n)' = SignedAs(n)
  BY <1>1, AskedForStays
<1>4. PICK e : e = SignedAs(k) /\ e.start \in Int /\ e.stop \in Int
  BY SignedType
<1>5. PICK S : file \in Seq(S) /\ e \in S
  <2>1. PICK s : s = file /\ s \in Seq(ToSet(s))
    BY <1>1 DEF FileInv
  <2>2. s \in Seq(ToSet(s) \cup {e}) /\ e \in ToSet(s) \cup {e}
    BY <2>1
  <2>3. QED
    BY <2>1, <2>2
<1>6. PICK l \in Nat : l = Len(file) /\ DOMAIN file = 1..l
  BY <1>5
<1>7. PICK p \in 1..(l + 1) : Push(file, e) = InsertAt(file, p, e)
  <2>1. Timed(file) /\ Sorted(file)
    BY <1>1 DEF FileInv
  <2>2. \E p \in 1..(Len(file) + 1) :
            /\ Push(file, e) = InsertAt(file, p, e)
            /\ \A h \in DOMAIN file : Before(file[h], e) <=> h < p
    BY <2>1, <1>4, <1>5, PushInserts
  <2>3. QED
    BY <2>2, <1>6
<1>8. /\ DOMAIN file' = 1..(l + 1) /\ file'[p] = e
      /\ \A i \in 1..(p - 1) : file'[i] = file[i]
      /\ \A i \in p..l : file'[i + 1] = file[i]
  <2>1. p \in 1..(Len(file) + 1)
    BY <1>6
  <2>2. /\ InsertAt(file, p, e) \in Seq(S)
        /\ Len(InsertAt(file, p, e)) = Len(file) + 1
        /\ DOMAIN InsertAt(file, p, e) = 1..(Len(file) + 1)
        /\ InsertAt(file, p, e)[p] = e
        /\ \A i \in 1..(p - 1) : InsertAt(file, p, e)[i] = file[i]
        /\ \A i \in p..Len(file) : InsertAt(file, p, e)[i + 1] = file[i]
    BY <2>1, <1>5, Inserted
  <2>3. file' = InsertAt(file, p, e)
    BY <1>1, <1>4, <1>7
  <2>4. QED
    BY <2>2, <2>3, <1>6
<1>9. PICK at : IsPlacement(at)
  BY <1>1 DEF PlacedInv
<1>10. /\ at \in [Answered -> 1..l]
       /\ \A m, n \in Answered : at[m] = at[n] => m = n
       /\ \A i \in 1..l : \E n \in Answered : at[n] = i
       /\ \A n \in Answered : file[at[n]] = SignedAs(n)
  BY <1>6, <1>9 DEF IsPlacement
<1>11. PICK to : to = [ n \in Answered \cup {k} |->
                          IF n = k THEN p ELSE IF at[n] < p THEN at[n] ELSE at[n] + 1 ]
  OBVIOUS
<1>12. /\ to[k] = p
       /\ \A n \in Answered : to[n] = IF at[n] < p THEN at[n] ELSE at[n] + 1
  BY <1>2, <1>11
<1>13. p \in Nat \ {0} /\ \A n \in Answered : at[n] \in Nat \ {0} /\ at[n] <= l
  BY <1>10, <1>6
<1>14. to \in [Answered \cup {k} -> 1..(l + 1)]
  <2>1. ASSUME NEW n \in Answered \cup {k}
        PROVE  to[n] \in 1..(l + 1)
    BY <1>12, <1>13
  <2>2. QED
    BY <2>1, <1>11
<1>15. ASSUME NEW m \in Answered, NEW n \in Answered, to[m] = to[n]
       PROVE  m = n
  <2>1. at[m] = at[n]
    BY <1>12, <1>13, <1>15
  <2>2. QED
    BY <2>1, <1>10
<1>16. ASSUME NEW n \in Answered
       PROVE  to[n] # p
  BY <1>12, <1>13
<1>17. ASSUME NEW i \in 1..(l + 1)
       PROVE  \E n \in Answered \cup {k} : to[n] = i
  <2>1. CASE i = p
    BY <2>1, <1>12
  <2>2. CASE i < p
    <3>1. i \in 1..l
      BY <2>2
    <3>2. PICK n \in Answered : at[n] = i
      BY <3>1, <1>10
    <3>3. QED
      BY <3>2, <2>2, <1>12
  <2>3. CASE p < i
    <3>1. PICK h \in 1..l : i = h + 1 /\ ~ (h < p)
      <4>1. i - 1 \in 1..l /\ i = (i - 1) + 1 /\ ~ (i - 1 < p)
        BY <2>3
      <4>2. QED
        BY <4>1
    <3>2. PICK n \in Answered : at[n] = h
      BY <3>1, <1>10
    <3>3. QED
      BY <3>1, <3>2, <1>12
  <2>4. QED
    BY <2>1, <2>2, <2>3
<1>18. ASSUME NEW n \in Answered
       PROVE  file'[to[n]] = SignedAs(n)
  <2>1. PICK a \in 1..l : a = at[n]
    BY <1>10
  <2>2. CASE a < p
    <3>1. a \in 1..(p - 1) /\ to[n] = a
      BY <2>1, <2>2, <1>12
    <3>2. QED
      BY <3>1, <2>1, <1>8, <1>10
  <2>3. CASE ~ (a < p)
    <3>1. a \in p..l /\ to[n] = a + 1
      BY <2>1, <2>3, <1>12
    <3>2. QED
      BY <3>1, <2>1, <1>8, <1>10
  <2>4. QED
    BY <2>2, <2>3
<1>19. IsPlacement(to)'
  <2>1. \A m, n \in Answered' : to[m] = to[n] => m = n
    BY <1>2, <1>12, <1>15, <1>16
  <2>2. \A n \in Answered' : file'[to[n]] = SignedAs(n)'
    BY <1>2, <1>3, <1>4, <1>8, <1>12, <1>18
  <2>3. QED
    BY <2>1, <2>2, <1>2, <1>8, <1>14, <1>17 DEF IsPlacement
<1>20. QED
  BY <1>19 DEF PlacedInv

-----------------------------------------------------------------------------
(* What was asked for, and at which frames.                                 *)

SameSettings(c, d) ==
    c.kind = d.kind /\ c.who = d.who /\ c.interval = d.interval /\ c.range = d.range

(* A controller changes in whether it has asked, and in nothing else.       *)
SettingsInv ==
    /\ DOMAIN ctrls = DOMAIN job.controllers
    /\ \A i \in DOMAIN ctrls : SameSettings(ctrls[i], job.controllers[i])

(* The chunk is the one that a controller asks for at a frame.              *)
AskedBy(c, a) ==
    /\ a.chunk.who = c.who
    /\ AsksAt(c, FrameState(job, a.frame)) /\ ~ PanicsAt(c, FrameState(job, a.frame))
    /\ a.chunk.start = StartAt(c, FrameState(job, a.frame))

(* The frames that the controllers were asked about: a controller that      *)
(* panics is never asked again.                                             *)
IsAskedAbout(k) == k \in 1..taken /\ (thread = "panicked" => k # taken)

(* The chunks asked for are those that the controllers ask for, no others   *)
(* and none less.                                                           *)
ExactlyAsked ==
    ~ job.app =>
        /\ \A n \in DOMAIN asked : \E i \in DOMAIN job.controllers :
              AskedBy(job.controllers[i], asked[n])
        /\ \A k \in 1..job.frames : IsAskedAbout(k) =>
              \A i \in DOMAIN job.controllers :
                  AsksAt(job.controllers[i], FrameState(job, k)) =>
                      \E n \in DOMAIN asked :
                          asked[n].frame = k /\ AskedBy(job.controllers[i], asked[n])

(* A time of whole milliseconds.                                            *)
IsWhole(t) == \E q \in Nat : t = Tick * q

WholeStarts == \A n \in DOMAIN asked : IsWhole(asked[n].chunk.start)

AskedInv == SettingsInv /\ ExactlyAsked /\ WholeStarts

(* A time is floored to whole milliseconds.                                 *)
LEMMA FlooredWhole ==
  ASSUME NEW t \in Nat
  PROVE  IsWhole(FloorMillis(t))
<1>1. Tick \in Nat \ {0}
  BY TimeAssumption
<1>2. t \div Tick \in Nat /\ FloorMillis(t) = Tick * (t \div Tick)
  BY <1>1, Division, FloorMillisBounds
<1>3. QED
  BY <1>2 DEF IsWhole

(* A chunk that is asked for starts at whole milliseconds.                  *)
LEMMA StartWhole ==
  ASSUME NEW j \in Jobs, NEW k \in Nat \ {0}, NEW c, IsController(c),
         AsksAt(c, FrameState(j, k)), ~ PanicsAt(c, FrameState(j, k))
  PROVE  IsWhole(StartAt(c, FrameState(j, k)))
<1>1. PICK f : f = FrameState(j, k)
  OBVIOUS
<1>2. f.time.start \in Int /\ f.time.end \in Int /\ f.time.start \in Nat /\ f.time.end \in Nat
  BY <1>1, FrameTimes
<1>3. PICK d \in Nat \ {0} : d = c.interval
  BY DEF IsController
<1>4. CASE IsOfFunction(c)
  <2>1. PICK x : x = Crossing(f.time, d)
    OBVIOUS
  <2>2. x # None /\ ~ (x < d)
    BY <1>1, <1>3, <1>4, <2>1 DEF AsksAt, PanicsAt, FnAsks, FnPanics
  <2>3. x \in Int
    BY <1>2, <2>1, <2>2, CrossingType
  <2>4. x - d \in Nat
    BY <2>2, <2>3
  <2>5. StartAt(c, f) = FloorMillis(x - d)
    BY <1>3, <1>4, <2>1 DEF StartAt
  <2>6. QED
    BY <1>1, <2>4, <2>5, FlooredWhole
<1>5. CASE ~ IsOfFunction(c)
  <2>1. PICK x \in Int : x = ChunkStart(c, f)
    BY <1>2, ChunkStartType
  <2>2. x \in Nat
    <3>1. PICK t : t = Converted(c, f.time)
      OBVIOUS
    <3>2. t.start \in Int /\ t.end \in Int
      <4>1. CASE c.range = None
        BY <3>1, <4>1, <1>2 DEF Converted
      <4>2. CASE c.range # None
        <5>1. c.range.start \in Nat
          BY <4>2 DEF IsController
        <5>2. t = [start |-> f.time.start - c.range.start,
                   end |-> f.time.start - c.range.start + (f.time.end - f.time.start)]
          BY <3>1, <4>2 DEF Converted, Earlier, Span, Duration
        <5>3. QED
          BY <5>1, <5>2, <1>2
      <4>3. QED
        BY <4>1, <4>2
    <3>3. PICK y : y = Crossing(t, d)
      OBVIOUS
    <3>4. y = None \/ y \in Int
      BY <3>2, <3>3, CrossingType
    <3>5. PICK e \in Int : e = IF y = None THEN f.time.end ELSE y
      BY <3>4, <1>2
    <3>6. x = IF e < d THEN 0 ELSE e - d
      BY <2>1, <3>1, <3>3, <3>5, <1>3 DEF ChunkStart
    <3>7. QED
      BY <3>6
  <2>3. StartAt(c, f) = FloorMillis(x)
    BY <1>5, <2>1 DEF StartAt
  <2>4. QED
    BY <1>1, <2>2, <2>3, FlooredWhole
<1>6. QED
  BY <1>4, <1>5

(* A session starts with the controllers of its job.                        *)
LEMMA AskedStart ==
  ASSUME ctrls = job.controllers, asked = <<>>, taken = 0
  PROVE  AskedInv
<1>1. SettingsInv
  BY DEF SettingsInv, SameSettings
<1>2. DOMAIN asked = {}
  OBVIOUS
<1>3. \A k \in 1..job.frames : ~ IsAskedAbout(k)
  BY DEF IsAskedAbout
<1>4. QED
  BY <1>1, <1>2, <1>3 DEF AskedInv, ExactlyAsked, WholeStarts

(* Steps of a program that do not ask.                                      *)
LEMMA AskedStays ==
  ASSUME AskedInv, UNCHANGED <<job, taken, ctrls, asked>>,
         thread = "panicked" => thread' = "panicked"
  PROVE  AskedInv'
<1>1. SettingsInv' /\ WholeStarts'
  BY DEF AskedInv, SettingsInv, WholeStarts
<1>2. \A k : IsAskedAbout(k)' => IsAskedAbout(k)
  BY DEF IsAskedAbout
<1>3. \A c, a : AskedBy(c, a)' <=> AskedBy(c, a)
  BY DEF AskedBy
<1>4. ExactlyAsked'
  BY <1>2, <1>3 DEF AskedInv, ExactlyAsked
<1>5. QED
  BY <1>1, <1>4 DEF AskedInv

(* A controller with the same settings asks at the same frames.             *)
LEMMA SettingsAsk ==
  ASSUME NEW c, NEW d, SameSettings(c, d), NEW f
  PROVE  /\ AsksAt(d, f) = AsksAt(c, f) /\ PanicsAt(d, f) = PanicsAt(c, f)
         /\ StartAt(d, f) = StartAt(c, f) /\ d.who = c.who
<1>1. d.kind = c.kind /\ d.interval = c.interval /\ d.range = c.range /\ d.who = c.who
  BY DEF SameSettings
<1>2. QED
  BY <1>1, SameAsks

(* Controllers of one job are of one kind.                                  *)
LEMMA JobKinds ==
  ASSUME NEW j \in Jobs
  PROVE  KindsOK(j.controllers)
<1>1. IsJob(j)
  BY SessionAssumption
<1>2. PICK cs : cs = j.controllers
  OBVIOUS
<1>3. /\ cs \in Seq(ToSet(cs))
      /\ \A i \in DOMAIN cs : cs[i].kind = "function" => Len(cs) = 1
  BY <1>1, <1>2 DEF IsJob
<1>4. DOMAIN cs = 1..Len(cs)
  BY <1>3
<1>5. KindsOK(cs)
  BY <1>3, <1>4 DEF KindsOK, IsOfFunction
<1>6. QED
  BY <1>2, <1>5

(* What the controllers ask for at a frame, told by the settings they came  *)
(* with.                                                                    *)
LEMMA TurnAsks ==
  ASSUME SessionInv, SettingsInv, NEW f, ~ TurnPanics(ctrls, f)
  PROVE  /\ \A h \in DOMAIN Chunks(ctrls, f) : \E i \in DOMAIN job.controllers :
               /\ AsksAt(job.controllers[i], f) /\ ~ PanicsAt(job.controllers[i], f)
               /\ Built(Chunks(ctrls, f)[h]).who = job.controllers[i].who
               /\ Built(Chunks(ctrls, f)[h]).start = StartAt(job.controllers[i], f)
         /\ \A i \in DOMAIN job.controllers : AsksAt(job.controllers[i], f) =>
               /\ ~ PanicsAt(job.controllers[i], f)
               /\ \E h \in DOMAIN Chunks(ctrls, f) :
                     /\ Built(Chunks(ctrls, f)[h]).who = job.controllers[i].who
                     /\ Built(Chunks(ctrls, f)[h]).start = StartAt(job.controllers[i], f)
<1>1. PICK n \in Nat : DOMAIN ctrls = 1..n
  BY DEF SessionInv, ControllersOK
<1>2. PICK cs, js : cs = ctrls /\ js = job.controllers
  OBVIOUS
<1>3. /\ DOMAIN cs = 1..n /\ DOMAIN js = 1..n /\ (cs # <<>> => 1 \in DOMAIN cs)
      /\ \A i \in 1..n : SameSettings(cs[i], js[i])
  BY <1>1, <1>2 DEF SessionInv, ControllersOK, SettingsInv
<1>4. KindsOK(cs)
  <2>1. KindsOK(js)
    BY <1>2, JobKinds DEF SessionInv
  <2>2. QED
    BY <2>1, <1>3 DEF KindsOK, IsOfFunction, SameSettings
<1>5. PICK chunks : chunks = Chunks(cs, f)
  OBVIOUS
<1>6. /\ \A h \in DOMAIN chunks : \E i \in 1..n :
            /\ AsksAt(cs[i], f) /\ ~ PanicsAt(cs[i], f)
            /\ IsChunkBy(Built(chunks[h]), cs[i], f)
      /\ \A i \in 1..n : AsksAt(cs[i], f) =>
            /\ ~ PanicsAt(cs[i], f)
            /\ \E h \in DOMAIN chunks : IsChunkBy(Built(chunks[h]), cs[i], f)
  <2>1. ~ TurnPanics(cs, f)
    BY <1>2
  <2>2. QED
    BY <2>1, <1>3, <1>4, <1>5, ChunksAre
<1>7. \A i \in 1..n : /\ AsksAt(js[i], f) = AsksAt(cs[i], f)
                      /\ PanicsAt(js[i], f) = PanicsAt(cs[i], f)
                      /\ StartAt(js[i], f) = StartAt(cs[i], f) /\ js[i].who = cs[i].who
  BY <1>3, SettingsAsk
<1>8. ASSUME NEW h \in DOMAIN chunks
      PROVE  \E i \in 1..n : /\ AsksAt(js[i], f) /\ ~ PanicsAt(js[i], f)
                             /\ Built(chunks[h]).who = js[i].who
                             /\ Built(chunks[h]).start = StartAt(js[i], f)
  BY <1>6, <1>7 DEF IsChunkBy
<1>9. ASSUME NEW i \in 1..n, AsksAt(js[i], f)
      PROVE  /\ ~ PanicsAt(js[i], f)
             /\ \E h \in DOMAIN chunks : /\ Built(chunks[h]).who = js[i].who
                                         /\ Built(chunks[h]).start = StartAt(js[i], f)
  BY <1>6, <1>7, <1>9 DEF IsChunkBy
<1>10. DOMAIN job.controllers = 1..n /\ chunks = Chunks(ctrls, f) /\ js = job.controllers
  BY <1>2, <1>3, <1>5
<1>11. \A h \in DOMAIN Chunks(ctrls, f) : \E i \in DOMAIN job.controllers :
          /\ AsksAt(job.controllers[i], f) /\ ~ PanicsAt(job.controllers[i], f)
          /\ Built(Chunks(ctrls, f)[h]).who = job.controllers[i].who
          /\ Built(Chunks(ctrls, f)[h]).start = StartAt(job.controllers[i], f)
  BY <1>8, <1>10
<1>12. \A i \in DOMAIN job.controllers : AsksAt(job.controllers[i], f) =>
          /\ ~ PanicsAt(job.controllers[i], f)
          /\ \E h \in DOMAIN Chunks(ctrls, f) :
                /\ Built(Chunks(ctrls, f)[h]).who = job.controllers[i].who
                /\ Built(Chunks(ctrls, f)[h]).start = StartAt(job.controllers[i], f)
  BY <1>9, <1>10
<1>13. QED
  BY <1>11, <1>12, Zenon

(* A turn of sign_with_thread asks for exactly what the controllers say.    *)
LEMMA AskedAskControllers ==
  ASSUME SessionInv, AskedInv, AskControllers
  PROVE  AskedInv'
<1>1. /\ ~ job.app /\ taken < job.frames /\ taken' = taken + 1 /\ thread = "running"
      /\ UNCHANGED job
  BY DEF AskControllers, NextFrameReady
<1>2. job \in Jobs /\ taken \in Nat /\ job.frames \in Nat \ {0}
  BY NewControllers DEF SessionInv
<1>3. PICK k \in Nat \ {0} : k = taken + 1
  BY <1>2
<1>4. PICK f : f = FrameState(job, k)
  OBVIOUS
<1>5. \/ thread' = "panicked" /\ UNCHANGED <<ctrls, asked, pending>>
      \/ /\ ~ TurnPanics(ctrls, f) /\ AskFor(Chunks(ctrls, f), k)
         /\ ctrls' = AfterTurn(ctrls, f) /\ UNCHANGED thread
  BY <1>3, <1>4 DEF AskControllers
<1>6. \A c, a : AskedBy(c, a)' <=> AskedBy(c, a)
  BY <1>1 DEF AskedBy
<1>7. CASE thread' = "panicked" /\ UNCHANGED <<ctrls, asked, pending>>
  <2>1. SettingsInv' /\ WholeStarts'
    BY <1>1, <1>7 DEF AskedInv, SettingsInv, WholeStarts
  <2>2. \A h : IsAskedAbout(h)' => IsAskedAbout(h)
    <3>1. ASSUME NEW h \in 1..k, h # k
          PROVE  h \in 1..taken
      BY <3>1, <1>2, <1>3
    <3>2. QED
      BY <3>1, <1>1, <1>3, <1>7 DEF IsAskedAbout
  <2>3. ExactlyAsked'
    BY <2>2, <1>1, <1>6, <1>7 DEF AskedInv, ExactlyAsked
  <2>4. QED
    BY <2>1, <2>3 DEF AskedInv
<1>8. CASE /\ ~ TurnPanics(ctrls, f) /\ AskFor(Chunks(ctrls, f), k)
           /\ ctrls' = AfterTurn(ctrls, f) /\ UNCHANGED thread
  <2>1. PICK n \in Nat : DOMAIN ctrls = 1..n
    BY DEF SessionInv, ControllersOK
  <2>2. PICK chunks : chunks = Chunks(ctrls, f)
    OBVIOUS
  <2>3. chunks \in Seq(ToSet(chunks))
    <3>1. PICK cs : cs = ctrls
      OBVIOUS
    <3>2. cs # <<>> => 1 \in DOMAIN cs
      BY <3>1 DEF SessionInv, ControllersOK
    <3>3. DOMAIN cs = 1..n /\ \A i \in 1..n : IsController(cs[i])
      BY <2>1, <3>1 DEF SessionInv, ControllersOK
    <3>4. f.time.start \in Int /\ f.time.end \in Int
      BY <1>2, <1>4, FrameTimes
    <3>5. Chunks(cs, f) \in Seq(ToSet(Chunks(cs, f)))
      BY <3>2, <3>3, <3>4, ChunksType
    <3>6. QED
      BY <3>1, <3>5, <2>2
  <2>4. PICK js : js = job.controllers
    OBVIOUS
  <2>5. /\ \A h \in DOMAIN chunks : \E i \in DOMAIN js :
              /\ AsksAt(js[i], f) /\ ~ PanicsAt(js[i], f)
              /\ Built(chunks[h]).who = js[i].who
              /\ Built(chunks[h]).start = StartAt(js[i], f)
        /\ \A i \in DOMAIN js : AsksAt(js[i], f) =>
              /\ ~ PanicsAt(js[i], f)
              /\ \E h \in DOMAIN chunks :
                    /\ Built(chunks[h]).who = js[i].who
                    /\ Built(chunks[h]).start = StartAt(js[i], f)
    <3>1. /\ \A h \in DOMAIN Chunks(ctrls, f) : \E i \in DOMAIN job.controllers :
               /\ AsksAt(job.controllers[i], f) /\ ~ PanicsAt(job.controllers[i], f)
               /\ Built(Chunks(ctrls, f)[h]).who = job.controllers[i].who
               /\ Built(Chunks(ctrls, f)[h]).start = StartAt(job.controllers[i], f)
          /\ \A i \in DOMAIN job.controllers : AsksAt(job.controllers[i], f) =>
               /\ ~ PanicsAt(job.controllers[i], f)
               /\ \E h \in DOMAIN Chunks(ctrls, f) :
                     /\ Built(Chunks(ctrls, f)[h]).who = job.controllers[i].who
                     /\ Built(Chunks(ctrls, f)[h]).start = StartAt(job.controllers[i], f)
      BY <1>8, TurnAsks DEF AskedInv
    <3>2. QED
      BY <3>1, <2>2, <2>4
  <2>6. AskFor(chunks, k)
    BY <1>8, <2>2
  <2>7. /\ DOMAIN asked \subseteq DOMAIN asked'
        /\ \A m \in DOMAIN asked : asked'[m] = asked[m]
        /\ \A m \in DOMAIN asked' \ DOMAIN asked : \E h \in DOMAIN chunks :
              asked'[m] = [chunk |-> Built(chunks[h]), frame |-> k]
        /\ \A h \in DOMAIN chunks : \E m \in DOMAIN asked' \ DOMAIN asked :
              asked'[m] = [chunk |-> Built(chunks[h]), frame |-> k]
    BY <1>2, <1>3, <2>3, <2>6, AskForAll
  <2>8. SettingsInv'
    <3>1. /\ DOMAIN ctrls' = 1..n
          /\ \A i \in 1..n : \E b : ctrls'[i] = [ctrls[i] EXCEPT !.started = b]
      BY <2>1, <1>8 DEF AfterTurn, AfterFrame, FnAfterFrame
    <3>2. \A i \in 1..n : SameSettings(ctrls[i], js[i]) /\ IsController(ctrls[i])
      BY <2>1, <2>4 DEF AskedInv, SettingsInv, SessionInv, ControllersOK
    <3>3. ASSUME NEW i \in 1..n
          PROVE  SameSettings(ctrls'[i], js[i])
      <4>1. PICK c, b : c = ctrls[i] /\ ctrls'[i] = [c EXCEPT !.started = b]
        BY <3>1
      <4>2. SameSettings(c, js[i])
        BY <3>2, <4>1
      <4>3. {"kind", "who", "interval", "range"} \subseteq DOMAIN c
        BY <3>2, <4>1 DEF IsController
      <4>4. PICK e : e = [c EXCEPT !.started = b]
        OBVIOUS
      <4>5. e.kind = c.kind /\ e.who = c.who /\ e.interval = c.interval /\ e.range = c.range
        BY <4>3, <4>4
      <4>6. QED
        BY <4>1, <4>2, <4>4, <4>5 DEF SameSettings
    <3>4. DOMAIN js = 1..n
      BY <2>1, <2>4 DEF AskedInv, SettingsInv
    <3>5. QED
      BY <3>1, <3>3, <3>4, <2>4, <1>1 DEF SettingsInv
  <2>9. ASSUME NEW m \in DOMAIN asked' \ DOMAIN asked
        PROVE  \E i \in DOMAIN js : AskedBy(js[i], asked'[m])
    <3>1. PICK h \in DOMAIN chunks : asked'[m] = [chunk |-> Built(chunks[h]), frame |-> k]
      BY <2>7
    <3>2. PICK i \in DOMAIN js : /\ AsksAt(js[i], f) /\ ~ PanicsAt(js[i], f)
                                 /\ Built(chunks[h]).who = js[i].who
                                 /\ Built(chunks[h]).start = StartAt(js[i], f)
      BY <2>5
    <3>3. asked'[m].chunk = Built(chunks[h]) /\ asked'[m].frame = k
      BY <3>1
    <3>4. QED
      BY <3>2, <3>3, <1>4 DEF AskedBy
  <2>10. WholeStarts'
    <3>1. ASSUME NEW m \in DOMAIN asked'
          PROVE  IsWhole(asked'[m].chunk.start)
      <4>1. CASE m \in DOMAIN asked
        BY <4>1, <2>7 DEF AskedInv, WholeStarts
      <4>2. CASE m \notin DOMAIN asked
        <5>1. PICK i \in DOMAIN js : AskedBy(js[i], asked'[m])
          BY <4>2, <2>9
        <5>2. asked'[m].frame = k
          BY <4>2, <2>7
        <5>3. IsController(js[i])
          BY <1>2, <2>4, NewControllers
        <5>4. IsWhole(StartAt(js[i], FrameState(job, k)))
          BY <5>1, <5>2, <5>3, <1>2, StartWhole DEF AskedBy
        <5>5. QED
          BY <5>1, <5>2, <5>4 DEF AskedBy
      <4>3. QED
        BY <4>1, <4>2
    <3>2. QED
      BY <3>1 DEF WholeStarts
  <2>11. ASSUME NEW m \in DOMAIN asked'
         PROVE  \E i \in DOMAIN js : AskedBy(js[i], asked'[m])
    <3>1. CASE m \in DOMAIN asked
      BY <3>1, <2>4, <2>7, <1>1 DEF AskedInv, ExactlyAsked
    <3>2. QED
      BY <3>1, <2>9
  <2>12. ASSUME NEW h \in 1..job.frames, IsAskedAbout(h)', NEW i \in DOMAIN js,
                AsksAt(js[i], FrameState(job, h))
         PROVE  \E m \in DOMAIN asked' : asked'[m].frame = h /\ AskedBy(js[i], asked'[m])
    <3>1. h \in 1..k
      BY <2>12, <1>1, <1>3 DEF IsAskedAbout
    <3>2. CASE h = k
      <4>1. PICK g \in DOMAIN chunks : /\ Built(chunks[g]).who = js[i].who
                                       /\ Built(chunks[g]).start = StartAt(js[i], f)
        BY <2>5, <2>12, <3>2, <1>4
      <4>2. PICK m \in DOMAIN asked' : asked'[m] = [chunk |-> Built(chunks[g]), frame |-> k]
        BY <2>7
      <4>3. asked'[m].chunk = Built(chunks[g]) /\ asked'[m].frame = k
        BY <4>2
      <4>4. ~ PanicsAt(js[i], f)
        BY <2>5, <2>12, <3>2, <1>4
      <4>5. QED
        BY <4>1, <4>3, <4>4, <3>2, <2>12, <1>4 DEF AskedBy
    <3>3. CASE h # k
      <4>1. h \in 1..taken
        BY <3>1, <3>3, <1>2, <1>3
      <4>2. IsAskedAbout(h)
        BY <4>1, <1>1 DEF IsAskedAbout
      <4>3. PICK m \in DOMAIN asked : asked[m].frame = h /\ AskedBy(js[i], asked[m])
        BY <4>2, <2>4, <2>12, <1>1 DEF AskedInv, ExactlyAsked
      <4>4. QED
        BY <4>3, <2>7
    <3>4. QED
      BY <3>2, <3>3
  <2>13. ExactlyAsked'
    BY <2>4, <2>11, <2>12, <1>1, <1>6 DEF ExactlyAsked
  <2>14. QED
    BY <2>8, <2>10, <2>13 DEF AskedInv
<1>9. QED
  BY <1>5, <1>7, <1>8

(* The signer's GUI asks for chunks from a whole millisecond.               *)
LEMMA AskedGuiTurn ==
  ASSUME SessionInv, AskedInv, GuiTurn
  PROVE  AskedInv'
<1>1. job.app /\ UNCHANGED <<job, ctrls, thread>> /\ taken' = taken + 1
  BY DEF GuiTurn, Up
<1>2. taken \in Nat
  BY NewControllers DEF SessionInv
<1>3. PICK k \in Nat : k = taken + 1
  BY <1>2
<1>4. SettingsInv' /\ ExactlyAsked'
  BY <1>1 DEF AskedInv, SettingsInv, ExactlyAsked
<1>5. \/ AskFor(<< GuiChunk(lastSign, "alice") >>, k)
      \/ UNCHANGED asked
  BY <1>3 DEF GuiTurn
<1>6. WholeStarts'
  <2>1. CASE UNCHANGED asked
    BY <2>1 DEF AskedInv, WholeStarts
  <2>2. CASE AskFor(<< GuiChunk(lastSign, "alice") >>, k)
    <3>1. PICK q : q = GuiChunk(lastSign, "alice")
      OBVIOUS
    <3>2. PICK chunks : chunks = << q >>
      OBVIOUS
    <3>3. chunks \in Seq(ToSet(chunks)) /\ DOMAIN chunks = {1} /\ chunks[1] = q
      BY <3>2 DEF ToSet
    <3>4. AskFor(chunks, k)
      BY <2>2, <3>1, <3>2
    <3>5. /\ DOMAIN asked \subseteq DOMAIN asked'
          /\ \A m \in DOMAIN asked : asked'[m] = asked[m]
          /\ \A m \in DOMAIN asked' \ DOMAIN asked : \E h \in DOMAIN chunks :
                asked'[m] = [chunk |-> Built(chunks[h]), frame |-> k]
          /\ \A h \in DOMAIN chunks : \E m \in DOMAIN asked' \ DOMAIN asked :
                asked'[m] = [chunk |-> Built(chunks[h]), frame |-> k]
      BY <3>3, <3>4, AskForAll
    <3>6. Built(q).start = FloorMillis(lastSign) /\ lastSign \in Nat
      BY <3>1, GuiChunkIs DEF SessionInv
    <3>7. IsWhole(Built(q).start)
      BY <3>6, FlooredWhole
    <3>8. ASSUME NEW m \in DOMAIN asked'
          PROVE  IsWhole(asked'[m].chunk.start)
      <4>1. CASE m \in DOMAIN asked
        BY <4>1, <3>5 DEF AskedInv, WholeStarts
      <4>2. CASE m \notin DOMAIN asked
        <5>1. asked'[m] = [chunk |-> Built(q), frame |-> k]
          BY <4>2, <3>3, <3>5
        <5>2. asked'[m].chunk = Built(q)
          BY <5>1
        <5>3. QED
          BY <5>2, <3>7
      <4>3. QED
        BY <4>1, <4>2
    <3>9. QED
      BY <3>8 DEF WholeStarts
  <2>3. QED
    BY <1>5, <2>1, <2>2
<1>7. QED
  BY <1>4, <1>6 DEF AskedInv

(* In every state, what was asked for is what the controllers ask for.      *)
LEMMA AskedStep ==
  ASSUME SessionInv, AskedInv, [Next]_appVars
  PROVE  AskedInv'
<1>1. CASE UNCHANGED <<job, taken, ctrls, asked, thread>>
  BY <1>1, AskedStays
<1>2. CASE UNCHANGED sessionVars
  BY <1>1, <1>2 DEF sessionVars
<1>3. CASE Menu
  <2>1. CASE (\E j \in Jobs : ChooseVideo(j)) \/ ChooseOutput
    BY <1>2, <2>1 DEF ChooseVideo, ChooseOutput
  <2>2. CASE GoToVideo
    <3>1. UNCHANGED sessionVars \/ Start(src)
      BY <2>2 DEF GoToVideo, SpawnPlayer, WatchVideo
    <3>2. CASE Start(src)
      <4>1. ctrls' = job'.controllers /\ asked' = <<>> /\ taken' = 0
        BY <3>2 DEF Start
      <4>2. SettingsInv'
        BY <4>1 DEF SettingsInv, SameSettings
      <4>3. DOMAIN asked' = {} /\ \A k \in 1..job'.frames : ~ IsAskedAbout(k)'
        BY <4>1 DEF IsAskedAbout
      <4>4. QED
        BY <4>2, <4>3 DEF AskedInv, ExactlyAsked, WholeStarts
    <3>3. QED
      BY <3>1, <3>2, <1>2
  <2>3. QED
    BY <1>3, <2>1, <2>2 DEF Menu
<1>4. CASE VideoView
  <2>1. CASE PressEnter \/ PressSpace \/ PaintOverlay
    BY <1>2, <2>1 DEF PressEnter, PressSpace, PaintOverlay, GoDown
  <2>2. CASE RunIdle
    <3>1. UNCHANGED <<job, taken, ctrls, asked, thread>>
      BY <2>2 DEF RunIdle, ShowFrame, ShowSign, Finish, GoDown, sessionVars
    <3>2. QED
      BY <3>1, <1>1
  <2>3. QED
    BY <1>4, <2>1, <2>2 DEF VideoView
<1>5. CASE NextSession
  <2>1. CASE AskControllers
    BY <2>1, AskedAskControllers
  <2>2. CASE ThreadEnds
    <3>1. UNCHANGED <<job, taken, ctrls, asked>> /\ thread # "panicked"
      BY <2>2 DEF ThreadEnds
    <3>2. QED
      BY <3>1, AskedStays
  <2>3. CASE Answer \/ Collect \/ WriteFile
    BY <1>1, <2>3 DEF Answer, Receive, ReceiveError, Collect, WriteFile
  <2>4. QED
    BY <1>5, <2>1, <2>2, <2>3 DEF NextSession
<1>6. CASE WatchEnds
  BY <1>2, <1>6 DEF WatchEnds
<1>7. CASE Signing
  BY <1>3, <1>4, <1>5, <1>6, <1>7, AskedGuiTurn DEF Signing, NextGui, GuiSession
<1>8. QED
  BY <1>2, <1>7 DEF Next, Verifying, appVars

(* And from the start.                                                      *)
LEMMA AskedInit == Init => AskedInv
<1> SUFFICES ASSUME Init
             PROVE  AskedInv
  OBVIOUS
<1>1. ctrls = job.controllers /\ asked = <<>> /\ taken = 0
  BY DEF Init, InitSession
<1>2. QED
  BY <1>1, AskedStart

-----------------------------------------------------------------------------
(* Every answer has its place in the file.                                  *)

(* Asking answers nothing.                                                  *)
LEMMA AskingAnswersNothing ==
  ASSUME SessionInv, AskControllers \/ GuiTurn
  PROVE  /\ UNCHANGED <<job, file, reader, disk>> /\ Answered' = Answered
         /\ \A n \in Answered : asked'[n] = asked[n]
<1>1. UNCHANGED <<job, failed, file, reader, disk>>
  BY DEF AskControllers, GuiTurn
<1>2. taken \in Nat
  BY NewControllers DEF SessionInv
<1>3. PICK k \in Nat \ {0} : k = taken + 1
  BY <1>2
<1>4. CASE UNCHANGED <<asked, pending>>
  BY <1>1, <1>4 DEF Answered
<1>5. ASSUME NEW chunks, chunks \in Seq(ToSet(chunks)), AskFor(chunks, k)
      PROVE  Answered' = Answered /\ \A n \in Answered : asked'[n] = asked[n]
  <2>1. PICK new : new = (Len(asked) + 1)..(Len(asked) + Len(chunks))
    OBVIOUS
  <2>2. /\ DOMAIN asked' = DOMAIN asked \cup new /\ DOMAIN asked = 1..Len(asked)
        /\ Len(asked) \in Nat /\ Len(chunks) \in Nat
        /\ \A n \in DOMAIN asked : asked'[n] = asked[n]
        /\ pending' = pending \cup new
    <3>1. /\ asked' \in Seq(ToSet(asked'))
          /\ DOMAIN asked' = DOMAIN asked \cup (Len(asked) + 1)..(Len(asked) + Len(chunks))
          /\ DOMAIN asked = 1..Len(asked) /\ Len(asked) \in Nat /\ Len(chunks) \in Nat
          /\ \A n \in DOMAIN asked : asked'[n] = asked[n]
          /\ \A n \in DOMAIN asked' \ DOMAIN asked : \E i \in DOMAIN chunks :
                asked'[n] = [chunk |-> Built(chunks[i]), frame |-> k]
          /\ pending' = pending \cup (Len(asked) + 1)..(Len(asked) + Len(chunks))
      BY <1>5, AskForAppends
    <3>2. QED
      BY <3>1, <2>1, Zenon
  <2>3. new \cap DOMAIN asked = {}
    BY <2>1, <2>2
  <2>4. failed \subseteq DOMAIN asked
    BY DEF SessionInv, AnswersOK
  <2>5. DOMAIN asked' \ (pending' \cup failed) = DOMAIN asked \ (pending \cup failed)
    BY <2>2, <2>3, <2>4
  <2>6. QED
    BY <2>2, <2>5, <1>1 DEF Answered
<1>6. CASE AskControllers
  <2>1. PICK f : f = FrameState(job, k)
    OBVIOUS
  <2>2. UNCHANGED <<asked, pending>> \/ AskFor(Chunks(ctrls, f), k)
    BY <1>3, <1>6, <2>1 DEF AskControllers
  <2>3. PICK chunks : chunks = Chunks(ctrls, f)
    OBVIOUS
  <2>4. chunks \in Seq(ToSet(chunks))
    <3>1. PICK cs : cs = ctrls
      OBVIOUS
    <3>2. PICK n \in Nat : DOMAIN cs = 1..n /\ \A i \in 1..n : IsController(cs[i])
      BY <3>1 DEF SessionInv, ControllersOK
    <3>3. cs # <<>> => 1 \in DOMAIN cs
      BY <3>1 DEF SessionInv, ControllersOK
    <3>4. f.time.start \in Int /\ f.time.end \in Int
      BY <2>1, FrameTimes DEF SessionInv
    <3>5. Chunks(cs, f) \in Seq(ToSet(Chunks(cs, f)))
      BY <3>2, <3>3, <3>4, ChunksType
    <3>6. QED
      BY <3>1, <3>5, <2>3
  <2>5. QED
    BY <2>2, <2>3, <2>4, <1>1, <1>4, <1>5
<1>7. CASE GuiTurn
  <2>1. AskFor(<< GuiChunk(lastSign, "alice") >>, k) \/ UNCHANGED <<asked, pending>>
    BY <1>3, <1>7 DEF GuiTurn
  <2>2. PICK q : q = GuiChunk(lastSign, "alice")
    OBVIOUS
  <2>3. PICK chunks : chunks = << q >>
    OBVIOUS
  <2>4. chunks \in Seq(ToSet(chunks))
    BY <2>3 DEF ToSet
  <2>5. QED
    BY <2>1, <2>2, <2>3, <2>4, <1>1, <1>4, <1>5
<1>8. QED
  BY <1>6, <1>7

(* Every step keeps the answers where they are in the file.                 *)
LEMMA PlacedStep ==
  ASSUME SessionInv, FileInv, PlacedInv, [Next]_appVars
  PROVE  PlacedInv'
<1>1. CASE UNCHANGED <<job, asked, pending, failed, file>> /\ (reader' # "failed" => reader # "failed")
  <2>1. Answered' = Answered
    BY <1>1 DEF Answered
  <2>2. QED
    BY <2>1, <1>1, PlacedStays
<1>2. CASE UNCHANGED sessionVars
  BY <1>1, <1>2 DEF sessionVars
<1>3. CASE Menu
  <2>1. CASE (\E j \in Jobs : ChooseVideo(j)) \/ ChooseOutput
    BY <1>2, <2>1 DEF ChooseVideo, ChooseOutput
  <2>2. CASE GoToVideo
    <3>1. UNCHANGED sessionVars \/ Start(src)
      BY <2>2 DEF GoToVideo, SpawnPlayer, WatchVideo
    <3>2. CASE Start(src)
      <4>1. asked' = <<>> /\ file' = EmptyFile
        BY <3>2 DEF Start
      <4>2. Answered' = {} /\ DOMAIN file' = {}
        BY <4>1 DEF Answered, EmptyFile
      <4>3. PICK at : at = [ n \in {} |-> n ]
        OBVIOUS
      <4>4. IsPlacement(at)'
        BY <4>2, <4>3 DEF IsPlacement
      <4>5. QED
        BY <4>4 DEF PlacedInv
    <3>3. QED
      BY <3>1, <3>2, <1>2
  <2>3. QED
    BY <1>3, <2>1, <2>2 DEF Menu
<1>4. CASE VideoView
  <2>1. CASE PressEnter \/ PressSpace \/ PaintOverlay
    BY <1>2, <2>1 DEF PressEnter, PressSpace, PaintOverlay, GoDown
  <2>2. CASE RunIdle
    <3>1. UNCHANGED <<job, asked, pending, failed, file, reader>>
      BY <2>2 DEF RunIdle, ShowFrame, ShowSign, Finish, GoDown, sessionVars
    <3>2. QED
      BY <3>1, <1>1
  <2>3. QED
    BY <1>4, <2>1, <2>2 DEF VideoView
<1>5. CASE AskControllers \/ GuiTurn
  BY <1>5, AskingAnswersNothing, PlacedStays
<1>6. CASE NextSession
  <2>1. CASE ThreadEnds \/ WriteFile
    BY <1>1, <2>1 DEF ThreadEnds, WriteFile
  <2>2. CASE Collect
    BY <1>1, <2>2 DEF Collect
  <2>3. CASE Answer
    <3>1. PICK k \in DOMAIN asked : Receive(k) \/ ReceiveError(k)
      BY <2>3 DEF Answer
    <3>2. CASE Receive(k)
      BY <3>2, ReceivePlaces
    <3>3. CASE ReceiveError(k)
      <4>1. /\ UNCHANGED <<job, asked>> /\ k \in pending /\ failed' = failed \cup {k}
            /\ \/ reader' = "failed"
               \/ pending' = pending \ {k} /\ UNCHANGED <<reader, file>>
        BY <3>3 DEF ReceiveError, NextOfFrame
      <4>2. CASE reader' = "failed"
        BY <4>2 DEF PlacedInv
      <4>3. CASE pending' = pending \ {k} /\ UNCHANGED <<reader, file>>
        <5>1. Answered' = DOMAIN asked \ ((pending \ {k}) \cup (failed \cup {k}))
          BY <4>1, <4>3 DEF Answered
        <5>2. Answered' = Answered
          BY <5>1, <4>1 DEF Answered
        <5>3. QED
          BY <5>2, <4>1, <4>3, PlacedStays
      <4>4. QED
        BY <4>1, <4>2, <4>3
    <3>4. QED
      BY <3>1, <3>2, <3>3
  <2>4. QED
    BY <1>5, <1>6, <2>1, <2>2, <2>3 DEF NextSession
<1>7. CASE WatchEnds
  BY <1>2, <1>7 DEF WatchEnds
<1>8. CASE Signing
  BY <1>3, <1>4, <1>5, <1>6, <1>7, <1>8 DEF Signing, NextGui, GuiSession
<1>9. QED
  BY <1>2, <1>8 DEF Next, Verifying, appVars

(* Nothing is answered at first.                                            *)
LEMMA PlacedInit == Init => PlacedInv
<1> SUFFICES ASSUME Init
             PROVE  PlacedInv
  OBVIOUS
<1>1. asked = <<>> /\ file = EmptyFile
  BY DEF Init, InitSession
<1>2. Answered = {}
  BY <1>1 DEF Answered
<1>3. QED
  BY <1>1, <1>2, NothingPlaced

-----------------------------------------------------------------------------
(* What the verifier opens and shows.                                       *)

(* What was written is what was collected whenever the menu is back, which  *)
(* is when the verifier may be started.                                     *)
DiskInv ==
    /\ ReaderOK
    /\ player = "running" => view = "video"
    /\ \A i \in DOMAIN idle : idle[i].do = "done" =>
          i = Len(idle) /\ reader = "collected" /\ player = "done" /\ view = "video"
    /\ view = "menu" /\ disk # None => disk = Written(file) /\ reader = "collected"

(* While a session is not collected nothing is done.                        *)
LEMMA NotDoneBefore ==
  ASSUME DiskInv, reader # "collected"
  PROVE  /\ \A i \in DOMAIN idle : idle[i].do # "done"
         /\ view = "menu" => disk = None
BY DEF DiskInv

(* A session that goes on where nothing is done.                            *)
LEMMA DiskGoesOn ==
  ASSUME DiskInv, reader # "collected", UNCHANGED <<view, player, idle, disk>>, ReaderOK'
  PROVE  DiskInv'
<1>1. /\ \A i \in DOMAIN idle : idle[i].do # "done"
      /\ view = "menu" => disk = None
  BY NotDoneBefore
<1>2. QED
  BY <1>1 DEF DiskInv

(* The UI thread runs a callback.                                           *)
LEMMA DiskRunIdle ==
  ASSUME OverlayInv, DiskInv, RunIdle
  PROVE  DiskInv'
<1>1. idle \in Seq(Callbacks) /\ idle # <<>>
  BY DEF OverlayInv, GuiTypes, RunIdle
<1>2. PICK m \in Nat : DOMAIN idle = 1..(m + 1) /\ Len(idle) = m + 1
  <2>1. Len(idle) \in Nat /\ Len(idle) # 0 /\ DOMAIN idle = 1..Len(idle)
    BY <1>1
  <2>2. Len(idle) - 1 \in Nat /\ Len(idle) = (Len(idle) - 1) + 1
    BY <2>1
  <2>3. QED
    BY <2>1, <2>2
<1>3. /\ Head(idle) = idle[1] /\ idle' = Tail(idle) /\ DOMAIN idle' = 1..m /\ Len(idle') = m
      /\ \A i \in 1..m : idle'[i] = idle[i + 1]
  BY <1>1, <1>2 DEF RunIdle
<1>4. 1 \in DOMAIN idle /\ \A i \in 1..m : i + 1 \in DOMAIN idle
  BY <1>2
<1>5. UNCHANGED <<job, taken, ctrls, thread, asked, pending, failed, file, reader, player>>
  BY DEF RunIdle, ShowFrame, ShowSign, Finish, GoDown, sessionVars
<1>6. ReaderOK'
  BY <1>5 DEF DiskInv, ReaderOK
<1>7. CASE UNCHANGED <<view, disk>>
  <2>1. ASSUME NEW i \in 1..m, idle'[i].do = "done"
        PROVE  i = m /\ reader = "collected" /\ player = "done" /\ view = "video"
    <3>1. idle[i + 1].do = "done" /\ i + 1 \in DOMAIN idle
      BY <2>1, <1>3, <1>4
    <3>2. i + 1 = m + 1 /\ reader = "collected" /\ player = "done" /\ view = "video"
      BY <3>1, <1>2 DEF DiskInv
    <3>3. QED
      BY <3>2, <1>2
  <2>2. \A i \in DOMAIN idle' : idle'[i].do = "done" =>
           i = Len(idle') /\ reader = "collected" /\ player = "done" /\ view = "video"
    BY <2>1, <1>3
  <2>3. QED
    BY <2>2, <1>5, <1>6, <1>7 DEF DiskInv
<1>8. CASE idle[1].do = "done" /\ Finish
  <2>1. m + 1 = 1 /\ reader = "collected" /\ player = "done"
    BY <1>2, <1>4, <1>8 DEF DiskInv
  <2>2. DOMAIN idle' = {}
    BY <2>1, <1>2, <1>3
  <2>3. disk' = Written(file)' /\ view' = "menu"
    BY <1>5, <1>8 DEF Finish
  <2>4. QED
    BY <2>1, <2>2, <2>3, <1>5, <1>6 DEF DiskInv
<1>9. QED
  BY <1>3, <1>7, <1>8 DEF RunIdle, ShowFrame, ShowSign, GoDown, sessionVars

(* The player takes a frame, and shows it.                                  *)
LEMMA DiskGuiTurn ==
  ASSUME SessionInv, OverlayInv, DiskInv, GuiTurn
  PROVE  DiskInv'
<1>1. /\ thread = "running" /\ UNCHANGED <<thread, reader, view, player, disk, file>>
  BY DEF GuiTurn, NextFrameReady
<1>2. reader # "collected"
  BY <1>1 DEF DiskInv, ReaderOK
<1>3. /\ \A i \in DOMAIN idle : idle[i].do # "done"
      /\ view = "menu" => disk = None
  BY <1>2, NotDoneBefore
<1>4. PICK at, u : /\ u \in { << Callback("frame", at), Callback("sign", at) >>, << Callback("frame", at) >> }
                   /\ idle' = idle \o u
  BY DEF GuiTurn, Left
<1>5. PICK S : idle \in Seq(S) /\ u \in Seq(S)
  <2>1. PICK x, y : x = Callback("frame", at) /\ y = Callback("sign", at)
    OBVIOUS
  <2>2. u = <<x, y>> \/ u = <<x>>
    BY <2>1, <1>4
  <2>3. u \in Seq(Callbacks \cup {x, y})
    BY <2>2
  <2>4. idle \in Seq(Callbacks \cup {x, y})
    BY DEF OverlayInv, GuiTypes
  <2>5. QED
    BY <2>3, <2>4
<1>6. \A i \in DOMAIN u : u[i].do # "done"
  <2>1. PICK x, y : x = Callback("frame", at) /\ y = Callback("sign", at)
    OBVIOUS
  <2>2. x.do # "done" /\ y.do # "done"
    BY <2>1 DEF Callback
  <2>3. \A i \in DOMAIN u : u[i] = x \/ u[i] = y
    <3>1. CASE u = <<x, y>>
      BY <3>1
    <3>2. CASE u = <<x>>
      BY <3>2
    <3>3. QED
      BY <3>1, <3>2, <2>1, <1>4
  <2>4. QED
    BY <2>2, <2>3
<1>7. \A i \in DOMAIN idle' : idle'[i].do # "done"
  <2>1. /\ DOMAIN (idle \o u) = 1..(Len(idle) + Len(u)) /\ Len(idle) \in Nat /\ Len(u) \in Nat
        /\ \A i \in 1..Len(idle) : (idle \o u)[i] = idle[i]
        /\ \A i \in 1..Len(u) : (idle \o u)[Len(idle) + i] = u[i]
    BY <1>5, Behind
  <2>2. ASSUME NEW i \in 1..(Len(idle) + Len(u))
        PROVE  (idle \o u)[i].do # "done"
    <3>1. CASE i \in 1..Len(idle)
      <4>1. i \in DOMAIN idle
        BY <3>1, <1>5
      <4>2. QED
        BY <3>1, <4>1, <2>1, <1>3
    <3>2. CASE i \notin 1..Len(idle)
      <4>1. PICK h \in 1..Len(u) : i = Len(idle) + h
        <5>1. i - Len(idle) \in 1..Len(u) /\ i = Len(idle) + (i - Len(idle))
          BY <3>2, <2>1
        <5>2. QED
          BY <5>1
      <4>2. h \in DOMAIN u
        BY <4>1, <1>5
      <4>3. QED
        BY <4>1, <4>2, <2>1, <1>6
    <3>3. QED
      BY <3>1, <3>2
  <2>3. QED
    BY <2>1, <2>2, <1>4
<1>8. QED
  BY <1>1, <1>2, <1>3, <1>7 DEF DiskInv, ReaderOK

(* watch_video behind try_collect.                                          *)
LEMMA DiskWatchEnds ==
  ASSUME OverlayInv, DiskInv, WatchEnds
  PROVE  DiskInv'
<1>1. /\ player = "running" /\ UNCHANGED sessionVars /\ UNCHANGED view
  BY DEF WatchEnds
<1>2. UNCHANGED <<thread, pending, file, reader, disk>>
  BY <1>1 DEF sessionVars
<1>3. view = "video" /\ \A i \in DOMAIN idle : idle[i].do # "done"
  BY <1>1 DEF DiskInv
<1>4. CASE player' = "dead" /\ UNCHANGED idle
  BY <1>1, <1>2, <1>3, <1>4 DEF DiskInv, ReaderOK
<1>5. CASE /\ reader = "collected" /\ player' = "done"
           /\ idle' = Append(idle, Callback("done", None))
  <2>1. PICK x : x = Callback("done", None)
    OBVIOUS
  <2>2. PICK S : idle \in Seq(S) /\ x \in S
    <3>1. idle \in Seq(Callbacks \cup {x})
      BY DEF OverlayInv, GuiTypes
    <3>2. QED
      BY <3>1
  <2>3. PICK n \in Nat : n = Len(idle) /\ DOMAIN idle = 1..n
    BY <2>2
  <2>4. /\ DOMAIN idle' = 1..(n + 1) /\ Len(idle') = n + 1
        /\ \A i \in 1..n : idle'[i] = idle[i]
    BY <2>1, <2>2, <2>3, <1>5
  <2>5. \A i \in 1..(n + 1) : i \in 1..n \/ i = n + 1
    BY <2>3
  <2>6. \A i \in DOMAIN idle' : idle'[i].do = "done" => i = Len(idle')
    BY <2>3, <2>4, <2>5, <1>3
  <2>7. QED
    BY <2>6, <1>1, <1>2, <1>3, <1>5 DEF DiskInv, ReaderOK
<1>6. QED
  BY <1>4, <1>5 DEF WatchEnds

(* Every step keeps what was written true.                                  *)
LEMMA DiskStep ==
  ASSUME SessionInv, OverlayInv, DiskInv, [Next]_appVars
  PROVE  DiskInv'
<1>1. CASE UNCHANGED sessionVars /\ UNCHANGED <<view, player, idle>>
  BY <1>1 DEF sessionVars, DiskInv, ReaderOK
<1>2. CASE Menu
  <2>1. CASE (\E j \in Jobs : ChooseVideo(j)) \/ ChooseOutput
    BY <1>1, <2>1 DEF ChooseVideo, ChooseOutput
  <2>2. CASE GoToVideo
    <3>1. /\ view = "menu" /\ view' = "video" /\ UNCHANGED idle
          /\ \/ player' = "dead" /\ UNCHANGED sessionVars
             \/ Start(src)
      BY <2>2 DEF GoToVideo, SpawnPlayer, WatchVideo
    <3>2. \A i \in DOMAIN idle : idle[i].do # "done"
      BY <3>1 DEF DiskInv
    <3>3. ReaderOK'
      BY <3>1 DEF DiskInv, ReaderOK, sessionVars, Start
    <3>4. QED
      BY <3>1, <3>2, <3>3 DEF DiskInv
  <2>3. QED
    BY <1>2, <2>1, <2>2 DEF Menu
<1>3. CASE VideoView
  <2>1. CASE PressEnter \/ PressSpace \/ PaintOverlay
    BY <1>1, <2>1 DEF PressEnter, PressSpace, PaintOverlay, GoDown
  <2>2. QED
    BY <1>3, <2>1, DiskRunIdle DEF VideoView
<1>4. CASE NextSession /\ UNCHANGED guiVars
  <2>1. UNCHANGED <<view, player, idle>>
    BY <1>4 DEF guiVars
  <2>2. CASE AskControllers
    <3>1. thread = "running" /\ UNCHANGED <<reader, disk>>
      BY <2>2 DEF AskControllers, NextFrameReady
    <3>2. reader # "collected"
      BY <3>1 DEF DiskInv, ReaderOK
    <3>3. QED
      BY <3>1, <3>2, <2>1, DiskGoesOn DEF ReaderOK
  <2>3. CASE ThreadEnds
    BY <2>1, <2>3 DEF ThreadEnds, DiskInv, ReaderOK
  <2>4. CASE Answer
    <3>1. reader = "open" /\ reader' \in {"open", "failed"} /\ UNCHANGED disk
      BY <2>4 DEF Answer, Receive, ReceiveError
    <3>2. QED
      BY <3>1, <2>1, DiskGoesOn DEF ReaderOK
  <2>5. CASE Collect
    <3>1. reader = "open" /\ UNCHANGED disk /\ ReaderOK'
      BY <2>5 DEF Collect, ReaderOK
    <3>2. QED
      BY <3>1, <2>1, DiskGoesOn
  <2>6. CASE WriteFile
    <3>1. /\ reader = "collected" /\ disk' = Written(file)'
          /\ UNCHANGED <<thread, pending, reader>>
      BY <2>6 DEF WriteFile
    <3>2. QED
      BY <3>1, <2>1 DEF DiskInv, ReaderOK
  <2>7. QED
    BY <1>4, <2>2, <2>3, <2>4, <2>5, <2>6 DEF NextSession
<1>5. CASE UNCHANGED <<sessionVars, guiVars>>
  BY <1>1, <1>5 DEF guiVars
<1>6. CASE Signing
  BY <1>2, <1>3, <1>4, <1>6, DiskGuiTurn, DiskWatchEnds DEF Signing, NextGui, GuiSession
<1>7. QED
  BY <1>5, <1>6 DEF Next, Verifying, appVars

(* Nothing is written at first.                                             *)
LEMMA DiskInit == Init => DiskInv
BY DEF Init, InitSession, InitGui, DiskInv, ReaderOK

(* The signatures in the file for a frame, as the verifier looks them up.   *)
Hits(k) ==
    LET ms == FrameState(job, k).time.start \div Tick
    IN  { q \in DOMAIN file : file[q].start < ms + 1 /\ file[q].stop > ms }

IdAt(q) == file[q].val.presentation.id

(* A list shows the signatures of a frame, each once, in their order.       *)
Shows(s, k) ==
    /\ DOMAIN s = 1..Cardinality(Hits(k))
    /\ \A p \in DOMAIN s : s[p].who = IdAt(Nth(Hits(k), p))

(* A callback that is to show a frame shows that frame's signatures.        *)
ShowsItem(x) == x.frame # 0 => Shows(x.sigs, x.frame)

QueueShows == \A i \in DOMAIN vidle : ShowsItem(vidle[i])

ListShows == vshown # 0 => Shows(sigs, vshown)

(* The verifier has opened what was collected, and what it shows, or is     *)
(* about to, are the signatures of the frame.                               *)
ShowsInv ==
    /\ vplayer \in {"running", "done"} => opened = file /\ reader = "collected"
    /\ vplayer \notin {"running", "done"} => vidle = <<>> /\ vshown = 0
    /\ QueueShows /\ ListShows

(* What is handed out with a frame are its signatures.                      *)
LEMMA SigsOfShow ==
  ASSUME FileInv, reader = "collected", opened = file, NEW k
  PROVE  Shows(SigsOf(k), k)
<1>1. PICK n \in Nat : DOMAIN file = 1..n
  BY DEF FileInv
<1>2. PICK A : A = Hits(k) /\ A \in SUBSET (1..n)
  BY <1>1 DEF Hits
<1>3. PICK showing : showing = Kept(file, A)
  OBVIOUS
<1>4. /\ Cardinality(A) \in Nat /\ DOMAIN showing = 1..Cardinality(A)
      /\ \A p \in 1..Cardinality(A) : showing[p] = file[Nth(A, p)]
  BY <1>2, <1>3, KeptIs
<1>5. SignaturesAt(opened, FrameState(job, k).time.start) = showing
  BY <1>2, <1>3 DEF SignaturesAt, Hits
<1>6. PICK s : s = SigsOf(k) /\ s = [ p \in DOMAIN showing |-> SigState(showing[p]) ]
  BY <1>5 DEF SigsOf
<1>7. DOMAIN s = 1..Cardinality(A)
  BY <1>4, <1>6
<1>8. ASSUME NEW p \in DOMAIN s
      PROVE  s[p].who = IdAt(Nth(A, p))
  <2>1. s[p] = SigState(file[Nth(A, p)])
    BY <1>4, <1>6, <1>7, <1>8
  <2>2. QED
    BY <2>1 DEF SigState, IdAt
<1>9. QED
  BY <1>2, <1>6, <1>7, <1>8 DEF Shows

(* What shows a frame's signatures does so while the session rests.         *)
LEMMA ShowsStays ==
  ASSUME UNCHANGED <<job, file>>, NEW s, NEW k, Shows(s, k)
  PROVE  Shows(s, k)'
BY DEF Shows, Hits, IdAt

(* So does a callback, ...                                                  *)
LEMMA ItemStays ==
  ASSUME UNCHANGED <<job, file>>, NEW x, ShowsItem(x)
  PROVE  ShowsItem(x)'
<1>1. PICK s, k : s = x.sigs /\ k = x.frame
  OBVIOUS
<1>2. k = 0 \/ Shows(s, k)
  BY <1>1 DEF ShowsItem
<1>3. k = 0 \/ Shows(s, k)'
  BY <1>2, ShowsStays
<1>4. QED
  BY <1>1, <1>3 DEF ShowsItem

(* ... the callbacks that are left, ...                                     *)
LEMMA QueueStays ==
  ASSUME UNCHANGED <<job, file>>, QueueShows, NEW v, v = vidle',
         \A i \in DOMAIN v : \E h \in DOMAIN vidle : v[i] = vidle[h]
  PROVE  QueueShows'
<1>1. ASSUME NEW i \in DOMAIN v
      PROVE  ShowsItem(v[i])'
  <2>1. PICK x : x = v[i] /\ ShowsItem(x)
    BY <1>1 DEF QueueShows
  <2>2. ShowsItem(x)'
    BY <2>1, ItemStays
  <2>3. QED
    BY <2>1, <2>2
<1>2. QED
  BY <1>1 DEF QueueShows

(* ... and the list that is shown.                                          *)
LEMMA ListStays ==
  ASSUME UNCHANGED <<job, file, vshown, sigs>>, ListShows
  PROVE  ListShows'
<1>1. PICK s, k : s = sigs /\ k = vshown
  OBVIOUS
<1>2. k = 0 \/ Shows(s, k)
  BY <1>1 DEF ListShows
<1>3. k = 0 \/ Shows(s, k)'
  BY <1>2, ShowsStays
<1>4. QED
  BY <1>1, <1>3 DEF ListShows

(* Another callback is left for the verifier's UI thread.                   *)
LEMMA ShowsAppend ==
  ASSUME VerifierInv, QueueShows, UNCHANGED <<job, file>>, NEW x, vidle' = Append(vidle, x),
         ShowsItem(x)
  PROVE  QueueShows'
<1>1. PICK v : v = vidle /\ v \in Seq(ToSet(v) \cup {x})
  BY DEF VerifierInv
<1>2. PICK S : v \in Seq(S) /\ x \in S
  BY <1>1
<1>3. PICK n \in Nat : n = Len(v) /\ DOMAIN v = 1..n
  BY <1>2
<1>4. PICK w : w = vidle' /\ w = Append(v, x)
  BY <1>1
<1>5. /\ DOMAIN w = 1..(n + 1) /\ w[n + 1] = x
      /\ \A i \in 1..n : w[i] = v[i]
  BY <1>2, <1>3, <1>4
<1>6. ASSUME NEW i \in DOMAIN w
      PROVE  ShowsItem(w[i])'
  <2>1. i \in 1..n \/ i = n + 1
    BY <1>3, <1>5
  <2>2. PICK y : y = w[i] /\ ShowsItem(y)
    BY <2>1, <1>1, <1>3, <1>5 DEF QueueShows
  <2>3. ShowsItem(y)'
    BY <2>2, ItemStays
  <2>4. QED
    BY <2>2, <2>3
<1>7. QED
  BY <1>4, <1>6 DEF QueueShows

(* Every step of the verifier shows what is in the file.                    *)
LEMMA ShowsVerifying ==
  ASSUME SessionInv, FileInv, DiskInv, VerifierInv, ShowsInv, Verifying
  PROVE  ShowsInv'
<1>1. /\ view = "menu" /\ disk # None
      /\ UNCHANGED <<job, file, reader, disk>>
  BY DEF Verifying, sessionVars
<1>2. disk = Written(file) /\ reader = "collected"
  BY <1>1 DEF DiskInv
<1>3. CASE UNCHANGED <<opened, vplayer, vidle, vshown, sigs>>
  <2>1. QueueShows'
    <3>1. PICK v : v = vidle' /\ v = vidle
      BY <1>3
    <3>2. QED
      BY <3>1, <1>1, QueueStays DEF ShowsInv
  <2>2. ListShows'
    BY <1>1, <1>3, ListStays DEF ShowsInv
  <2>3. QED
    BY <2>1, <2>2, <1>1, <1>3 DEF ShowsInv
<1>4. CASE VChooseVideo \/ VChooseFile
  BY <1>3, <1>4 DEF VChooseVideo, VChooseFile
<1>5. CASE VGoToVideo
  <2>1. vplayer = "none" /\ UNCHANGED <<vidle, vshown, sigs>>
    BY <1>5 DEF VGoToVideo
  <2>2. vidle = <<>> /\ vshown = 0
    BY <2>1 DEF ShowsInv
  <2>3. vplayer' = "dead" \/ (vplayer' = "running" /\ opened' = Read(disk))
    BY <1>5 DEF VGoToVideo, VWatchVideo
  <2>4. Read(disk) = file
    BY <1>2, FileReadsBack
  <2>5. DOMAIN vidle' = {}
    BY <2>1, <2>2
  <2>6. QED
    BY <2>1, <2>2, <2>3, <2>4, <2>5, <1>1, <1>2 DEF ShowsInv, QueueShows, ListShows
<1>6. CASE VNextFrame
  <2>1. vplayer = "running" /\ UNCHANGED <<opened, vplayer, vshown, sigs>> /\ seen \in Nat
    BY <1>6, NewControllers DEF VNextFrame, VerifierInv, SessionInv
  <2>2. opened = file
    BY <2>1 DEF ShowsInv
  <2>3. CASE UNCHANGED vidle
    BY <1>3, <2>1, <2>3
  <2>4. CASE vidle' = Append(vidle, [frame |-> seen + 1, sigs |-> SigsOf(seen + 1)])
    <3>1. PICK k : k = seen + 1
      OBVIOUS
    <3>2. PICK x : x = [frame |-> k, sigs |-> SigsOf(k)]
      OBVIOUS
    <3>3. ShowsItem(x)
      <4>1. Shows(SigsOf(k), k)
        BY <2>2, <1>2, SigsOfShow
      <4>2. QED
        BY <4>1, <3>2 DEF ShowsItem
    <3>4. vidle' = Append(vidle, x)
      BY <2>4, <3>1, <3>2
    <3>5. QueueShows'
      BY <3>3, <3>4, <1>1, ShowsAppend DEF ShowsInv
    <3>6. ListShows'
      BY <1>1, <2>1, ListStays DEF ShowsInv
    <3>7. QED
      BY <3>5, <3>6, <1>1, <1>2, <2>1, <2>2 DEF ShowsInv
  <2>5. QED
    BY <1>6, <2>3, <2>4 DEF VNextFrame
<1>7. CASE VDone
  <2>1. vplayer = "running" /\ vplayer' = "done" /\ UNCHANGED <<opened, vshown, sigs>>
    BY <1>7 DEF VDone
  <2>2. PICK x : x = [frame |-> 0, sigs |-> <<>>]
    OBVIOUS
  <2>3. vidle' = Append(vidle, x) /\ x.frame = 0
    BY <2>2, <1>7 DEF VDone
  <2>4. QueueShows'
    BY <2>3, <1>1, ShowsAppend DEF ShowsInv, ShowsItem
  <2>5. ListShows'
    BY <1>1, <2>1, ListStays DEF ShowsInv
  <2>6. QED
    BY <2>1, <2>4, <2>5, <1>1 DEF ShowsInv
<1>8. CASE VRunIdle
  <2>1. PICK v : v = vidle /\ v \in Seq(ToSet(v)) /\ v # <<>>
    BY <1>8 DEF VerifierInv, VRunIdle
  <2>2. PICK m \in Nat : DOMAIN v = 1..(m + 1) /\ Len(v) = m + 1
    <3>1. Len(v) \in Nat /\ Len(v) # 0 /\ DOMAIN v = 1..Len(v)
      BY <2>1
    <3>2. Len(v) - 1 \in Nat /\ Len(v) = (Len(v) - 1) + 1
      BY <3>1
    <3>3. QED
      BY <3>1, <3>2
  <2>3. /\ Head(v) = v[1] /\ vidle' = Tail(v) /\ DOMAIN Tail(v) = 1..m
        /\ \A i \in 1..m : Tail(v)[i] = v[i + 1]
    BY <2>1, <2>2, <1>8 DEF VRunIdle
  <2>4. UNCHANGED <<opened, vplayer>> /\ vplayer \in {"running", "done"}
    <3>1. vidle # <<>>
      BY <2>1
    <3>2. QED
      BY <3>1, <1>8 DEF VRunIdle, ShowsInv
  <2>5. \A i \in 1..(m + 1) : ShowsItem(v[i])
    BY <2>1, <2>2 DEF ShowsInv, QueueShows
  <2>6. QueueShows'
    <3>1. PICK w : w = vidle' /\ w = Tail(v)
      BY <2>3
    <3>2. \A i \in DOMAIN w : \E h \in DOMAIN vidle : w[i] = vidle[h]
      <4>1. \A i \in 1..m : i + 1 \in 1..(m + 1) /\ w[i] = vidle[i + 1]
        BY <2>1, <2>2, <2>3, <3>1
      <4>2. QED
        BY <4>1, <2>1, <2>2, <2>3, <3>1
    <3>3. QED
      BY <3>1, <3>2, <1>1, QueueStays DEF ShowsInv
  <2>7. ListShows'
    <3>1. CASE UNCHANGED <<vshown, sigs>>
      BY <3>1, <1>1, ListStays DEF ShowsInv
    <3>2. CASE v[1].frame # 0 /\ vshown' = v[1].frame /\ sigs' = v[1].sigs
      <4>1. 1 \in 1..(m + 1)
        BY <2>2
      <4>2. PICK x : x = v[1] /\ ShowsItem(x)
        BY <4>1, <2>5
      <4>3. PICK s, k : s = x.sigs /\ k = x.frame /\ Shows(s, k)
        BY <4>2, <3>2 DEF ShowsItem
      <4>4. Shows(s, k)'
        BY <4>3, <1>1, ShowsStays
      <4>5. QED
        BY <4>2, <4>3, <4>4, <3>2 DEF ListShows
    <3>3. QED
      BY <3>1, <3>2, <2>1, <2>3, <1>8 DEF VRunIdle
  <2>8. QED
    BY <2>4, <2>6, <2>7, <1>1 DEF ShowsInv
<1>9. CASE \E i \in ToSet(opened), o \in Outcomes : VJudge(i, o)
  BY <1>3, <1>9 DEF VJudge
<1>10. QED
  BY <1>4, <1>5, <1>6, <1>7, <1>8, <1>9 DEF Verifying, NextVerifierGui

(* Every step.                                                              *)
LEMMA ShowsStep ==
  ASSUME SessionInv, FileInv, DiskInv, VerifierInv, ShowsInv, [Next]_appVars
  PROVE  ShowsInv'
<1>1. CASE Signing
  <2>1. vplayer = "none" /\ UNCHANGED verifierVars
    BY <1>1 DEF Signing
  <2>2. vplayer' = "none" /\ vidle' = <<>> /\ vshown' = 0
    BY <2>1 DEF ShowsInv, verifierVars
  <2>3. DOMAIN vidle' = {}
    BY <2>2
  <2>4. QED
    BY <2>2, <2>3 DEF ShowsInv, QueueShows, ListShows
<1>2. CASE UNCHANGED appVars
  <2>1. UNCHANGED <<job, file, reader, opened, vplayer, vidle, vshown, sigs>>
    BY <1>2 DEF appVars, sessionVars, verifierVars
  <2>2. QueueShows'
    <3>1. PICK v : v = vidle' /\ v = vidle
      BY <2>1
    <3>2. QED
      BY <3>1, <2>1, QueueStays DEF ShowsInv
  <2>3. ListShows'
    BY <2>1, ListStays DEF ShowsInv
  <2>4. QED
    BY <2>1, <2>2, <2>3 DEF ShowsInv
<1>3. QED
  BY <1>1, <1>2, ShowsVerifying DEF Next

(* Nothing is shown at first.                                               *)
LEMMA ShowsInit == Init => ShowsInv
BY DEF Init, InitVerifierGui, ShowsInv, QueueShows, ListShows

(* At most a frame per millisecond in every video.                          *)
MillisecondJobs == \A j \in Jobs : MillisecondFrames(j.rate)

(* An answer is found for the frames of its chunk, and no others, by the    *)
(* milliseconds that the file keeps of it.                                  *)
LEMMA HitCovers ==
  ASSUME SessionInv, WholeStarts, MillisecondFrames(job.rate),
         NEW n \in DOMAIN asked, NEW k \in Nat \ {0}
  PROVE  (/\ SignedAs(n).start < (FrameState(job, k).time.start \div Tick) + 1
          /\ SignedAs(n).stop > FrameState(job, k).time.start \div Tick) <=> Covers(n, k)
<1>1. job \in Jobs
  BY DEF SessionInv
<1>2. PICK f \in Nat \ {0} : f = asked[n].frame
  <2>1. taken \in Nat
    BY <1>1, NewControllers DEF SessionInv
  <2>2. asked[n].frame \in 1..taken
    BY DEF SessionInv, AskedOK
  <2>3. QED
    BY <2>1, <2>2
<1>3. PICK t \in Nat \ {0} : t = Tick
  BY TimeAssumption
<1>4. PICK q \in Nat : asked[n].chunk.start = t * q
  BY <1>3 DEF WholeStarts, IsWhole
<1>5. PICK s \in Nat, g \in Nat, e \in Nat :
          /\ s = FrameState(job, k).time.start /\ g = FrameState(job, f).time.start
          /\ e = FrameState(job, f).time.end
  BY <1>1, <1>2, FrameTimes
<1>6. PICK a \in Nat, b \in Nat : a = s \div t /\ b = e \div t
  BY <1>3, Division
<1>7. (t * q) \div t = q
  <2>1. PICK x \in Nat : x = t * q /\ x = q * t
    OBVIOUS
  <2>2. PICK y \in Nat : y = x \div t
    BY Division
  <2>3. q <= y
    BY <2>1, <2>2, AtMostQuotient
  <2>4. y * t <= x
    BY <2>2, AtMostQuotient
  <2>5. y <= q
    <3>1. CASE y <= q
      BY <3>1
    <3>2. CASE ~ (y <= q)
      <4>1. PICK d \in Nat : y = q + 1 + d
        <5>1. y - q - 1 \in Nat /\ y = q + 1 + (y - q - 1)
          BY <3>2
        <5>2. QED
          BY <5>1
      <4>2. y * t = q * t + t + d * t /\ d * t \in Nat
        BY <4>1
      <4>3. QED
        BY <4>2, <2>1, <2>4
    <3>3. QED
      BY <3>1, <3>2
  <2>6. QED
    BY <2>1, <2>2, <2>3, <2>5
<1>8. SignedAs(n).start = q /\ SignedAs(n).stop = b
  BY <1>2, <1>3, <1>4, <1>5, <1>6, <1>7 DEF SignedAs, SignedInterval, ChunkEnd
<1>9. q <= a <=> q * t <= s
  BY <1>6, AtMostQuotient
<1>10. b > a <=> k <= f
  <2>1. CASE k <= f
    <3>1. s <= g
      <4>1. CASE k = f
        BY <4>1, <1>5
      <4>2. CASE k < f
        <5>1. PICK z \in Nat : z = FrameState(job, k).time.end /\ s <= z
          BY <1>1, <1>5, FrameTimes
        <5>2. z <= g
          BY <4>2, <5>1, <1>1, <1>2, <1>5, FramesFollow
        <5>3. QED
          BY <5>1, <5>2
      <4>3. QED
        BY <2>1, <4>1, <4>2
    <3>2. g + t <= e
      <4>1. f + 1 \in Nat \ {0} /\ f < f + 1
        OBVIOUS
      <4>2. QED
        BY <4>1, <1>1, <1>3, <1>5, FramesFollow
    <3>3. a * t <= s
      BY <1>6, AtMostQuotient
    <3>4. (a + 1) * t <= e
      <4>1. (a + 1) * t = a * t + t /\ a * t \in Nat
        OBVIOUS
      <4>2. QED
        BY <4>1, <3>1, <3>2, <3>3
    <3>5. a + 1 <= b
      BY <3>4, <1>6, AtMostQuotient
    <3>6. QED
      BY <2>1, <3>5
  <2>2. CASE f < k
    <3>1. e <= s
      BY <2>2, <1>1, <1>2, <1>5, FramesFollow
    <3>2. b * t <= e
      BY <1>6, AtMostQuotient
    <3>3. b * t <= s
      BY <3>1, <3>2
    <3>4. b <= a
      BY <3>3, <1>6, AtMostQuotient
    <3>5. QED
      BY <2>2, <3>4
  <2>3. QED
    BY <2>1, <2>2
<1>11. Covers(n, k) <=> t * q <= s /\ k <= f
  BY <1>2, <1>4, <1>5 DEF Covers
<1>12. q < a + 1 <=> q <= a
  OBVIOUS
<1>13. t * q = q * t
  OBVIOUS
<1>14. (q < a + 1 /\ b > a) <=> Covers(n, k)
  BY <1>9, <1>10, <1>11, <1>12, <1>13
<1>15. QED
  BY <1>3, <1>5, <1>6, <1>8, <1>14

(* How often a list names someone, and how often someone signed a frame.    *)
Named(s, who) == Cardinality({ i \in DOMAIN s : s[i].who = who })

SignedBy(k, who) ==
    Cardinality({ n \in Answered : asked[n].chunk.who = who /\ Covers(n, k) })

(* The list that shows a frame shows who signed it.                         *)
LEMMA ListTold ==
  ASSUME SessionInv, FileInv, WholeStarts, PlacedInv, MillisecondFrames(job.rate),
         reader = "collected", NEW k \in Nat \ {0}, NEW s, Shows(s, k), NEW who
  PROVE  Named(s, who) = SignedBy(k, who)
<1>1. PICK m \in Nat : DOMAIN file = 1..m
  BY DEF FileInv
<1>2. PICK H : H = Hits(k) /\ H \in SUBSET (1..m)
  BY <1>1 DEF Hits
<1>3. PICK c \in Nat : c = Cardinality(H)
  BY <1>2, NthIs
<1>4. PICK B : B = { q \in H : IdAt(q) = who }
  OBVIOUS
<1>5. Cardinality({ i \in DOMAIN s : s[i].who = who }) = Cardinality(B)
  <2>1. PICK f : f = [ p \in 1..c |-> Nth(H, p) ]
    OBVIOUS
  <2>2. /\ \A p \in 1..c : Nth(H, p) \in H
        /\ \A i \in H : \E p \in 1..c : Nth(H, p) = i
        /\ \A p, l \in 1..c : Nth(H, p) = Nth(H, l) => p = l
    <3>1. /\ Cardinality(H) \in Nat
          /\ \A p \in 1..Cardinality(H) : Nth(H, p) \in H
          /\ \A i \in H : \E p \in 1..Cardinality(H) : Nth(H, p) = i
          /\ \A p, l \in 1..Cardinality(H) : Nth(H, p) = Nth(H, l) => p = l
      <4>1. H \in SUBSET (1..m)
        BY <1>2
      <4>2. QED
        BY <4>1, NthIs
    <3>2. QED
      BY <3>1, <1>3, Zenon
  <2>3. /\ f \in [1..c -> H] /\ \A x, y \in 1..c : f[x] = f[y] => x = y
        /\ \A t \in H : \E x \in 1..c : f[x] = t
    BY <2>1, <2>2
  <2>4. IsFiniteSet(1..c) /\ B \in SUBSET H
    BY <1>4, FS_Interval
  <2>5. Cardinality({ x \in 1..c : f[x] \in B }) = Cardinality(B)
    <3>1. PICK S : S = 1..c
      OBVIOUS
    <3>2. /\ IsFiniteSet(S) /\ f \in [S -> H] /\ \A x, y \in S : f[x] = f[y] => x = y
          /\ \A t \in H : \E x \in S : f[x] = t
      BY <2>3, <2>4, <3>1, Zenon
    <3>3. Cardinality({ x \in S : f[x] \in B }) = Cardinality(B)
      <4>1. B \in SUBSET H
        BY <2>4
      <4>2. QED
        BY <3>2, <4>1, SameSize
    <3>4. QED
      BY <3>1, <3>3
  <2>6. DOMAIN s = 1..c /\ \A p \in 1..c : s[p].who = IdAt(f[p])
    BY <1>2, <1>3, <2>1 DEF Shows
  <2>7. { i \in DOMAIN s : s[i].who = who } = { x \in 1..c : f[x] \in B }
    BY <2>3, <2>6, <1>4
  <2>8. QED
    BY <2>5, <2>7
<1>6. Cardinality({ n \in Answered : asked[n].chunk.who = who /\ Covers(n, k) }) = Cardinality(B)
  <2>1. PICK at : IsPlacement(at)
    BY DEF PlacedInv
  <2>2. PICK T : T = DOMAIN file
    OBVIOUS
  <2>3. /\ at \in [Answered -> T]
        /\ \A x, y \in Answered : at[x] = at[y] => x = y
        /\ \A t \in T : \E x \in Answered : at[x] = t
    BY <2>1, <2>2 DEF IsPlacement
  <2>4. IsFiniteSet(Answered) /\ B \in SUBSET T
    BY <1>1, <1>2, <1>4, <2>2, AnsweredFinite
  <2>5. Cardinality({ x \in Answered : at[x] \in B }) = Cardinality(B)
    BY <2>3, <2>4, SameSize
  <2>6. ASSUME NEW n \in Answered
        PROVE  at[n] \in B <=> asked[n].chunk.who = who /\ Covers(n, k)
    <3>1. PICK q \in T : q = at[n] /\ file[q] = SignedAs(n)
      BY <2>1, <2>3, <2>6 DEF IsPlacement
    <3>2. IdAt(q) = asked[n].chunk.who
      <4>1. IdAt(q) = SignedAs(n).val.presentation.id
        BY <3>1 DEF IdAt
      <4>2. PICK p : p = SignedAs(n).val.presentation
        OBVIOUS
      <4>3. p = [kind |-> IF asked[n].chunk.ref THEN "ref" ELSE "def", id |-> asked[n].chunk.who]
        BY <4>2, PresentationIs
      <4>4. QED
        BY <4>1, <4>2, <4>3
    <3>3. PICK ms : ms = FrameState(job, k).time.start \div Tick
      OBVIOUS
    <3>4. q \in H <=> (SignedAs(n).start < ms + 1 /\ SignedAs(n).stop > ms)
      BY <1>2, <2>2, <3>1, <3>3 DEF Hits
    <3>5. (SignedAs(n).start < ms + 1 /\ SignedAs(n).stop > ms) <=> Covers(n, k)
      <4>1. n \in DOMAIN asked
        BY <2>6 DEF Answered
      <4>2. QED
        BY <3>3, <4>1, HitCovers
    <3>6. q \in B <=> q \in H /\ IdAt(q) = who
      BY <1>4
    <3>7. QED
      BY <3>1, <3>2, <3>4, <3>5, <3>6
  <2>7. { n \in Answered : asked[n].chunk.who = who /\ Covers(n, k) } =
        { x \in Answered : at[x] \in B }
    BY <2>6
  <2>8. QED
    BY <2>5, <2>7
<1>7. QED
  BY <1>5, <1>6 DEF Named, SignedBy

(* The verifier's window is in its first state at first.                    *)
LEMMA VerifierInit == Init => VerifierInv
<1> SUFFICES ASSUME Init
             PROVE  VerifierInv
  OBVIOUS
<1>1. job.frames \in Nat
  BY NewControllers DEF Init, InitSession
<1>2. QED
  BY <1>1 DEF Init, InitVerifierGui, VerifierInv, ToSet

(* From signing to showing: next to a frame the verifier shows exactly the  *)
(* signers whose chunks that were signed hold the frame, each as often as   *)
(* there are such chunks, though SignFile keeps but two milliseconds of a   *)
(* chunk; for every video of at most a frame per millisecond, all           *)
(* controllers, ranges, offsets and every order of the answers.             *)
THEOREM OverlayIsTrue == ASSUME MillisecondJobs PROVE Spec => []OverlayTruth
<1>1. ASSUME SessionInv, FileInv, AskedInv, PlacedInv, VerifierInv, ShowsInv
      PROVE  OverlayTruth
  <2> SUFFICES ASSUME vshown # 0,
                      NEW who \in Signers \cup { sigs[i].who : i \in DOMAIN sigs }
               PROVE  Cardinality({ i \in DOMAIN sigs : sigs[i].who = who }) =
                      Cardinality({ n \in Answered :
                            asked[n].chunk.who = who /\ Covers(n, vshown) })
    BY DEF OverlayTruth
  <2>1. reader = "collected" /\ Shows(sigs, vshown)
    BY <1>1 DEF ShowsInv, ListShows
  <2>2. PICK k \in Nat \ {0} : k = vshown
    <3>1. job.frames \in Nat
      BY <1>1, NewControllers DEF SessionInv
    <3>2. QED
      BY <3>1, <1>1 DEF VerifierInv
  <2>3. PICK s : s = sigs
    OBVIOUS
  <2>4. WholeStarts /\ MillisecondFrames(job.rate)
    BY <1>1 DEF AskedInv, SessionInv, MillisecondJobs
  <2>5. Cardinality({ i \in DOMAIN s : s[i].who = who }) =
        Cardinality({ n \in Answered : asked[n].chunk.who = who /\ Covers(n, k) })
    <3>1. Shows(s, k)
      BY <2>1, <2>2, <2>3
    <3>2. SessionInv /\ FileInv /\ PlacedInv /\ reader = "collected"
      BY <1>1, <2>1
    <3>3. Named(s, who) = SignedBy(k, who)
      BY <2>4, <3>1, <3>2, ListTold
    <3>4. QED
      BY <3>3 DEF Named, SignedBy
  <2>6. QED
    BY <2>2, <2>3, <2>5
<1>2. SessionInv /\ VerifierInv /\ [Next]_appVars /\ SessionInv' => VerifierInv'
  BY VerifierStep
<1>3. QED
  BY <1>1, <1>2, SessionInvariant, OverlayInit, OverlayStep, AskedInit, AskedStep,
     PlacedInit, PlacedStep, DiskInit, DiskStep, VerifierInit, ShowsInit, ShowsStep,
     PTL DEF Spec

-----------------------------------------------------------------------------
(* The chunks of a controller meet.                                         *)

(* A frame starts a tick behind the one before it at most, as both the      *)
(* length of a frame and its time are truncated.                            *)
LEMMA NextFrame ==
  ASSUME NEW j \in Jobs, NEW x \in Nat \ {0}
  PROVE  FrameState(j, x + 1).time.start <= FrameState(j, x).time.end + 1
<1>1. PICK s \in Nat \ {0} : s = SecondsOf(j.rate)
  BY JobTypes, SecondsOfType
<1>2. PICK r \in Nat \ {0} : r = j.rate.frames
  BY JobTypes, SecondsOfType
<1>3. PICK l \in Nat : l = FrameLength(j) /\ l = s \div r
  BY <1>1, <1>2, Division DEF FrameLength, FloorDiv
<1>4. PICK o \in Nat : o = j.offset
  BY JobTypes
<1>5. PICK y \in Nat : x = y + 1 /\ y = x - 1
  OBVIOUS
<1>6. IsRate(j.rate)
  BY JobTypes
<1>7. PICK a \in Nat : a = Pts(j.rate, y)
  BY <1>6, PtsAtLeast
<1>8. PICK b \in Nat : b = Pts(j.rate, x)
  BY <1>6, PtsAtLeast
<1>9. /\ FrameState(j, x).time = [start |-> o + a, end |-> o + a + l]
      /\ FrameState(j, x + 1).time.start = o + b
  <2>1. x + 1 - 1 = x
    OBVIOUS
  <2>2. QED
    BY <2>1, <1>3, <1>4, <1>5, <1>7, <1>8 DEF FrameState, Span
<1>10. b <= a + l + 1
  <2>1. SUFFICES ASSUME a + 1 + (l + 1) <= b PROVE FALSE
    OBVIOUS
  <2>2. ~ ((a + 1) * r <= y * s)
    <3>1. ~ (a + 1 <= a) /\ a + 1 \in Nat
      OBVIOUS
    <3>2. QED
      BY <3>1, <1>1, <1>2, <1>6, <1>7, PtsAtLeast
  <2>3. ~ ((l + 1) * r <= s)
    <3>1. ~ (l + 1 <= l) /\ l + 1 \in Nat
      OBVIOUS
    <3>2. QED
      BY <3>1, <1>3, AtMostQuotient
  <2>4. PICK n \in Nat : n = a + 1 + (l + 1)
    OBVIOUS
  <2>5. n * r <= x * s
    BY <2>1, <2>4, <1>1, <1>2, <1>6, <1>8, PtsAtLeast
  <2>6. x * s = y * s + s
    BY <1>5
  <2>7. n * r = (a + 1) * r + (l + 1) * r
    BY <2>4
  <2>8. (a + 1) * r \in Nat /\ (l + 1) * r \in Nat /\ y * s \in Nat
    OBVIOUS
  <2>9. QED
    BY <2>2, <2>3, <2>5, <2>6, <2>7, <2>8
<1>11. QED
  BY <1>9, <1>10

(* A time of whole milliseconds that is short of another is so by a         *)
(* millisecond.                                                             *)
LEMMA WholeBelow ==
  ASSUME NEW a \in Nat, NEW b \in Nat, NEW t \in Nat \ {0}, t * a < t * b
  PROVE  t * a + t <= t * b
<1>1. a < b
  <2>1. SUFFICES ASSUME ~ (a < b) PROVE FALSE
    OBVIOUS
  <2>2. PICK e \in Nat : a = b + e
    <3>1. a - b \in Nat /\ a = b + (a - b)
      BY <2>1
    <3>2. QED
      BY <3>1
  <2>3. t * a = t * b + t * e /\ t * e \in Nat /\ t * b \in Nat
    BY <2>2
  <2>4. QED
    BY <2>3
<1>2. PICK e \in Nat : b = a + 1 + e
  <2>1. b - a - 1 \in Nat /\ b = a + 1 + (b - a - 1)
    BY <1>1
  <2>2. QED
    BY <2>1
<1>3. t * b = t * a + t + t * e /\ t * e \in Nat /\ t * a \in Nat
  BY <1>2
<1>4. QED
  BY <1>3

(* A frame starts m behind the u-th multiple, and r is what is rounded.     *)
CrossesAs(t, d, u, m, r) ==
    /\ t.start = d * u + m /\ IsWhole(d * u) /\ IsWhole(r)
    /\ 2 * r <= 2 * (m + t.end - t.start) + Tick
    /\ 2 * (m + t.end - t.start) < 2 * r + Tick
    /\ r < d => r + Tick <= d
    /\ Crossing(t, d) = IF r < d THEN None ELSE t.end - (r - d)

(* crosses_interval for an interval of whole milliseconds: what is rounded  *)
(* is short of the interval by a millisecond, if it is.                     *)
LEMMA CrossingIs ==
  ASSUME NEW t, t.start \in Nat /\ t.end \in Nat /\ t.start <= t.end,
         NEW d \in Nat \ {0}, d % Tick = 0
  PROVE  \E u \in Nat, m \in 0..(d - 1), r \in Nat : CrossesAs(t, d, u, m, r)
<1>1. PICK k \in Nat \ {0} : k = Tick
  BY TimeAssumption
<1>2. PICK i \in Nat : d = k * i
  <2>1. PICK i \in Nat : i = d \div k
    BY <1>1, Division
  <2>2. d = k * i
    BY <1>1, <2>1, Division
  <2>3. QED
    BY <2>2
<1>3. PICK u \in Nat : u = t.start \div d
  BY Division
<1>4. PICK m \in 0..(d - 1) : m = (t.start % d)
  BY Division
<1>5. t.start = d * u + m
  BY <1>3, <1>4, Division
<1>6. PICK x \in Nat : x = m + t.end - t.start
  OBVIOUS
<1>7. x = (t.start % d) + Duration(t)
  BY <1>4, <1>6 DEF Duration
<1>8. PICK r \in Nat : r = RoundMillis(x) /\ 2 * r <= 2 * x + Tick /\ 2 * x < 2 * r + Tick
  BY RoundBounds
<1>9. PICK z \in Nat : r = k * z
  <2>1. PICK a \in Nat, b \in Nat \ {0} : a = 2 * x + k /\ b = 2 * k
    OBVIOUS
  <2>2. PICK z \in Nat : z = a \div b
    BY <2>1, Division
  <2>3. r = z * k
    BY <1>1, <1>8, <2>1, <2>2 DEF RoundMillis
  <2>4. QED
    BY <2>3
<1>10. r < d => r + Tick <= d
  <2>1. SUFFICES ASSUME k * z < k * i PROVE k * z + k <= k * i
    BY <1>1, <1>2, <1>9
  <2>2. QED
    BY <2>1, WholeBelow
<1>11. Crossing(t, d) = IF r < d THEN None ELSE t.end - (r - d)
  BY <1>7, <1>8 DEF Crossing
<1>12. IsWhole(d * u)
  <2>1. PICK q \in Nat : q = i * u
    OBVIOUS
  <2>2. d * u = k * q
    BY <1>2, <2>1
  <2>3. QED
    BY <2>2, <1>1 DEF IsWhole
<1>13. /\ 2 * r <= 2 * (m + t.end - t.start) + Tick
       /\ 2 * (m + t.end - t.start) < 2 * r + Tick
  BY <1>6, <1>8
<1>14. IsWhole(r)
  BY <1>1, <1>9 DEF IsWhole
<1>15. CrossesAs(t, d, u, m, r)
  BY <1>5, <1>10, <1>11, <1>12, <1>13, <1>14, Zenon DEF CrossesAs
<1>16. QED
  BY <1>15

(* Where a frame crosses is a time then.                                    *)
LEMMA CrossingNat ==
  ASSUME NEW t, t.start \in Nat /\ t.end \in Nat /\ t.start <= t.end,
         NEW d \in Nat \ {0}, d % Tick = 0,
         NEW u \in Nat, NEW m \in 0..(d - 1), NEW r \in Nat, CrossesAs(t, d, u, m, r), ~ (r < d)
  PROVE  Crossing(t, d) \in Nat
<1>1. PICK k \in Nat \ {0} : k = Tick
  BY TimeAssumption
<1>2. k <= d
  <2>1. PICK i \in Nat : i = d \div k
    BY <1>1, Division
  <2>2. d = k * i
    BY <1>1, <2>1, Division
  <2>3. k * 0 = 0 /\ k * 0 < k * i
    BY <2>2
  <2>4. k * 0 + k <= k * i
    BY <2>3, <1>1, WholeBelow
  <2>5. QED
    BY <2>2, <2>3, <2>4
<1>3. PICK e \in Nat, s \in Nat : e = t.end /\ s = t.start
  OBVIOUS
<1>4. PICK a \in Nat : a = d * u
  OBVIOUS
<1>5. s = a + m /\ 2 * r <= 2 * (m + e - s) + k /\ Crossing(t, d) = e - (r - d)
  <2>1. /\ t.start = d * u + m
        /\ 2 * r <= 2 * (m + t.end - t.start) + k
        /\ Crossing(t, d) = t.end - (r - d)
    BY <1>1 DEF CrossesAs
  <2>2. QED
    BY <2>1, <1>3, <1>4
<1>6. e - (r - d) \in Nat
  BY <1>1, <1>2, <1>5
<1>7. QED
  BY <1>5, <1>6

(* A frame that starts before a multiple that the next does not start       *)
(* before crosses it.                                                       *)
LEMMA CrossesBetween ==
  ASSUME Tick >= 2, NEW t, t.start \in Nat /\ t.end \in Nat /\ t.start <= t.end,
         NEW d \in Nat \ {0}, d % Tick = 0,
         NEW w \in Nat, t.start < d * w, d * w <= t.end + 1
  PROVE  Crossing(t, d) # None
<1>1. PICK k \in Nat \ {0} : k = Tick /\ k >= 2
  BY TimeAssumption
<1>2. PICK u \in Nat, m \in 0..(d - 1), r \in Nat : CrossesAs(t, d, u, m, r)
  BY CrossingIs
<1>3. d * u + d <= d * w
  <2>1. d * u < d * w
    <3>1. d * u \in Nat
      OBVIOUS
    <3>2. t.start = d * u + m
      BY <1>2 DEF CrossesAs
    <3>3. QED
      BY <3>1, <3>2
  <2>2. QED
    BY <2>1, WholeBelow
<1>4. PICK a \in Nat : a = d * u
  OBVIOUS
<1>5. PICK e \in Nat, s \in Nat : e = t.end /\ s = t.start
  OBVIOUS
<1>6. /\ s = a + m /\ a + d <= e + 1 /\ 2 * (m + e - s) < 2 * r + k
      /\ r < d => r + k <= d
  <2>1. /\ t.start = d * u + m
        /\ 2 * (m + t.end - t.start) < 2 * r + k
        /\ r < d => r + k <= d
    BY <1>1, <1>2 DEF CrossesAs
  <2>2. QED
    BY <2>1, <1>3, <1>4, <1>5
<1>7. ~ (r < d)
  <2>1. SUFFICES ASSUME r + k <= d PROVE FALSE
    BY <1>6
  <2>2. QED
    BY <2>1, <1>1, <1>6
<1>8. Crossing(t, d) \in Nat
  BY <1>2, <1>7, CrossingNat
<1>9. QED
  BY <1>8, NoneAssumption

(* Flooring takes a time back to a whole number of milliseconds it is not a *)
(* millisecond past.                                                        *)
LEMMA FloorBelow ==
  ASSUME NEW x \in Nat, NEW p \in Nat, IsWhole(p), x < p + Tick
  PROVE  FloorMillis(x) <= p
<1>1. PICK t \in Nat \ {0} : t = Tick
  BY TimeAssumption
<1>2. PICK q \in Nat : p = t * q
  BY <1>1 DEF IsWhole
<1>3. PICK z \in Nat : z = x \div t
  BY Division
<1>4. FloorMillis(x) = t * z /\ FloorMillis(x) <= x
  BY <1>1, <1>3, FloorMillisBounds
<1>5. SUFFICES ASSUME t * q < t * z PROVE FALSE
  BY <1>2, <1>4
<1>6. t * q + t <= t * z
  BY <1>5, WholeBelow
<1>7. QED
  BY <1>1, <1>2, <1>4, <1>6

(* A chunk starts at a multiple of the interval that its frame starts at or *)
(* behind, or before that.                                                  *)
LEMMA StartBehind ==
  ASSUME NEW j \in Jobs, NEW k \in Nat \ {0},
         NEW c, IsController(c), c.range = None, c.interval % Tick = 0,
         AsksAt(c, FrameState(j, k)), ~ PanicsAt(c, FrameState(j, k))
  PROVE  \E w \in Nat : /\ c.interval * w <= FrameState(j, k).time.start
                        /\ StartAt(c, FrameState(j, k)) <= c.interval * w
<1>1. PICK f : f = FrameState(j, k)
  OBVIOUS
<1>2. PICK t : t = f.time
  OBVIOUS
<1>3. t.start \in Nat /\ t.end \in Nat /\ t.start <= t.end
  BY <1>1, <1>2, FrameTimes
<1>4. PICK d \in Nat \ {0} : d = c.interval /\ d % Tick = 0
  BY DEF IsController
<1>5. PICK u \in Nat, m \in 0..(d - 1), r \in Nat : CrossesAs(t, d, u, m, r)
  BY <1>3, <1>4, CrossingIs
<1>6. PICK p \in Nat : p = d * u /\ IsWhole(p)
  BY <1>5 DEF CrossesAs
<1>7. PICK h \in Nat \ {0} : h = Tick
  BY TimeAssumption
<1>8. PICK e \in Nat, s \in Nat : e = t.end /\ s = t.start
  BY <1>3
<1>9. /\ s = p + m /\ 2 * (m + e - s) < 2 * r + h /\ (r < d => r + h <= d)
      /\ Crossing(t, d) = IF r < d THEN None ELSE e - (r - d)
  <2>1. /\ t.start = d * u + m
        /\ 2 * (m + t.end - t.start) < 2 * r + h
        /\ r < d => r + h <= d
        /\ Crossing(t, d) = IF r < d THEN None ELSE t.end - (r - d)
    BY <1>5, <1>7 DEF CrossesAs
  <2>2. QED
    BY <2>1, <1>6, <1>8
<1>10. PICK x \in Nat : StartAt(c, f) = FloorMillis(x) /\ x < p + h
  <2>1. PICK v \in Int : v = (IF r < d THEN e ELSE e - (r - d)) /\ v - d < p + h
    <3>1. CASE r < d
      <4>1. e - d < p + h
        BY <3>1, <1>7, <1>9
      <4>2. QED
        BY <3>1, <4>1
    <3>2. CASE ~ (r < d)
      <4>1. e - (r - d) - d < p + h
        BY <1>7, <1>9
      <4>2. QED
        BY <3>2, <4>1
    <3>3. QED
      BY <3>1, <3>2
  <2>2. CASE IsOfFunction(c)
    <3>1. Crossing(t, d) # None /\ ~ (Crossing(t, d) < d)
      BY <1>1, <1>2, <1>4, <2>2 DEF AsksAt, PanicsAt, FnPanics, FnAsks
    <3>2. Crossing(t, d) = v
      BY <3>1, <2>1, <1>9
    <3>3. StartAt(c, f) = FloorMillis(v - d)
      BY <3>2, <2>2, <1>2, <1>4 DEF StartAt
    <3>4. v - d \in Nat
      BY <3>1, <3>2
    <3>5. QED
      BY <3>3, <3>4, <2>1
  <2>3. CASE ~ IsOfFunction(c)
    <3>1. EndOfChunk(t, d) = v
      <4>1. CASE r < d
        BY <4>1, <1>8, <1>9, <2>1 DEF EndOfChunk
      <4>2. CASE ~ (r < d)
        <5>1. Crossing(t, d) = v
          BY <4>2, <1>9, <2>1
        <5>2. Crossing(t, d) # None
          <6>1. Crossing(t, d) \in Nat
            BY <4>2, <1>3, <1>4, <1>5, CrossingNat
          <6>2. QED
            BY <6>1, NoneAssumption
        <5>3. QED
          BY <5>1, <5>2 DEF EndOfChunk
      <4>3. QED
        BY <4>1, <4>2
    <3>2. ChunkStart(c, f) = Back(EndOfChunk(t, d), d)
      BY <1>2, <1>4 DEF ChunkStart, Converted, Back, EndOfChunk
    <3>3. StartAt(c, f) = FloorMillis(Back(v, d))
      BY <3>1, <3>2, <2>3 DEF StartAt
    <3>4. Back(v, d) \in Nat /\ Back(v, d) < p + h
      BY <2>1, <1>7 DEF Back
    <3>5. QED
      BY <3>3, <3>4
  <2>4. QED
    BY <2>2, <2>3
<1>11. StartAt(c, f) <= p
  BY <1>6, <1>7, <1>10, FloorBelow
<1>12. QED
  BY <1>1, <1>2, <1>4, <1>6, <1>8, <1>9, <1>11

(* The first frame is no reason to ask for a chunk, though it crosses.      *)
SkipsFirstOf(j, c) ==
    LET first == FrameState(j, 1)
        time == IF IsOfFunction(c) THEN first.time ELSE Earlier(first.time, first.offset)
    IN  IsStart(time) /\ Crossing(first.time, c.interval) # None

(* A frame that crosses is a reason to ask, but for the first.              *)
LEMMA CrossingAsks ==
  ASSUME NEW j \in Jobs, NEW x \in Nat \ {0}, NEW c, c.range = None,
         Crossing(FrameState(j, x).time, c.interval) # None, ~ AsksAt(c, FrameState(j, x))
  PROVE  x = 1 /\ SkipsFirstOf(j, c)
<1>1. PICK f : f = FrameState(j, x)
  OBVIOUS
<1>2. PICK o \in Nat : o = j.offset /\ f.offset = o
  BY <1>1, JobTypes DEF FrameState
<1>3. PICK l \in Nat : l = FrameLength(j)
  <2>1. SecondsOf(j.rate) \in Nat /\ j.rate.frames \in Nat \ {0}
    BY JobTypes, SecondsOfType
  <2>2. QED
    BY <2>1, Division DEF FrameLength, FloorDiv
<1>4. IsRate(j.rate) /\ x - 1 \in Nat
  BY JobTypes
<1>5. PICK a \in Nat : a = Pts(j.rate, x - 1)
  BY <1>4, PtsAtLeast
<1>6. f.time = [start |-> o + a, end |-> o + a + l]
  BY <1>1, <1>2, <1>3, <1>5 DEF FrameState, Span
<1>7. Earlier(f.time, o) = [start |-> a, end |-> a + l]
  <2>1. Duration(f.time) = l /\ f.time.start - o = a
    BY <1>6 DEF Duration
  <2>2. QED
    BY <2>1 DEF Earlier, Span
<1>8. x # 1 => l <= a
  <2>1. SUFFICES ASSUME x # 1 PROVE l <= a
    OBVIOUS
  <2>2. 1 \in Nat \ {0} /\ 1 < x
    BY <2>1
  <2>3. FrameState(j, 1).time.end <= f.time.start
    BY <2>2, <1>1, FramesFollow
  <2>4. FrameState(j, 1).time.start >= o
    <3>1. IsRate(j.rate) /\ 1 - 1 = 0 /\ 0 \in Nat
      BY JobTypes
    <3>2. PICK b \in Nat : b = Pts(j.rate, 0)
      BY <3>1, PtsAtLeast
    <3>3. FrameState(j, 1).time.start = o + b
      BY <3>1, <3>2, <1>2, JobTypes
    <3>4. QED
      BY <3>3
  <2>5. PICK g : g = FrameState(j, 1).time
    OBVIOUS
  <2>6. g.end = g.start + l
    BY <2>5, <1>3 DEF FrameState, Span
  <2>7. g.start \in Nat
    BY <2>5, <2>2, FrameTimes
  <2>8. QED
    BY <2>3, <2>4, <2>5, <2>6, <2>7, <1>6
<1>9. CASE IsOfFunction(c)
  <2>1. IsStart(f.time)
    BY <1>1, <1>9 DEF AsksAt, FnAsks
  <2>2. o + a < l
    <3>1. Duration(f.time) = l
      BY <1>6 DEF Duration
    <3>2. QED
      BY <3>1, <2>1, <1>6 DEF IsStart, HasPrevious
  <2>3. x = 1
    BY <2>2, <1>8
  <2>4. QED
    BY <2>1, <2>3, <1>1, <1>9 DEF SkipsFirstOf
<1>10. CASE ~ IsOfFunction(c)
  <2>1. IsStart(Earlier(f.time, o))
    BY <1>1, <1>2, <1>10 DEF AsksAt, Asks, InRange, Converted
  <2>2. a < l
    <3>1. PICK e : e = Earlier(f.time, o) /\ e = [start |-> a, end |-> a + l]
      BY <1>7
    <3>2. Duration(e) = l /\ e.start = a
      BY <3>1 DEF Duration
    <3>3. QED
      BY <3>1, <3>2, <2>1 DEF IsStart, HasPrevious
  <2>4. x = 1
    BY <2>2, <1>8
  <2>3. QED
    BY <2>1, <2>4, <1>1, <1>2, <1>10 DEF SkipsFirstOf
<1>11. QED
  BY <1>9, <1>10

(* A chunk holds every frame since the last one at which the controller     *)
(* asked, but for a first frame that is skipped.                            *)
LEMMA CoversBack ==
  ASSUME Tick >= 2, NEW j \in Jobs, NEW i \in Nat \ {0}, NEW k \in Nat \ {0}, i <= k,
         NEW c, IsController(c), c.range = None, c.interval % Tick = 0,
         AsksAt(c, FrameState(j, k)), ~ PanicsAt(c, FrameState(j, k)),
         \A x \in i..(k - 1) : ~ AsksAt(c, FrameState(j, x)),
         ~ (i = 1 /\ SkipsFirstOf(j, c))
  PROVE  StartAt(c, FrameState(j, k)) <= FrameState(j, i).time.start
<1>1. PICK d \in Nat \ {0} : d = c.interval /\ d % Tick = 0
  BY DEF IsController
<1>2. PICK w \in Nat : /\ d * w <= FrameState(j, k).time.start
                       /\ StartAt(c, FrameState(j, k)) <= d * w
  BY <1>1, StartBehind
<1>3. PICK p \in Nat : p = d * w
  OBVIOUS
<1>4. PICK S : S = { x \in i..k : p <= FrameState(j, x).time.start }
  OBVIOUS
<1>5. PICK y \in S : \A x \in S : y <= x
  <2>1. k \in S
    BY <1>2, <1>3, <1>4
  <2>2. S \in SUBSET Nat /\ S # {}
    BY <2>1, <1>4
  <2>3. Min(S) \in S /\ \A n \in S : Min(S) <= n
    BY <2>2, MinIsLeast
  <2>4. QED
    BY <2>3
<1>6. y \in i..k /\ p <= FrameState(j, y).time.start
  BY <1>4
<1>7. CASE y = i
  <2>1. PICK s \in Nat : s = FrameState(j, i).time.start
    BY FrameTimes
  <2>2. StartAt(c, FrameState(j, k)) <= p /\ p <= s
    BY <1>2, <1>3, <1>6, <1>7, <2>1
  <2>3. PICK a : a = StartAt(c, FrameState(j, k))
    OBVIOUS
  <2>4. a \in Int
    <3>1. IsWhole(a)
      BY <2>3, StartWhole
    <3>2. QED
      BY <3>1, TimeAssumption DEF IsWhole
  <2>5. QED
    BY <2>1, <2>2, <2>3, <2>4
<1>8. CASE y # i
  <2>1. PICK z \in Nat \ {0} : y = z + 1 /\ z \in i..(k - 1)
    <3>1. y - 1 \in Nat \ {0} /\ y = (y - 1) + 1 /\ y - 1 \in i..(k - 1)
      BY <1>6, <1>8
    <3>2. QED
      BY <3>1
  <2>2. PICK t : t = FrameState(j, z).time
    OBVIOUS
  <2>3. t.start \in Nat /\ t.end \in Nat /\ t.start <= t.end
    BY <2>2, FrameTimes
  <2>4. ~ (p <= t.start)
    <3>1. z \in i..k /\ ~ (y <= z)
      BY <2>1
    <3>2. z \notin S
      BY <3>1, <1>5
    <3>3. QED
      BY <3>1, <3>2, <2>2, <1>4
  <2>5. p <= t.end + 1
    <3>1. PICK s \in Nat : s = FrameState(j, z + 1).time.start
      <4>1. z + 1 \in Nat \ {0}
        OBVIOUS
      <4>2. QED
        BY <4>1, FrameTimes
    <3>2. s <= t.end + 1
      BY <3>1, <2>2, NextFrame
    <3>3. p <= s
      BY <3>1, <2>1, <1>6
    <3>4. QED
      BY <3>2, <3>3, <2>3
  <2>6. Crossing(t, d) # None
    <3>1. t.start < d * w /\ d * w <= t.end + 1
      BY <2>3, <2>4, <2>5, <1>3
    <3>2. QED
      BY <3>1, <2>3, <1>1, CrossesBetween
  <2>7. ~ AsksAt(c, FrameState(j, z))
    BY <2>1
  <2>8. z = 1 /\ SkipsFirstOf(j, c)
    BY <2>2, <2>6, <2>7, <1>1, CrossingAsks
  <2>9. i = 1
    BY <2>1, <2>8
  <2>10. QED
    BY <2>8, <2>9
<1>9. QED
  BY <1>7, <1>8

(* Intervals of whole milliseconds.                                         *)
WholeIntervals ==
    \A j \in Jobs : \A i \in DOMAIN j.controllers : j.controllers[i].interval % Tick = 0

(* What Skipped says of the settings a controller came with.                *)
LEMMA SkippedBy ==
  ASSUME SessionInv, SettingsInv, ~ job.app, NEW i \in DOMAIN job.controllers,
         SkipsFirstOf(job, job.controllers[i])
  PROVE  Skipped(job.controllers[i].who, 1)
<1>1. PICK js, cs : js = job.controllers /\ cs = ctrls
  OBVIOUS
<1>2. PICK n \in Nat : DOMAIN cs = 1..n
  BY <1>1 DEF SessionInv, ControllersOK
<1>3. DOMAIN js = 1..n /\ SameSettings(cs[i], js[i]) /\ i \in 1..n
  BY <1>1, <1>2 DEF SettingsInv
<1>4. KindsOK(js)
  BY <1>1, JobKinds DEF SessionInv
<1>5. KindsOK(cs)
  BY <1>1, <1>2, <1>3, <1>4 DEF KindsOK, IsOfFunction, SettingsInv, SameSettings
<1>6. IsFunction(cs) <=> IsOfFunction(js[i])
  <2>1. IsFunction(cs) <=> IsOfFunction(cs[i])
    BY <1>2, <1>3, <1>5, KindsAgree
  <2>2. QED
    BY <2>1, <1>3 DEF IsOfFunction, SameSettings
<1>7. SkipsFirst(cs[i])
  <2>1. cs[i].interval = js[i].interval
    BY <1>3 DEF SameSettings
  <2>2. QED
    BY <2>1, <1>1, <1>6 DEF SkipsFirst, SkipsFirstOf
<1>8. cs[i].who = js[i].who
  BY <1>3 DEF SameSettings
<1>9. QED
  BY <1>1, <1>2, <1>3, <1>7, <1>8 DEF Skipped

(* Between a frame and one that a controller asked at it asked for a chunk  *)
(* that holds the first of the two.                                         *)
LEMMA ControllersMeet ==
  ASSUME Tick >= 2, WholeIntervals, SessionInv, AskedInv, Unranged, ~ job.app,
         NEW n \in DOMAIN asked, NEW k \in 1..asked[n].frame, ~ Skipped(asked[n].chunk.who, k)
  PROVE  \E m \in DOMAIN asked : asked[m].chunk.who = asked[n].chunk.who /\ Covers(m, k)
<1>1. PICK i \in DOMAIN job.controllers : AskedBy(job.controllers[i], asked[n])
  BY DEF AskedInv, ExactlyAsked
<1>2. PICK c : c = job.controllers[i]
  OBVIOUS
<1>3. job \in Jobs /\ taken \in 0..job.frames /\ job.frames \in Nat
  BY NewControllers DEF SessionInv
<1>4. /\ IsController(c) /\ c.interval % Tick = 0 /\ c.range = None
      /\ asked[n].chunk.who = c.who
  <2>1. IsController(c) /\ c.interval % Tick = 0
    BY <1>2, <1>3, NewControllers DEF WholeIntervals
  <2>2. i \in DOMAIN ctrls /\ SameSettings(ctrls[i], c) /\ ctrls[i].range = None
    BY <1>2 DEF AskedInv, SettingsInv, Unranged
  <2>3. QED
    BY <2>1, <2>2, <1>1, <1>2 DEF SameSettings, AskedBy
<1>5. PICK f \in Nat \ {0} : f = asked[n].frame /\ f \in 1..taken
  <2>1. asked[n].frame \in 1..taken
    BY DEF SessionInv, AskedOK
  <2>2. QED
    BY <2>1, <1>3
<1>6. k \in Nat \ {0} /\ k <= f
  BY <1>5
<1>7. AsksAt(c, FrameState(job, f))
  BY <1>1, <1>2, <1>5 DEF AskedBy
<1>8. PICK S : S = { x \in k..f : AsksAt(c, FrameState(job, x)) }
  OBVIOUS
<1>9. PICK y \in S : \A x \in S : y <= x
  <2>1. f \in S
    BY <1>6, <1>7, <1>8
  <2>2. S \in SUBSET Nat /\ S # {}
    BY <2>1, <1>6, <1>8
  <2>3. Min(S) \in S /\ \A x \in S : Min(S) <= x
    BY <2>2, MinIsLeast
  <2>4. QED
    BY <2>3
<1>10. y \in k..f /\ AsksAt(c, FrameState(job, y)) /\ y \in Nat \ {0} /\ k <= y
  BY <1>6, <1>8
<1>11. PICK m \in DOMAIN asked : asked[m].frame = y /\ AskedBy(c, asked[m])
  <2>1. CASE y = f
    BY <2>1, <1>1, <1>2, <1>5
  <2>2. CASE y # f
    <3>1. y \in 1..taken /\ y # taken /\ y \in 1..job.frames
      BY <2>2, <1>3, <1>5, <1>6, <1>10
    <3>2. IsAskedAbout(y)
      BY <3>1 DEF IsAskedAbout
    <3>3. QED
      BY <3>1, <3>2, <1>2, <1>10 DEF AskedInv, ExactlyAsked
  <2>3. QED
    BY <2>1, <2>2
<1>12. ~ PanicsAt(c, FrameState(job, y)) /\ asked[m].chunk.start = StartAt(c, FrameState(job, y))
  BY <1>11 DEF AskedBy
<1>13. ~ (k = 1 /\ SkipsFirstOf(job, c))
  <2>1. SUFFICES ASSUME k = 1, SkipsFirstOf(job, c) PROVE FALSE
    OBVIOUS
  <2>2. Skipped(c.who, 1)
    BY <2>1, <1>2, SkippedBy DEF AskedInv
  <2>3. QED
    BY <2>1, <2>2, <1>4
<1>14. \A x \in k..(y - 1) : ~ AsksAt(c, FrameState(job, x))
  <2>1. SUFFICES ASSUME NEW x \in k..(y - 1), AsksAt(c, FrameState(job, x)) PROVE FALSE
    OBVIOUS
  <2>2. x \in S
    BY <2>1, <1>6, <1>8, <1>10
  <2>3. QED
    BY <2>1, <2>2, <1>6, <1>9, <1>10
<1>15. StartAt(c, FrameState(job, y)) <= FrameState(job, k).time.start
  BY <1>3, <1>4, <1>6, <1>10, <1>12, <1>13, <1>14, CoversBack
<1>16. QED
  BY <1>4, <1>10, <1>11, <1>12, <1>15 DEF Covers, AskedBy

-----------------------------------------------------------------------------
(* The signer's GUI leaves nothing out either.                              *)

(* Alice holds every frame up to the last she was asked at, and what she is *)
(* asked for next starts no later than the frames behind it; she is asked   *)
(* at the last frame.                                                       *)
Alices == \A n \in DOMAIN asked : asked[n].chunk.who = "alice"

Held(k) == \E m \in DOMAIN asked : Covers(m, k)

AskedBehind(k) == \E n \in DOMAIN asked : k <= asked[n].frame

GuiMeets ==
    job.app =>
        /\ Alices
        /\ \A n \in DOMAIN asked : \A k \in 1..asked[n].frame : Held(k)
        /\ \A k \in Nat \ {0} : AskedBehind(k) \/ lastSign <= FrameState(job, k).time.start
        /\ taken = job.frames /\ job.last => \E n \in DOMAIN asked : asked[n].frame = job.frames

(* A session of the GUI starts with no chunk, from zero.                    *)
LEMMA GuiMeetsStart ==
  ASSUME job \in Jobs, asked = <<>>, taken = 0, lastSign = 0
  PROVE  GuiMeets
<1>1. DOMAIN asked = {}
  OBVIOUS
<1>2. \A k \in Nat \ {0} : lastSign <= FrameState(job, k).time.start
  <2>1. SUFFICES ASSUME NEW k \in Nat \ {0} PROVE 0 <= FrameState(job, k).time.start
    OBVIOUS
  <2>2. PICK s \in Nat : s = FrameState(job, k).time.start
    BY FrameTimes
  <2>3. QED
    BY <2>2
<1>3. taken # job.frames
  BY NewControllers
<1>4. QED
  BY <1>1, <1>2, <1>3 DEF GuiMeets, Alices

(* Steps that do not ask.                                                   *)
LEMMA GuiMeetsStays ==
  ASSUME GuiMeets, UNCHANGED <<job, taken, asked, lastSign>>
  PROVE  GuiMeets'
BY DEF GuiMeets, Alices, Held, AskedBehind, Covers

(* The GUI takes a frame.                                                   *)
LEMMA GuiMeetsTurn ==
  ASSUME SessionInv, GuiMeets, GuiTurn
  PROVE  GuiMeets'
<1>1. job \in Jobs /\ taken \in Nat /\ job.frames \in Nat \ {0}
  BY NewControllers DEF SessionInv
<1>2. PICK k \in Nat \ {0} : k = taken + 1
  BY <1>1
<1>3. PICK s \in Nat : s = FrameState(job, k).time.start
  BY <1>1, <1>2, FrameTimes
<1>4. PICK l \in Nat : l = lastSign
  BY DEF SessionInv
<1>5. job.app /\ UNCHANGED job /\ taken' = k
  BY <1>2 DEF GuiTurn, Up
<1>6. \/ AskFor(<< GuiChunk(l, "alice") >>, k) /\ lastSign' = s
      \/ /\ UNCHANGED <<asked, lastSign>>
         /\ ~ (k = job.frames /\ job.last)
  <2>1. FrameState(job, k).last = (k = job.frames /\ job.last)
    BY DEF FrameState
  <2>2. QED
    BY <1>2, <1>3, <1>4, <2>1 DEF GuiTurn, GuiAsks
<1>7. CASE UNCHANGED <<asked, lastSign>> /\ ~ (k = job.frames /\ job.last)
  BY <1>5, <1>7 DEF GuiMeets, Alices, Held, AskedBehind, Covers
<1>8. CASE AskFor(<< GuiChunk(l, "alice") >>, k) /\ lastSign' = s
  <2>1. PICK q : q = GuiChunk(l, "alice")
    OBVIOUS
  <2>2. PICK chunks : chunks = << q >>
    OBVIOUS
  <2>3. chunks \in Seq(ToSet(chunks)) /\ DOMAIN chunks = {1} /\ chunks[1] = q
    BY <2>2 DEF ToSet
  <2>4. AskFor(chunks, k)
    BY <1>8, <2>1, <2>2
  <2>5. /\ DOMAIN asked \subseteq DOMAIN asked'
        /\ \A m \in DOMAIN asked : asked'[m] = asked[m]
        /\ \A m \in DOMAIN asked' \ DOMAIN asked : \E h \in DOMAIN chunks :
              asked'[m] = [chunk |-> Built(chunks[h]), frame |-> k]
        /\ \A h \in DOMAIN chunks : \E m \in DOMAIN asked' \ DOMAIN asked :
              asked'[m] = [chunk |-> Built(chunks[h]), frame |-> k]
    BY <2>3, <2>4, AskForAll
  <2>6. PICK a : a = FloorMillis(l)
    OBVIOUS
  <2>7. Built(q).start = a /\ Built(q).who = "alice" /\ a \in Nat /\ a <= l
    BY <2>1, <2>6, GuiChunkIs, FloorMillisBounds
  <2>8. \A m \in DOMAIN asked' \ DOMAIN asked :
            /\ asked'[m].frame = k /\ asked'[m].chunk.start = a
            /\ asked'[m].chunk.who = "alice"
    <3>1. ASSUME NEW m \in DOMAIN asked' \ DOMAIN asked
          PROVE  asked'[m].frame = k /\ asked'[m].chunk = Built(q)
      <4>1. asked'[m] = [chunk |-> Built(q), frame |-> k]
        BY <2>3, <2>5
      <4>2. QED
        BY <4>1
    <3>2. QED
      BY <3>1, <2>7
  <2>9. PICK n \in DOMAIN asked' \ DOMAIN asked : TRUE
    BY <2>3, <2>5
  <2>10. asked'[n].frame = k /\ asked'[n].chunk.start = a
    BY <2>8, <2>9
  <2>11. Alices'
    BY <1>5, <2>5, <2>8 DEF GuiMeets, Alices
  <2>12. ASSUME NEW m \in DOMAIN asked, NEW x \in Nat \ {0}, Covers(m, x)
         PROVE  Held(x)'
    BY <2>12, <2>5, <1>5 DEF Covers, Held
  <2>13. ASSUME NEW m \in DOMAIN asked', NEW x \in 1..asked'[m].frame
         PROVE  Held(x)'
    <3>1. m \in DOMAIN asked => asked[m].frame \in Nat
      BY <1>1 DEF SessionInv, AskedOK
    <3>2. asked'[m].frame \in Nat
      BY <3>1, <2>5, <2>8
    <3>3. x \in Nat \ {0} /\ x <= asked'[m].frame
      BY <3>2
    <3>4. CASE AskedBehind(x)
      <4>1. PICK h \in DOMAIN asked : x <= asked[h].frame
        BY <3>4 DEF AskedBehind
      <4>2. asked[h].frame \in Nat
        BY <1>1 DEF SessionInv, AskedOK
      <4>3. x \in 1..asked[h].frame
        BY <3>3, <4>1, <4>2
      <4>4. Held(x)
        BY <4>3, <1>5 DEF GuiMeets
      <4>5. QED
        BY <4>4, <3>3, <2>12 DEF Held
    <3>5. CASE ~ AskedBehind(x)
      <4>1. PICK t \in Nat : t = FrameState(job, x).time.start
        BY <3>3, <1>1, FrameTimes
      <4>2. l <= t
        BY <3>3, <3>5, <4>1, <1>4, <1>5 DEF GuiMeets
      <4>3. a <= t
        BY <4>1, <4>2, <2>7
      <4>4. m \notin DOMAIN asked
        BY <3>3, <3>5, <2>5 DEF AskedBehind
      <4>5. x <= k
        BY <3>3, <4>4, <2>8
      <4>6. Covers(n, x)'
        BY <4>1, <4>3, <4>5, <2>10, <1>5 DEF Covers
      <4>7. QED
        BY <4>6, <2>9 DEF Held
    <3>6. QED
      BY <3>4, <3>5
  <2>14. ASSUME NEW x \in Nat \ {0}
         PROVE  AskedBehind(x)' \/ s <= FrameState(job, x).time.start
    <3>1. CASE x <= k
      BY <3>1, <2>9, <2>10 DEF AskedBehind
    <3>2. CASE ~ (x <= k)
      <4>1. PICK t, e : t = FrameState(job, x).time.start /\ e = FrameState(job, k).time.end
        OBVIOUS
      <4>2. t \in Nat /\ e \in Nat /\ s <= e
        BY <4>1, <1>1, <1>3, FrameTimes
      <4>3. k < x
        BY <3>2
      <4>4. e <= t
        BY <4>1, <4>3, <1>1, FramesFollow
      <4>5. QED
        BY <4>1, <4>2, <4>4
    <3>3. QED
      BY <3>1, <3>2
  <2>15. \A x \in Nat \ {0} : AskedBehind(x)' \/ lastSign' <= FrameState(job', x).time.start
    BY <2>14, <1>5, <1>8
  <2>16. taken' = job'.frames => \E m \in DOMAIN asked' : asked'[m].frame = job'.frames
    BY <2>9, <2>10, <1>5
  <2>17. QED
    BY <2>11, <2>13, <2>15, <2>16 DEF GuiMeets
<1>9. QED
  BY <1>6, <1>7, <1>8

(* In every state ...                                                       *)
LEMMA GuiMeetsStep ==
  ASSUME SessionInv, GuiMeets, [Next]_appVars
  PROVE  GuiMeets'
<1>1. CASE UNCHANGED <<job, taken, asked, lastSign>>
  BY <1>1, GuiMeetsStays
<1>2. CASE UNCHANGED <<sessionVars, lastSign>>
  BY <1>1, <1>2 DEF sessionVars
<1>3. CASE Menu
  <2>1. CASE (\E j \in Jobs : ChooseVideo(j)) \/ ChooseOutput
    BY <1>2, <2>1 DEF ChooseVideo, ChooseOutput
  <2>2. CASE GoToVideo
    <3>1. \/ UNCHANGED <<sessionVars, lastSign>>
          \/ src # None /\ Start(src) /\ lastSign' = 0
      BY <2>2 DEF GoToVideo, SpawnPlayer, WatchVideo
    <3>2. CASE src # None /\ Start(src) /\ lastSign' = 0
      <4>1. job' \in Jobs /\ asked' = <<>> /\ taken' = 0 /\ lastSign' = 0
        BY <3>2 DEF Start, SessionInv
      <4>2. GuiMeets'
        <5>1. DOMAIN asked' = {}
          BY <4>1
        <5>2. \A k \in Nat \ {0} : lastSign' <= FrameState(job', k).time.start
          <6>1. SUFFICES ASSUME NEW k \in Nat \ {0} PROVE 0 <= FrameState(job', k).time.start
            BY <4>1
          <6>2. PICK s \in Nat : s = FrameState(job', k).time.start
            BY <4>1, FrameTimes
          <6>3. QED
            BY <6>2
        <5>3. taken' # job'.frames
          BY <4>1, NewControllers
        <5>4. QED
          BY <5>1, <5>2, <5>3 DEF GuiMeets, Alices
      <4>3. QED
        BY <4>2
    <3>3. QED
      BY <3>1, <3>2, <1>2
  <2>3. QED
    BY <1>3, <2>1, <2>2 DEF Menu
<1>4. CASE VideoView
  <2>1. CASE PressEnter \/ PressSpace \/ PaintOverlay
    BY <1>2, <2>1 DEF PressEnter, PressSpace, PaintOverlay, GoDown
  <2>2. CASE RunIdle
    <3>1. UNCHANGED <<job, taken, asked, lastSign>>
      BY <2>2 DEF RunIdle, ShowFrame, ShowSign, Finish, GoDown, sessionVars
    <3>2. QED
      BY <3>1, <1>1
  <2>3. QED
    BY <1>4, <2>1, <2>2 DEF VideoView
<1>5. CASE NextSession /\ UNCHANGED guiVars
  <2>1. CASE AskControllers
    BY <2>1 DEF AskControllers, GuiMeets
  <2>2. CASE ThreadEnds
    BY <1>1, <1>5, <2>2 DEF ThreadEnds, guiVars
  <2>3. CASE Answer \/ Collect \/ WriteFile
    BY <1>1, <1>5, <2>3 DEF Answer, Receive, ReceiveError, Collect, WriteFile, guiVars
  <2>4. QED
    BY <1>5, <2>1, <2>2, <2>3 DEF NextSession
<1>6. CASE WatchEnds
  BY <1>2, <1>6 DEF WatchEnds
<1>7. CASE Signing
  BY <1>3, <1>4, <1>5, <1>6, <1>7, GuiMeetsTurn DEF Signing, NextGui, GuiSession
<1>8. QED
  BY <1>2, <1>7 DEF Next, Verifying, appVars, guiVars

(* ... and from the start.                                                  *)
LEMMA GuiMeetsInit == Init => GuiMeets
BY GuiMeetsStart DEF Init, InitSession, InitGui

(* The chunks a signer is asked for leave no frame out between the first,   *)
(* or the second where the first is skipped (is_start), and the last they   *)
(* were asked for at: IntervalController::get_chunk, the function in the    *)
(* example of SignPipeline::sign and the GUI's SignController::get_chunks,  *)
(* for all videos, offsets and intervals of whole milliseconds.             *)
THEOREM ChunksLeaveNothingOut ==
  ASSUME Tick >= 2, WholeIntervals PROVE Spec => []ChunksMeet
<1>1. ASSUME SessionInv, AskedInv, GuiMeets
      PROVE  ChunksMeet
  <2> SUFFICES ASSUME Unranged, NEW n \in DOMAIN asked, NEW k \in 1..asked[n].frame,
                      ~ Skipped(asked[n].chunk.who, k)
               PROVE  \E m \in DOMAIN asked :
                         asked[m].chunk.who = asked[n].chunk.who /\ Covers(m, k)
    BY DEF ChunksMeet
  <2>1. CASE job.app
    <3>1. Held(k) /\ Alices
      BY <1>1, <2>1 DEF GuiMeets
    <3>2. QED
      BY <3>1 DEF Held, Alices
  <2>2. CASE ~ job.app
    BY <1>1, <2>2, ControllersMeet
  <2>3. QED
    BY <2>1, <2>2
<1>2. QED
  BY <1>1, SessionInvariant, AskedInit, AskedStep, GuiMeetsInit, GuiMeetsStep, PTL DEF Spec

-----------------------------------------------------------------------------
(* Nothing is left unsigned.                                                *)

(* The thread ends behind the last frame, or when the receiver is gone.     *)
EndedInv == thread = "ended" => reader = "failed" \/ taken = job.frames

(* In every state ...                                                       *)
LEMMA EndedStep ==
  ASSUME SessionInv, EndedInv, [Next]_appVars
  PROVE  EndedInv'
<1>1. CASE UNCHANGED <<job, taken, thread, reader>>
  BY <1>1 DEF EndedInv
<1>2. CASE UNCHANGED sessionVars
  BY <1>1, <1>2 DEF sessionVars
<1>3. CASE Menu
  <2>1. CASE (\E j \in Jobs : ChooseVideo(j)) \/ ChooseOutput
    BY <1>2, <2>1 DEF ChooseVideo, ChooseOutput
  <2>2. CASE GoToVideo
    BY <1>2, <2>2 DEF GoToVideo, SpawnPlayer, WatchVideo, Start, EndedInv
  <2>3. QED
    BY <1>3, <2>1, <2>2 DEF Menu
<1>4. CASE VideoView
  <2>1. CASE PressEnter \/ PressSpace \/ PaintOverlay
    BY <1>2, <2>1 DEF PressEnter, PressSpace, PaintOverlay, GoDown
  <2>2. CASE RunIdle
    <3>1. UNCHANGED <<job, taken, thread, reader>>
      BY <2>2 DEF RunIdle, ShowFrame, ShowSign, Finish, GoDown, sessionVars
    <3>2. QED
      BY <3>1, <1>1
  <2>3. QED
    BY <1>4, <2>1, <2>2 DEF VideoView
<1>5. CASE NextSession
  <2>1. CASE AskControllers
    BY <2>1 DEF AskControllers, NextFrameReady, EndedInv
  <2>2. CASE ThreadEnds
    <3>1. reader = "failed" \/ ~ (taken < job.frames)
      BY <2>2 DEF ThreadEnds, NextFrameReady
    <3>2. taken \in 0..job.frames /\ job.frames \in Nat
      BY NewControllers DEF SessionInv
    <3>3. reader = "failed" \/ taken = job.frames
      BY <3>1, <3>2
    <3>4. QED
      BY <2>2, <3>3 DEF ThreadEnds, EndedInv
  <2>3. CASE Answer \/ Collect \/ WriteFile
    BY <1>1, <2>3 DEF Answer, Receive, ReceiveError, Collect, WriteFile, EndedInv
  <2>4. QED
    BY <1>5, <2>1, <2>2, <2>3 DEF NextSession
<1>6. CASE WatchEnds
  BY <1>2, <1>6 DEF WatchEnds
<1>7. CASE GuiTurn
  BY <1>7 DEF GuiTurn, NextFrameReady, EndedInv
<1>8. CASE Signing
  BY <1>3, <1>4, <1>5, <1>6, <1>7, <1>8 DEF Signing, NextGui, GuiSession
<1>9. QED
  BY <1>2, <1>8 DEF Next, Verifying, appVars

(* ... and from the start.                                                  *)
LEMMA EndedInit == Init => EndedInv
BY DEF Init, InitSession, EndedInv

(* The last frame is a reason to ask for every controller but the function. *)
LEMMA LastAsks ==
  ASSUME NEW c, c.range = None, ~ IsOfFunction(c), NEW j, j.last
  PROVE  AsksAt(c, FrameState(j, j.frames))
<1>1. FrameState(j, j.frames).last
  BY DEF FrameState
<1>2. QED
  BY <1>1 DEF AsksAt, Asks, InRange

(* When a session was collected at the end of its video, its controllers    *)
(* were asked about every frame.                                            *)
LEMMA AllAskedAbout ==
  ASSUME SessionInv, EndedInv, ReaderOK, reader = "collected", thread # "panicked"
  PROVE  /\ taken = job.frames /\ pending = {}
         /\ \A k \in 1..job.frames : IsAskedAbout(k)
<1>1. thread = "ended" /\ pending = {}
  BY DEF ReaderOK
<1>2. taken = job.frames
  BY <1>1 DEF EndedInv
<1>3. QED
  BY <1>1, <1>2 DEF IsAskedAbout

(* The signers of a session that was collected, and up to which frame they  *)
(* were asked.                                                              *)
LEMMA SignersAre ==
  ASSUME SessionInv, AskedInv, EndedInv, ReaderOK, reader = "collected", thread # "panicked",
         job.last, Unranged, ~ job.app, ~ IsFunction(ctrls)
  PROVE  /\ Signers = { ctrls[c].who : c \in DOMAIN ctrls }
         /\ \A who \in Signers : \E n \in DOMAIN asked :
               asked[n].frame = job.frames /\ asked[n].chunk.who = who
<1>1. PICK js, cs : js = job.controllers /\ cs = ctrls
  OBVIOUS
<1>2. PICK z \in Nat : DOMAIN cs = 1..z
  BY <1>1 DEF SessionInv, ControllersOK
<1>3. DOMAIN js = 1..z /\ \A i \in 1..z : SameSettings(cs[i], js[i])
  BY <1>1, <1>2 DEF AskedInv, SettingsInv
<1>4. KindsOK(js)
  BY <1>1, JobKinds DEF SessionInv
<1>5. KindsOK(cs)
  BY <1>2, <1>3, <1>4 DEF KindsOK, IsOfFunction, SameSettings
<1>6. ASSUME NEW i \in 1..z
      PROVE  js[i].who = cs[i].who /\ js[i].range = None /\ ~ IsOfFunction(js[i])
  <2>1. cs[i].range = None
    BY <1>1, <1>2 DEF Unranged
  <2>2. ~ IsOfFunction(cs[i])
    BY <1>1, <1>2, <1>5, KindsAgree
  <2>3. QED
    BY <1>3, <2>1, <2>2 DEF SameSettings, IsOfFunction
<1>7. ASSUME NEW i \in 1..z
      PROVE  \E n \in DOMAIN asked : asked[n].frame = job.frames /\ asked[n].chunk.who = cs[i].who
  <2>1. PICK k : k = job.frames
    OBVIOUS
  <2>2. k \in 1..job.frames /\ IsAskedAbout(k)
    <3>1. k \in Nat \ {0}
      BY <2>1, NewControllers DEF SessionInv
    <3>2. QED
      BY <3>1, <2>1, AllAskedAbout
  <2>3. AsksAt(js[i], FrameState(job, k))
    BY <1>6, <2>1, LastAsks
  <2>4. PICK n \in DOMAIN asked : asked[n].frame = k /\ AskedBy(js[i], asked[n])
    BY <1>1, <1>3, <2>2, <2>3 DEF AskedInv, ExactlyAsked
  <2>5. QED
    BY <2>1, <2>4, <1>6 DEF AskedBy
<1>8. ASSUME NEW n \in DOMAIN asked
      PROVE  \E i \in 1..z : asked[n].chunk.who = cs[i].who
  <2>1. PICK i \in DOMAIN js : AskedBy(js[i], asked[n])
    BY <1>1 DEF AskedInv, ExactlyAsked
  <2>2. QED
    BY <1>3, <1>6, <2>1 DEF AskedBy
<1>9. Signers = { cs[c].who : c \in DOMAIN cs }
  <2>1. \A who \in Signers : who \in { cs[c].who : c \in 1..z }
    BY <1>8 DEF Signers
  <2>2. ASSUME NEW i \in 1..z PROVE cs[i].who \in Signers
    <3>1. PICK n \in DOMAIN asked : asked[n].chunk.who = cs[i].who
      BY <1>7
    <3>2. QED
      BY <3>1 DEF Signers
  <2>3. QED
    BY <1>2, <2>1, <2>2
<1>10. QED
  BY <1>1, <1>2, <1>7, <1>9

(* With a function there is one signer.                                     *)
LEMMA FunctionSigner ==
  ASSUME SessionInv, AskedInv, ~ job.app, IsFunction(ctrls),
         NEW m \in DOMAIN asked, NEW n \in DOMAIN asked
  PROVE  asked[m].chunk.who = asked[n].chunk.who
<1>1. PICK js, cs : js = job.controllers /\ cs = ctrls
  OBVIOUS
<1>2. PICK z \in Nat : DOMAIN cs = 1..z /\ z = Len(js)
  BY <1>1 DEF SessionInv, ControllersOK
<1>3. 1 \in DOMAIN cs
  <2>1. cs # <<>> /\ cs \in Seq(ToSet(cs))
    BY <1>1 DEF IsFunction, SessionInv, ControllersOK
  <2>2. QED
    BY <2>1
<1>4. DOMAIN js = 1..z /\ js[1].kind = "function"
  BY <1>1, <1>2, <1>3 DEF AskedInv, SettingsInv, SameSettings, IsFunction
<1>5. z = 1
  <2>1. IsJob(job)
    BY SessionAssumption DEF SessionInv
  <2>2. QED
    BY <1>1, <1>2, <1>3, <1>4, <2>1 DEF IsJob
<1>6. DOMAIN js = {1}
  BY <1>4, <1>5
<1>7. AskedBy(js[1], asked[m]) /\ AskedBy(js[1], asked[n])
  BY <1>1, <1>6 DEF AskedInv, ExactlyAsked
<1>8. QED
  BY <1>7 DEF AskedBy

(* An answer to a chunk that holds the frame is found at it.                *)
LEMMA AnswerFound ==
  ASSUME SessionInv, FileInv, WholeStarts, PlacedInv, MillisecondFrames(job.rate),
         reader = "collected", NEW k \in Nat \ {0}, NEW m \in Answered, Covers(m, k)
  PROVE  LET found == SignaturesAt(file, FrameState(job, k).time.start)
         IN  \E i \in DOMAIN found : found[i].val.presentation.id = asked[m].chunk.who
<1>1. PICK n \in Nat : DOMAIN file = 1..n
  BY DEF FileInv
<1>2. PICK A : A = Hits(k) /\ A \in SUBSET (1..n)
  BY <1>1 DEF Hits
<1>3. PICK found : found = Kept(file, A)
  OBVIOUS
<1>4. /\ Cardinality(A) \in Nat /\ DOMAIN found = 1..Cardinality(A)
      /\ \A p \in 1..Cardinality(A) : found[p] = file[Nth(A, p)]
  BY <1>2, <1>3, KeptIs
<1>5. SignaturesAt(file, FrameState(job, k).time.start) = found
  BY <1>2, <1>3 DEF SignaturesAt, Hits
<1>6. PICK at : IsPlacement(at)
  BY DEF PlacedInv
<1>7. PICK q \in DOMAIN file : file[q] = SignedAs(m)
  BY <1>6 DEF IsPlacement
<1>8. q \in A
  <2>1. m \in DOMAIN asked
    BY DEF Answered
  <2>2. /\ SignedAs(m).start < (FrameState(job, k).time.start \div Tick) + 1
        /\ SignedAs(m).stop > FrameState(job, k).time.start \div Tick
    BY <2>1, HitCovers
  <2>3. QED
    BY <1>2, <1>7, <2>2 DEF Hits
<1>9. PICK p \in 1..Cardinality(A) : Nth(A, p) = q
  <2>1. A \in SUBSET (1..n)
    BY <1>2
  <2>2. \A i \in A : \E h \in 1..Cardinality(A) : Nth(A, h) = i
    BY <2>1, NthIs, Zenon
  <2>3. QED
    BY <2>2, <1>8
<1>10. found[p] = SignedAs(m)
  BY <1>4, <1>7, <1>9
<1>11. found[p].val.presentation.id = asked[m].chunk.who
  <2>1. PICK v : v = SignedAs(m).val.presentation
    OBVIOUS
  <2>2. v = [kind |-> IF asked[m].chunk.ref THEN "ref" ELSE "def", id |-> asked[m].chunk.who]
    BY <2>1, PresentationIs
  <2>3. v.id = asked[m].chunk.who
    BY <2>2
  <2>4. QED
    BY <1>10, <2>1, <2>3
<1>12. QED
  BY <1>4, <1>5, <1>9, <1>11

(* Every frame that is not left out lies in a chunk that was asked for.     *)
LEMMA HeldBySigner ==
  ASSUME SessionInv, AskedInv, EndedInv, ReaderOK, GuiMeets, ChunksMeet, Unranged,
         reader = "collected", thread # "panicked", job.last,
         NEW who \in Signers, NEW k \in 1..job.frames, ~ Skipped(who, k),
         ~ (IsFunction(ctrls) /\ \A n \in DOMAIN asked : asked[n].frame < k)
  PROVE  \E m \in DOMAIN asked : asked[m].chunk.who = who /\ Covers(m, k)
<1>1. job.frames \in Nat \ {0} /\ job \in Jobs
  BY NewControllers DEF SessionInv
<1>2. taken = job.frames
  BY AllAskedAbout
<1>3. \E n \in DOMAIN asked : asked[n].chunk.who = who /\ k <= asked[n].frame
  <2>1. CASE job.app
    <3>1. PICK n \in DOMAIN asked : asked[n].frame = job.frames
      BY <2>1, <1>2 DEF GuiMeets
    <3>2. asked[n].chunk.who = who
      BY <2>1 DEF GuiMeets, Alices, Signers
    <3>3. QED
      BY <3>1, <3>2, <1>1
  <2>2. CASE ~ job.app /\ ~ IsFunction(ctrls)
    <3>1. \A w \in Signers : \E n \in DOMAIN asked :
             asked[n].frame = job.frames /\ asked[n].chunk.who = w
      BY <2>2, SignersAre
    <3>2. QED
      BY <3>1, <1>1
  <2>3. CASE ~ job.app /\ IsFunction(ctrls)
    <3>1. PICK n \in DOMAIN asked : ~ (asked[n].frame < k)
      BY <2>3
    <3>2. asked[n].frame \in Nat
      BY <1>1 DEF SessionInv, AskedOK
    <3>3. k <= asked[n].frame
      BY <3>1, <3>2, <1>1
    <3>4. PICK h \in DOMAIN asked : asked[h].chunk.who = who
      BY DEF Signers
    <3>5. asked[h].chunk.who = asked[n].chunk.who
      BY <2>3, FunctionSigner
    <3>6. QED
      BY <3>3, <3>4, <3>5
  <2>4. QED
    BY <2>1, <2>2, <2>3
<1>4. PICK n \in DOMAIN asked : asked[n].chunk.who = who /\ k <= asked[n].frame
  BY <1>3
<1>5. k \in 1..asked[n].frame
  <2>1. asked[n].frame \in Nat
    BY <1>1 DEF SessionInv, AskedOK
  <2>2. QED
    BY <2>1, <1>1, <1>4
<1>6. QED
  BY <1>4, <1>5 DEF ChunksMeet

(* Whole-millisecond settings, taken apart.                                 *)
LEMMA JobsInMillis == WholeMillisJobs => MillisecondJobs /\ WholeIntervals
<1> SUFFICES ASSUME WholeMillisJobs
             PROVE  MillisecondJobs /\ WholeIntervals
  OBVIOUS
<1>1. ASSUME NEW j \in Jobs
      PROVE  MillisecondFrames(j.rate)
  BY DEF WholeMillisJobs
<1>2. ASSUME NEW j \in Jobs, NEW i \in DOMAIN j.controllers
      PROVE  j.controllers[i].interval % Tick = 0
  BY DEF WholeMillisJobs
<1>3. QED
  BY <1>1, <1>2 DEF MillisecondJobs, WholeIntervals

(* When the end of the video is seen and nothing fails, the file that       *)
(* SignFile collects has a signature of every signer for every frame, but   *)
(* for the first when it is skipped and for those behind the last chunk of  *)
(* a function that does not look for the end; whatever the order of the     *)
(* answers, and looked up by the milliseconds the file keeps.               *)
THEOREM WholeVideoIsSigned ==
  ASSUME Tick >= 2, WholeMillisJobs PROVE Spec => []WholeVideoSigned
<1>1. ASSUME SessionInv, FileInv, AskedInv, PlacedInv, DiskInv, EndedInv, GuiMeets, ChunksMeet
      PROVE  WholeVideoSigned
  <2>1. SUFFICES ASSUME reader = "collected", job.last, failed = {}, Unranged, ~ Panicked
                 PROVE  /\ IsFunction(ctrls)
                           \/ Signers = IF job.app THEN {"alice"}
                                        ELSE { ctrls[c].who : c \in DOMAIN ctrls }
                        /\ \A k \in 1..job.frames, who \in Signers :
                              LET found == SignaturesAt(file, FrameState(job, k).time.start)
                              IN  \/ Skipped(who, k)
                                  \/ /\ IsFunction(ctrls)
                                     /\ \A n \in DOMAIN asked : asked[n].frame < k
                                  \/ \E i \in DOMAIN found :
                                        found[i].val.presentation.id = who
    BY DEF WholeVideoSigned
  <2>2. ReaderOK /\ thread # "panicked"
    BY <1>1, <2>1 DEF DiskInv, Panicked
  <2>3. taken = job.frames /\ pending = {}
    BY <1>1, <2>1, <2>2, AllAskedAbout
  <2>4. IsFunction(ctrls) \/ Signers = IF job.app THEN {"alice"}
                                       ELSE { ctrls[c].who : c \in DOMAIN ctrls }
    <3>1. CASE job.app
      <4>1. \A n \in DOMAIN asked : asked[n].chunk.who = "alice"
        BY <1>1, <3>1 DEF GuiMeets, Alices
      <4>2. \E n \in DOMAIN asked : TRUE
        BY <1>1, <2>1, <2>3, <3>1 DEF GuiMeets
      <4>3. Signers = {"alice"}
        BY <4>1, <4>2 DEF Signers
      <4>4. QED
        BY <3>1, <4>3
    <3>2. CASE ~ job.app /\ ~ IsFunction(ctrls)
      <4>1. Signers = { ctrls[c].who : c \in DOMAIN ctrls }
        BY <1>1, <2>1, <2>2, <3>2, SignersAre
      <4>2. QED
        BY <3>2, <4>1
    <3>3. QED
      BY <3>1, <3>2
  <2>5. ASSUME NEW k \in 1..job.frames, NEW who \in Signers, ~ Skipped(who, k),
               ~ (IsFunction(ctrls) /\ \A n \in DOMAIN asked : asked[n].frame < k)
        PROVE  LET found == SignaturesAt(file, FrameState(job, k).time.start)
               IN  \E i \in DOMAIN found : found[i].val.presentation.id = who
    <3>1. PICK m \in DOMAIN asked : asked[m].chunk.who = who /\ Covers(m, k)
      BY <1>1, <2>1, <2>2, <2>5, HeldBySigner
    <3>2. m \in Answered
      BY <2>1, <2>3 DEF Answered
    <3>3. k \in Nat \ {0}
      BY <1>1, NewControllers DEF SessionInv
    <3>4. WholeStarts /\ MillisecondFrames(job.rate)
      <4>1. MillisecondJobs
        BY JobsInMillis
      <4>2. QED
        BY <1>1, <4>1 DEF AskedInv, SessionInv, MillisecondJobs
    <3>5. LET found == SignaturesAt(file, FrameState(job, k).time.start)
          IN  \E i \in DOMAIN found : found[i].val.presentation.id = asked[m].chunk.who
      BY <1>1, <2>1, <3>1, <3>2, <3>3, <3>4, AnswerFound
    <3>6. QED
      BY <3>1, <3>5
  <2>6. QED
    BY <2>4, <2>5
<1>2. Spec => []ChunksMeet
  <2>1. WholeIntervals
    BY JobsInMillis
  <2>2. QED
    BY <2>1, ChunksLeaveNothingOut
<1>3. QED
  BY <1>1, <1>2, SessionInvariant, OverlayInit, OverlayStep, AskedInit, AskedStep,
     PlacedInit, PlacedStep, DiskInit, DiskStep, EndedInit, EndedStep,
     GuiMeetsInit, GuiMeetsStep, PTL DEF Spec

-----------------------------------------------------------------------------
(* Why sign refuses.                                                        *)

(* The time of some frames and that of others is no more than that of all.  *)
LEMMA PtsAdd ==
  ASSUME NEW r, IsRate(r), NEW m \in Nat, NEW n \in Nat
  PROVE  Pts(r, m) + Pts(r, n) <= Pts(r, m + n)
<1>1. PICK s \in Nat \ {0} : s = SecondsOf(r)
  BY SecondsOfType
<1>2. PICK f \in Nat \ {0} : f = r.frames
  BY SecondsOfType
<1>3. PICK a \in Nat, b \in Nat : a = Pts(r, m) /\ b = Pts(r, n)
  BY PtsAtLeast
<1>4. a * f <= m * s /\ b * f <= n * s
  BY <1>1, <1>2, <1>3, PtsAtLeast
<1>5. (a + b) * f <= (m + n) * s
  <2>1. (a + b) * f = a * f + b * f /\ (m + n) * s = m * s + n * s
    OBVIOUS
  <2>2. a * f \in Nat /\ b * f \in Nat /\ m * s \in Nat /\ n * s \in Nat
    OBVIOUS
  <2>3. QED
    BY <2>1, <2>2, <1>4
<1>6. a + b <= Pts(r, m + n)
  <2>1. a + b \in Nat /\ m + n \in Nat
    OBVIOUS
  <2>2. QED
    BY <2>1, <1>1, <1>2, <1>5, PtsAtLeast
<1>7. QED
  BY <1>3, <1>6

(* A chunk from before the oldest frame of the signer's buffer has at least *)
(* the maximum length.                                                      *)
LEMMA OldestReaches ==
  ASSUME MaxChunk % Tick = 0, NEW j \in Jobs, NEW f \in Nat \ {0},
         NEW x \in Nat, IsWhole(x), j.offset <= x, x < Oldest(j, f)
  PROVE  MaxChunk <= FloorMillis(FrameState(j, f).time.end) - x
<1>1. IsRate(j.rate) /\ j.offset \in Nat
  BY JobTypes
<1>2. PICK o \in Nat : o = j.offset
  BY <1>1
<1>3. PICK cap \in Nat \ {0} : cap = Capacity(j.rate)
  BY <1>1, CapacityIsPositive
<1>4. cap < f
  <2>1. SUFFICES ASSUME ~ (cap < f) PROVE FALSE
    OBVIOUS
  <2>2. Oldest(j, f) = FrameState(j, 1).time.start
    BY <2>1, <1>3 DEF Oldest
  <2>3. FrameState(j, 1).time.start = o + Pts(j.rate, 0)
    BY <1>2, JobTypes
  <2>4. Pts(j.rate, 0) = 0
    <3>1. PICK s \in Nat \ {0} : s = SecondsOf(j.rate)
      BY <1>1, SecondsOfType
    <3>2. PICK p \in Nat \ {0} : p = j.rate.frames
      BY <1>1, SecondsOfType
    <3>3. 0 * s = 0 /\ 0 \div p = 0
      OBVIOUS
    <3>4. QED
      BY <3>1, <3>2, <3>3 DEF Pts, FloorDiv
  <2>5. QED
    BY <2>2, <2>3, <2>4, <1>2
<1>5. PICK n \in Nat : n = f - cap
  BY <1>4
<1>6. PICK z \in Nat : z = Pts(j.rate, n)
  BY <1>1, PtsAtLeast
<1>7. Oldest(j, f) = o + z
  <2>1. n + 1 \in Nat \ {0} /\ n + 1 - 1 = n /\ f - cap + 1 = n + 1
    BY <1>4, <1>5
  <2>2. Oldest(j, f) = FrameState(j, n + 1).time.start
    BY <2>1, <1>3, <1>4 DEF Oldest
  <2>3. FrameState(j, n + 1).time.start = j.offset + Pts(j.rate, n + 1 - 1)
    BY <2>1, JobTypes
  <2>4. QED
    BY <2>1, <2>2, <2>3, <1>2, <1>6
<1>8. PICK y \in Nat : y = Pts(j.rate, f)
  BY <1>1, PtsAtLeast
<1>9. z + MaxChunk <= y
  <2>1. PICK b \in Nat : b = Pts(j.rate, cap)
    BY <1>1, PtsAtLeast
  <2>2. MaxChunk <= b
    <3>1. FramesCeil(j.rate, MaxChunk) <= cap
      BY <1>3 DEF Capacity
    <3>2. QED
      BY <3>1, <2>1, <1>1, CeilIsFirst, TimeAssumption
  <2>3. z + b <= y
    <3>1. n + cap = f
      BY <1>5
    <3>2. QED
      BY <3>1, <2>1, <1>1, <1>6, <1>8, PtsAdd
  <2>4. QED
    BY <2>1, <2>2, <2>3, TimeAssumption
<1>10. PICK e \in Nat : e = FrameState(j, f).time.end
  BY FrameTimes
<1>11. o + y <= e + 1
  <2>1. FrameState(j, f + 1).time.start = o + y
    <3>1. f + 1 \in Nat \ {0} /\ f + 1 - 1 = f
      OBVIOUS
    <3>2. FrameState(j, f + 1).time.start = j.offset + Pts(j.rate, f + 1 - 1)
      BY <3>1, JobTypes
    <3>3. QED
      BY <3>1, <3>2, <1>2, <1>8
  <2>2. QED
    BY <2>1, <1>10, NextFrame
<1>12. x + MaxChunk <= e
  BY <1>7, <1>9, <1>11, TimeAssumption
<1>13. x + MaxChunk <= FloorMillis(e)
  <2>1. PICK k \in Nat \ {0} : k = Tick
    BY TimeAssumption
  <2>2. PICK q \in Nat : x = k * q
    BY <2>1 DEF IsWhole
  <2>3. PICK w \in Nat : MaxChunk = k * w
    <3>1. PICK w \in Nat : w = MaxChunk \div k
      BY <2>1, TimeAssumption, Division
    <3>2. MaxChunk = k * w
      BY <2>1, <3>1, TimeAssumption, Division
    <3>3. QED
      BY <3>2
  <2>4. PICK v \in Nat : v = q + w
    OBVIOUS
  <2>5. x + MaxChunk = k * v
    BY <2>2, <2>3, <2>4
  <2>6. k * v <= FloorMillis(e) <=> k * v <= e
    BY <2>1, WholeMillis
  <2>7. QED
    BY <2>5, <2>6, <1>12
<1>14. FloorMillis(e) \in Nat
  BY FloorMillisBounds
<1>15. QED
  BY <1>10, <1>13, <1>14, TimeAssumption

(* Times of whole milliseconds.                                             *)
LEMMA WholeSum ==
  ASSUME NEW a \in Nat, IsWhole(a), NEW b \in Nat, IsWhole(b)
  PROVE  IsWhole(a + b)
<1>1. PICK k \in Nat \ {0} : k = Tick
  BY TimeAssumption
<1>2. PICK x \in Nat, y \in Nat : a = k * x /\ b = k * y
  BY <1>1 DEF IsWhole
<1>3. PICK z \in Nat : z = x + y
  OBVIOUS
<1>4. a + b = k * z
  BY <1>2, <1>3
<1>5. QED
  BY <1>1, <1>4 DEF IsWhole

(* Of two whole times that differ, one is a millisecond later.              *)
LEMMA WholeStep ==
  ASSUME NEW a \in Nat, IsWhole(a), NEW b \in Nat, IsWhole(b), a < b
  PROVE  a + Tick <= b
<1>1. PICK k \in Nat \ {0} : k = Tick
  BY TimeAssumption
<1>2. PICK x \in Nat, y \in Nat : a = k * x /\ b = k * y
  BY <1>1 DEF IsWhole
<1>3. k * x + k <= k * y
  BY <1>2, WholeBelow
<1>4. QED
  BY <1>1, <1>2, <1>3

(* The remainder says whether a time is whole.                              *)
LEMMA WholeInterval ==
  ASSUME NEW d \in Nat, d % Tick = 0
  PROVE  IsWhole(d)
<1>1. PICK k \in Nat \ {0} : k = Tick
  BY TimeAssumption
<1>2. PICK i \in Nat : i = d \div k
  BY <1>1, Division
<1>3. d = k * i
  BY <1>1, <1>2, Division
<1>4. QED
  BY <1>1, <1>3 DEF IsWhole

(* No more is cut off a time than what is above a whole one before it.      *)
LEMMA FloorAbove ==
  ASSUME NEW x \in Nat, NEW p \in Nat, IsWhole(p), p <= x
  PROVE  p <= FloorMillis(x)
<1>1. PICK k \in Nat \ {0} : k = Tick
  BY TimeAssumption
<1>2. PICK q \in Nat : p = k * q
  BY <1>1 DEF IsWhole
<1>3. k * q <= FloorMillis(x) <=> k * q <= x
  BY <1>1, WholeMillis
<1>4. QED
  BY <1>2, <1>3

(* What sign can be expected to take, of a session.                         *)
FitsIn(j, c) ==
    /\ c.range = None /\ c.interval % Tick = 0
    /\ MinChunk + Tick <= c.interval
    /\ c.interval + FrameLength(j) + Tick <= MaxChunk
    /\ j.offset % c.interval = 0
    /\ \/ j.offset = 0
       \/ \A k \in 1..j.frames :
              ( /\ FrameState(j, k).time.start < j.offset + c.interval
                /\ Crossing(FrameState(j, k).time, c.interval) # None )
              => 2 * (FrameState(j, k).time.end % Tick) < Tick
    /\ IF j.offset = 0 THEN MinChunk + Tick <= FrameState(j, j.frames).time.end
       ELSE j.offset + c.interval <= FrameState(j, j.frames).time.end

(* It is what Fits says of the current session.                             *)
LEMMA FitsJob == ASSUME NEW c, Fits(c) PROVE FitsIn(job, c)
<1>1. \/ job.offset = 0
      \/ \A k \in 1..job.frames :
             ( /\ FrameState(job, k).time.start < job.offset + c.interval
               /\ Crossing(FrameState(job, k).time, c.interval) # None )
             => 2 * (FrameState(job, k).time.end % Tick) < Tick
  BY Zenon DEF Fits
<1>2. /\ c.range = None /\ c.interval % Tick = 0
      /\ MinChunk + Tick <= c.interval
      /\ c.interval + FrameLength(job) + Tick <= MaxChunk
      /\ job.offset % c.interval = 0
      /\ IF job.offset = 0 THEN MinChunk + Tick <= FrameState(job, job.frames).time.end
         ELSE job.offset + c.interval <= FrameState(job, job.frames).time.end
  BY Zenon DEF Fits
<1>3. QED
  BY <1>1, <1>2, Zenon DEF FitsIn

(* Of a frame that ends in the first half of a millisecond no more than     *)
(* that is cut off.                                                         *)
LEMMA RoundedDown ==
  ASSUME NEW p \in Nat, IsWhole(p), NEW x \in Nat, NEW e \in Nat, e = p + x,
         2 * (e % Tick) < Tick, NEW r \in Nat, IsWhole(r), 2 * r <= 2 * x + Tick
  PROVE  r <= x
<1>1. PICK k \in Nat \ {0} : k = Tick
  BY TimeAssumption
<1>2. PICK g \in Nat : g = FloorMillis(e)
  BY FloorMillisBounds
<1>3. PICK y \in Nat : y = (e % k) /\ e = g + y
  <2>1. (e % k) \in Nat
    BY <1>1, Division
  <2>2. g = e - (e % k)
    BY <1>1, <1>2 DEF FloorMillis
  <2>3. QED
    BY <2>1, <2>2
<1>4. IsWhole(g) /\ p <= g
  <2>1. p <= e
    OBVIOUS
  <2>2. QED
    BY <2>1, <1>2, FlooredWhole, FloorAbove
<1>5. 2 * y < k
  BY <1>1, <1>3
<1>6. p + r <= g
  <2>1. SUFFICES ASSUME ~ (p + r <= g) PROVE FALSE
    OBVIOUS
  <2>2. IsWhole(p + r) /\ p + r \in Nat
    BY WholeSum
  <2>3. g + k <= p + r
    BY <2>1, <2>2, <1>1, <1>4, WholeStep
  <2>4. 2 * r <= 2 * x + k
    BY <1>1
  <2>5. QED
    BY <2>3, <2>4, <1>3, <1>5
<1>7. QED
  BY <1>3, <1>6

(* Where a chunk starts, with a function and without.                       *)
LEMMA StartIs ==
  ASSUME NEW c, c.range = None, NEW f, AsksAt(c, f), ~ PanicsAt(c, f)
  PROVE  StartAt(c, f) = FloorMillis(Back(EndOfChunk(f.time, c.interval), c.interval))
<1>1. CASE IsOfFunction(c)
  <2>1. PICK x : x = Crossing(f.time, c.interval)
    OBVIOUS
  <2>2. x # None /\ ~ (x < c.interval)
    BY <1>1, <2>1 DEF AsksAt, PanicsAt, FnAsks, FnPanics
  <2>3. StartAt(c, f) = FloorMillis(x - c.interval)
    BY <1>1, <2>1 DEF StartAt
  <2>4. EndOfChunk(f.time, c.interval) = x
    BY <2>1, <2>2 DEF EndOfChunk
  <2>5. Back(x, c.interval) = x - c.interval
    BY <2>2 DEF Back
  <2>6. QED
    BY <2>3, <2>4, <2>5
<1>2. CASE ~ IsOfFunction(c)
  <2>1. ChunkStart(c, f) = Back(EndOfChunk(f.time, c.interval), c.interval)
    BY DEF ChunkStart, Converted, Back, EndOfChunk
  <2>2. StartAt(c, f) = FloorMillis(ChunkStart(c, f))
    BY <1>2 DEF StartAt
  <2>3. QED
    BY <2>1, <2>2
<1>3. QED
  BY <1>1, <1>2

(* The chunk at a frame that crosses the multiple behind p: it starts at p, *)
(* or a millisecond before where rounding takes it there.                   *)
LEMMA ChunkAtCrossing ==
  ASSUME NEW d \in Nat \ {0}, IsWhole(d), NEW p \in Nat, IsWhole(p), NEW m \in 0..(d - 1),
         NEW l \in Nat, NEW r \in Nat, ~ (r < d), IsWhole(r),
         2 * r <= 2 * (m + l) + Tick, 2 * (m + l) < 2 * r + Tick,
         NEW e \in Nat, e = p + m + l, NEW b \in Nat, b = IF e < r THEN 0 ELSE e - r
  PROVE  /\ FloorMillis(b) \in Nat /\ FloorMillis(e) \in Nat
         /\ p <= FloorMillis(b) + Tick
         /\ FloorMillis(b) + d <= FloorMillis(e) + Tick
         /\ FloorMillis(e) < FloorMillis(b) + d + l + Tick
         /\ 2 * (e % Tick) < Tick => p <= FloorMillis(b)
<1>1. PICK h \in Nat \ {0} : h = Tick
  BY TimeAssumption
<1>2. PICK x \in Nat : x = FloorMillis(b) /\ IsWhole(x) /\ x <= b /\ b < x + h
  BY <1>1, FloorMillisBounds, FlooredWhole
<1>3. PICK y \in Nat : y = FloorMillis(e) /\ IsWhole(y) /\ y <= e /\ e < y + h
  BY <1>1, FloorMillisBounds, FlooredWhole
<1>4. 2 * r <= 2 * (m + l) + h /\ 2 * (m + l) < 2 * r + h
  BY <1>1
<1>5. 2 * p <= 2 * b + h /\ 2 * b < 2 * p + h
  BY <1>1, <1>4
<1>6. x <= p
  <2>1. b < p + Tick
    BY <1>1, <1>5
  <2>2. QED
    BY <2>1, <1>2, FloorBelow
<1>7. IsWhole(h) /\ h \in Nat
  <2>1. h = h * 1
    OBVIOUS
  <2>2. QED
    BY <2>1, <1>1 DEF IsWhole
<1>8. p <= x + h
  <2>1. SUFFICES ASSUME x + h < p PROVE FALSE
    BY <1>2
  <2>2. IsWhole(x + h)
    BY <1>2, <1>7, WholeSum
  <2>3. x + h + h <= p
    BY <2>1, <2>2, <1>1, WholeStep
  <2>4. QED
    BY <2>3, <1>2, <1>5
<1>9. p + d <= y + h
  <2>1. SUFFICES ASSUME y + h < p + d PROVE FALSE
    BY <1>3
  <2>2. IsWhole(y + h)
    BY <1>3, <1>7, WholeSum
  <2>3. IsWhole(p + d) /\ p + d \in Nat
    BY WholeSum
  <2>4. y + h + h <= p + d
    BY <2>1, <2>2, <2>3, <1>1, WholeStep
  <2>5. 2 * (p + d) <= 2 * e + h
    BY <1>4
  <2>6. QED
    BY <2>4, <2>5, <1>3
<1>10. y < x + d + l + h
  BY <1>3, <1>8
<1>11. 2 * (e % Tick) < Tick => p <= x
  <2>1. SUFFICES ASSUME 2 * (e % Tick) < Tick PROVE p <= x
    OBVIOUS
  <2>2. PICK z \in Nat : z = m + l /\ e = p + z
    OBVIOUS
  <2>3. 2 * r <= 2 * z + Tick
    BY <2>2
  <2>4. r <= z
    BY <2>1, <2>2, <2>3, RoundedDown
  <2>5. p <= b
    BY <2>2, <2>4
  <2>6. QED
    BY <2>5, <1>2, FloorAbove
<1>12. x + d <= y + h
  BY <1>6, <1>9
<1>13. QED
  BY <1>1, <1>2, <1>3, <1>8, <1>10, <1>11, <1>12

(* The chunk at the last frame, if that does not cross.                     *)
LEMMA ChunkAtLast ==
  ASSUME NEW d \in Nat \ {0}, IsWhole(d), NEW e \in Nat, NEW b \in Nat,
         b = IF e < d THEN 0 ELSE e - d
  PROVE  /\ FloorMillis(b) \in Nat /\ FloorMillis(e) \in Nat
         /\ FloorMillis(e) < FloorMillis(b) + d + Tick
         /\ e < d => FloorMillis(b) = 0 /\ e < FloorMillis(e) + Tick
         /\ ~ (e < d) => FloorMillis(b) + d <= FloorMillis(e)
<1>1. PICK h \in Nat \ {0} : h = Tick
  BY TimeAssumption
<1>2. PICK x \in Nat : x = FloorMillis(b) /\ IsWhole(x) /\ x <= b /\ b < x + h
  BY <1>1, FloorMillisBounds, FlooredWhole
<1>3. PICK y \in Nat : y = FloorMillis(e) /\ IsWhole(y) /\ y <= e /\ e < y + h
  BY <1>1, FloorMillisBounds, FlooredWhole
<1>4. y < x + d + h
  BY <1>2, <1>3
<1>5. ~ (e < d) => x + d <= y
  <2>1. SUFFICES ASSUME ~ (e < d) PROVE x + d <= y
    OBVIOUS
  <2>2. IsWhole(x + d)
    BY <1>2, WholeSum
  <2>3. x + d \in Nat /\ x + d <= e
    BY <2>1, <1>2
  <2>4. QED
    BY <2>2, <2>3, <1>3, FloorAbove
<1>6. QED
  BY <1>1, <1>2, <1>3, <1>4, <1>5

(* Offsets are whole, and there is a frame length.                          *)
LEMMA OffsetWhole ==
  ASSUME NEW j \in Jobs
  PROVE  IsWhole(j.offset) /\ j.offset \in Nat /\ FrameLength(j) \in Nat
<1>1. PICK o \in Nat : o = j.offset /\ o % Tick = 0
  BY SessionAssumption DEF IsJob
<1>2. IsWhole(o)
  BY <1>1, WholeInterval
<1>3. SecondsOf(j.rate) \in Nat /\ j.rate.frames \in Nat \ {0}
  BY JobTypes, SecondsOfType
<1>4. FrameLength(j) \in Nat
  BY <1>3, Division DEF FrameLength, FloorDiv
<1>5. QED
  BY <1>1, <1>2, <1>4

(* A time that is a multiple of d and no earlier than another with less     *)
(* than d past it.                                                          *)
LEMMA MultipleBelow ==
  ASSUME NEW d \in Nat \ {0}, NEW o \in Nat, o % d = 0, NEW u \in Nat, NEW m \in 0..(d - 1),
         o <= d * u + m
  PROVE  o <= d * u
<1>1. PICK w \in Nat : w = o \div d
  BY Division
<1>2. o = d * w
  BY <1>1, Division
<1>3. d * w <= d * u + m
  BY <1>2
<1>4. d * w + 0 <= d * u + m /\ m < d /\ m \in Int /\ 0 \in Int /\ 0 <= 0
  BY <1>3
<1>5. w <= u
  BY <1>4, Multiples
<1>6. PICK z \in Nat : u = w + z
  <2>1. u - w \in Nat /\ u = w + (u - w)
    BY <1>5
  <2>2. QED
    BY <2>1
<1>7. d * u = d * w + d * z /\ d * z \in Nat /\ d * w \in Nat
  BY <1>6
<1>8. QED
  BY <1>2, <1>7

(* The chunk of a controller that fits starts within the video, and its     *)
(* length is allowed.                                                       *)
LEMMA FittingChunk ==
  ASSUME NEW j \in Jobs, NEW k \in 1..j.frames, NEW c, IsController(c), FitsIn(j, c),
         AsksAt(c, FrameState(j, k)), ~ PanicsAt(c, FrameState(j, k))
  PROVE  \E x \in Nat, y \in Nat :
            /\ x = StartAt(c, FrameState(j, k)) /\ y = FloorMillis(FrameState(j, k).time.end)
            /\ j.offset <= x /\ x + MinChunk <= y /\ y < x + MaxChunk
<1>1. PICK f : f = FrameState(j, k)
  OBVIOUS
<1>2. PICK t : t = f.time
  OBVIOUS
<1>3. k \in Nat \ {0} /\ j.frames \in Nat \ {0}
  BY NewControllers
<1>4. t.start \in Nat /\ t.end \in Nat /\ t.start <= t.end
  BY <1>1, <1>2, <1>3, FrameTimes
<1>5. PICK d \in Nat \ {0} : d = c.interval /\ d % Tick = 0
  BY DEF IsController, FitsIn
<1>6. IsWhole(d)
  BY <1>5, WholeInterval
<1>7. PICK u \in Nat, m \in 0..(d - 1), r \in Nat : CrossesAs(t, d, u, m, r)
  BY <1>4, <1>5, CrossingIs
<1>8. PICK p \in Nat : p = d * u /\ IsWhole(p)
  BY <1>7 DEF CrossesAs
<1>9. PICK h \in Nat \ {0} : h = Tick
  BY TimeAssumption
<1>10. PICK o \in Nat, l \in Nat : o = j.offset /\ l = FrameLength(j) /\ IsWhole(o)
  BY OffsetWhole
<1>11. PICK a \in Nat : a = Pts(j.rate, k - 1)
  <2>1. IsRate(j.rate) /\ k - 1 \in Nat
    BY <1>3, JobTypes
  <2>2. QED
    BY <2>1, PtsAtLeast
<1>12. PICK s \in Nat, e \in Nat : /\ s = t.start /\ e = t.end /\ o <= s /\ e = s + l
  <2>1. t = [start |-> o + a, end |-> o + a + l]
    BY <1>1, <1>2, <1>10, <1>11 DEF FrameState, Span
  <2>2. t.start = o + a /\ t.end = o + a + l
    BY <2>1
  <2>3. QED
    BY <2>2
<1>13. PICK lo \in Nat, hi \in Nat : lo = MinChunk /\ hi = MaxChunk
  BY TimeAssumption
<1>14. lo + h <= d /\ d + l + h <= hi
  BY <1>5, <1>9, <1>10, <1>13 DEF FitsIn
<1>15. PICK b \in Nat : /\ b = Back(EndOfChunk(t, d), d)
                       /\ b = IF r < d THEN IF e < d THEN 0 ELSE e - d
                                       ELSE IF e < r THEN 0 ELSE e - r
  <2>1. Crossing(t, d) = IF r < d THEN None ELSE e - (r - d)
    BY <1>7, <1>12 DEF CrossesAs
  <2>2. CASE r < d
    <3>1. EndOfChunk(t, d) = e
      BY <2>1, <2>2, <1>12 DEF EndOfChunk
    <3>2. Back(e, d) = IF e < d THEN 0 ELSE e - d
      BY DEF Back
    <3>3. (IF e < d THEN 0 ELSE e - d) \in Nat
      OBVIOUS
    <3>4. QED
      BY <3>1, <3>2, <3>3, <2>2
  <2>3. CASE ~ (r < d)
    <3>1. Crossing(t, d) \in Nat
      BY <2>3, <1>4, <1>5, <1>7, CrossingNat
    <3>2. EndOfChunk(t, d) = e - (r - d)
      BY <3>1, <2>1, <2>3, NoneAssumption DEF EndOfChunk
    <3>3. Back(e - (r - d), d) = IF e - (r - d) < d THEN 0 ELSE e - (r - d) - d
      BY DEF Back
    <3>4. (IF e < r THEN 0 ELSE e - r) \in Nat
      OBVIOUS
    <3>5. (IF e - (r - d) < d THEN 0 ELSE e - (r - d) - d) = IF e < r THEN 0 ELSE e - r
      OBVIOUS
    <3>6. QED
      BY <3>2, <3>3, <3>4, <3>5, <2>3
  <2>4. QED
    BY <2>2, <2>3
<1>16. StartAt(c, f) = FloorMillis(b)
  <2>1. c.range = None
    BY DEF FitsIn
  <2>2. QED
    BY <2>1, <1>1, <1>2, <1>5, <1>15, StartIs
<1>17. PICK x \in Nat, y \in Nat : x = FloorMillis(b) /\ y = FloorMillis(e)
  BY FloorMillisBounds
<1>18. SUFFICES o <= x /\ x + lo <= y /\ y < x + hi
  BY <1>1, <1>2, <1>10, <1>12, <1>13, <1>16, <1>17
<1>19. CASE ~ (r < d)
  <2>1. /\ p <= x + h /\ x + d <= y + h /\ y < x + d + l + h
        /\ 2 * (e % Tick) < Tick => p <= x
    <3>1. e = p + m + l /\ b = (IF e < r THEN 0 ELSE e - r)
      BY <1>7, <1>8, <1>12, <1>15, <1>19 DEF CrossesAs
    <3>2. 2 * r <= 2 * (m + l) + Tick /\ 2 * (m + l) < 2 * r + Tick /\ IsWhole(r)
      <4>1. /\ 2 * r <= 2 * (m + t.end - t.start) + Tick
            /\ 2 * (m + t.end - t.start) < 2 * r + Tick /\ IsWhole(r)
        BY <1>7 DEF CrossesAs
      <4>2. m + t.end - t.start = m + l
        BY <1>12
      <4>3. QED
        BY <4>1, <4>2
    <3>3. /\ p <= FloorMillis(b) + Tick
          /\ FloorMillis(b) + d <= FloorMillis(e) + Tick
          /\ FloorMillis(e) < FloorMillis(b) + d + l + Tick
          /\ 2 * (e % Tick) < Tick => p <= FloorMillis(b)
      <4>1. e = p + m + l /\ e \in Nat /\ p \in Nat /\ IsWhole(p)
        BY <3>1, <1>8
      <4>2. b = IF e < r THEN 0 ELSE e - r
        BY <3>1
      <4>3. 2 * r <= 2 * (m + l) + Tick /\ 2 * (m + l) < 2 * r + Tick /\ IsWhole(r)
        BY <3>2
      <4>4. QED
        BY <4>1, <4>2, <4>3, <1>6, <1>19, ChunkAtCrossing, Zenon
    <3>4. QED
      BY <3>3, <1>9, <1>17
  <2>2. o <= p
    <3>1. o % d = 0
      BY <1>5, <1>10 DEF FitsIn
    <3>2. o <= d * u + m
      BY <1>7, <1>12 DEF CrossesAs
    <3>3. QED
      BY <3>1, <3>2, <1>8, MultipleBelow
  <2>3. o <= x
    <3>1. CASE o < p
      <4>1. o + h <= p
        BY <3>1, <1>8, <1>9, <1>10, WholeStep
      <4>2. QED
        BY <4>1, <2>1
    <3>2. CASE o = 0
      BY <3>2
    <3>3. CASE o = p /\ o # 0
      <4>1. s < o + d
        <5>1. s = d * u + m
          BY <1>7, <1>12 DEF CrossesAs
        <5>2. QED
          BY <5>1, <3>3, <1>8
      <4>2. Crossing(t, d) # None
        BY <1>4, <1>5, <1>7, <1>19, CrossingNat, NoneAssumption
      <4>3. 2 * (e % Tick) < Tick
        <5>1. 2 * (FrameState(j, k).time.end % Tick) < Tick
          BY <4>1, <4>2, <3>3, <1>1, <1>2, <1>5, <1>10, <1>12 DEF FitsIn
        <5>2. QED
          BY <5>1, <1>1, <1>2, <1>12
      <4>4. QED
        BY <4>3, <3>3, <2>1
    <3>4. QED
      BY <3>1, <3>2, <3>3, <2>2
  <2>4. QED
    BY <2>1, <2>3, <1>14
<1>20. CASE r < d
  <2>1. f.last
    <3>1. Crossing(t, d) = None
      BY <1>7, <1>20 DEF CrossesAs
    <3>2. QED
      BY <3>1, <1>1, <1>2, <1>5 DEF AsksAt, FnAsks, Asks, Converted, FitsIn
  <2>2. k = j.frames
    BY <2>1, <1>1 DEF FrameState
  <2>3. IF o = 0 THEN lo + h <= e ELSE o + d <= e
    <3>1. FrameState(j, j.frames).time.end = e
      BY <2>2, <1>1, <1>2, <1>12
    <3>2. QED
      BY <3>1, <1>5, <1>9, <1>10, <1>13 DEF FitsIn
  <2>4. /\ y < x + d + h
        /\ e < d => x = 0 /\ e < y + h
        /\ ~ (e < d) => x + d <= y
    <3>1. b = IF e < d THEN 0 ELSE e - d
      BY <1>15, <1>20
    <3>2. /\ FloorMillis(e) < FloorMillis(b) + d + Tick
          /\ e < d => FloorMillis(b) = 0 /\ e < FloorMillis(e) + Tick
          /\ ~ (e < d) => FloorMillis(b) + d <= FloorMillis(e)
      BY <3>1, <1>6, ChunkAtLast
    <3>3. QED
      BY <3>2, <1>9, <1>17
  <2>5. CASE e < d
    <3>1. o = 0
      BY <2>3, <2>5
    <3>2. QED
      BY <3>1, <2>3, <2>4, <2>5, <1>14
  <2>6. CASE ~ (e < d)
    <3>1. o <= x
      <4>1. CASE o = 0
        BY <4>1
      <4>2. CASE o # 0
        <5>1. o <= b
          BY <4>2, <2>3, <2>6, <1>15, <1>20
        <5>2. QED
          BY <5>1, <1>10, <1>17, FloorAbove
      <4>3. QED
        BY <4>1, <4>2
    <3>2. QED
      BY <3>1, <2>4, <2>6, <1>14
  <2>7. QED
    BY <2>5, <2>6
<1>21. QED
  BY <1>19, <1>20

(* What sign answers, of a chunk whose frame is in the buffer: a length     *)
(* that is allowed is one the buffer reaches back for.                      *)
LEMMA RefusalIs ==
  ASSUME MaxChunk % Tick = 0, SessionInv, AskedInv, NEW n \in DOMAIN asked,
         NEW x \in Nat, x = asked[n].chunk.start, NEW y \in Nat, y = FloorMillis(ChunkEnd(n)),
         job.offset <= x, x <= y
  PROVE  /\ RefusalOf(n) # "OutOfRange"
         /\ x + MinChunk <= y /\ y < x + MaxChunk => RefusalOf(n) = "none"
<1>1. job \in Jobs /\ job.frames \in Nat /\ taken \in 0..job.frames
  BY NewControllers DEF SessionInv
<1>2. PICK f \in Nat \ {0} : f = asked[n].frame
  BY <1>1 DEF SessionInv, AskedOK
<1>3. IsWhole(x)
  BY DEF AskedInv, WholeStarts
<1>4. FloorMillis(x) = x
  <2>1. x < x + Tick /\ x <= x
    BY TimeAssumption
  <2>2. PICK g \in Nat : g = FloorMillis(x)
    BY FloorMillisBounds
  <2>3. g <= x
    BY <2>1, <2>2, <1>3, FloorBelow
  <2>4. x <= g
    BY <2>1, <2>2, <1>3, FloorAbove
  <2>5. QED
    BY <2>2, <2>3, <2>4
<1>5. PICK o \in Nat : o = job.offset
  BY <1>1, JobTypes
<1>6. PICK w \in Nat : w = Oldest(job, f)
  <2>1. Capacity(job.rate) \in Nat \ {0}
    BY <1>1, JobTypes, CapacityIsPositive
  <2>2. PICK g \in Nat \ {0} : g = IF f > Capacity(job.rate) THEN f - Capacity(job.rate) + 1 ELSE 1
    BY <2>1
  <2>3. Oldest(job, f) = FrameState(job, g).time.start
    BY <2>2 DEF Oldest
  <2>4. QED
    BY <2>2, <2>3, <1>1, FrameTimes
<1>7. PICK lo \in Nat, hi \in Nat : lo = MinChunk /\ hi = MaxChunk
  BY TimeAssumption
<1>8. x < w => hi <= y - x
  <2>1. y = FloorMillis(FrameState(job, f).time.end)
    BY <1>2 DEF ChunkEnd
  <2>2. x < w => MaxChunk <= FloorMillis(FrameState(job, f).time.end) - x
    BY <1>1, <1>3, <1>5, <1>6, OldestReaches
  <2>3. QED
    BY <2>1, <2>2, <1>7
<1>9. RefusalOf(n) = IF y < x THEN "OutOfRange"
                     ELSE IF ~ (lo <= y - x /\ y - x < hi) THEN "InvalidChunkSize"
                     ELSE IF x < o \/ x < w THEN "OutOfRange" ELSE "none"
  BY <1>2, <1>4, <1>5, <1>6, <1>7, Zenon DEF RefusalOf, Refusal, LengthAllowed
<1>10. ~ (y < x) /\ ~ (x < o)
  BY <1>5
<1>11. CASE lo <= y - x /\ y - x < hi
  <2>1. ~ (x < w)
    BY <1>6, <1>7, <1>8, <1>11
  <2>2. RefusalOf(n) = "none"
    BY <2>1, <1>9, <1>10, <1>11
  <2>3. QED
    BY <2>2
<1>12. CASE ~ (lo <= y - x /\ y - x < hi)
  <2>1. RefusalOf(n) = "InvalidChunkSize"
    BY <1>9, <1>10, <1>12
  <2>2. ~ (x + lo <= y /\ y < x + hi)
    BY <1>7, <1>12
  <2>3. QED
    BY <2>1, <2>2, <1>7
<1>13. QED
  BY <1>11, <1>12

(* The n-th chunk starts, but for flooring, where last_sign was, no later   *)
(* than the frame it was asked for at, and did not reach the maximum before.*)
Begins(n) ==
    /\ asked[n].chunk.start = FloorMillis(LastSigned(n))
    /\ LastSigned(n) <= FrameState(job, asked[n].frame).time.start
    /\ \A m : m = asked[n].frame - 1 => BelowMaximum(n, m)

(* So do all chunks of the GUI, and what was taken since the last of them   *)
(* has not reached the maximum.                                             *)
GuiStarts ==
    job.app =>
        /\ lastSign = LastSigned(Len(asked) + 1)
        /\ BelowMaximum(Len(asked) + 1, taken)
        /\ \A n \in DOMAIN asked : Begins(n)

(* A session starts with none.                                              *)
LEMMA GuiStartsNone ==
  ASSUME asked = <<>>, taken = 0, lastSign = 0 PROVE GuiStarts
<1>1. DOMAIN asked = {} /\ Len(asked) + 1 = 1
  OBVIOUS
<1>2. FrameBefore(1) = 0 /\ LastSigned(1) = 0
  BY DEF FrameBefore, LastSigned
<1>3. BelowMaximum(1, taken)
  BY <1>2 DEF BelowMaximum
<1>4. QED
  BY <1>1, <1>2, <1>3 DEF GuiStarts

(* What the controller measures of a chunk depends on the chunks before.    *)
LEMMA MeasuredSame ==
  ASSUME UNCHANGED job, NEW n, n = 1 \/ asked'[n - 1] = asked[n - 1]
  PROVE  /\ FrameBefore(n)' = FrameBefore(n) /\ LastSigned(n)' = LastSigned(n)
         /\ \A m : BelowMaximum(n, m) => BelowMaximum(n, m)'
<1>1. FrameBefore(n)' = FrameBefore(n)
  BY DEF FrameBefore
<1>2. LastSigned(n)' = LastSigned(n)
  BY <1>1 DEF LastSigned
<1>3. \A k : Measured(n, k)' = Measured(n, k)
  BY <1>2 DEF Measured
<1>4. QED
  BY <1>1, <1>2, <1>3 DEF BelowMaximum

(* The GUI takes a frame.                                                   *)
LEMMA GuiStartsTurn ==
  ASSUME SessionInv, GuiMeets, GuiStarts, GuiTurn
  PROVE  GuiStarts'
<1>1. job \in Jobs /\ taken \in Nat
  BY NewControllers DEF SessionInv
<1>2. PICK k \in Nat \ {0} : k = taken + 1
  BY <1>1
<1>3. PICK s \in Nat, e \in Nat : s = FrameState(job, k).time.start /\ e = FrameState(job, k).time.end
  BY <1>1, <1>2, FrameTimes
<1>4. PICK l \in Nat : l = lastSign
  BY DEF SessionInv
<1>5. job.app /\ UNCHANGED job /\ taken' = k
  BY <1>2 DEF GuiTurn, Up
<1>6. PICK h \in Nat : h = Len(asked) /\ DOMAIN asked = 1..h
  BY DEF SessionInv, AskedOK
<1>7. PICK b : b = h + 1
  OBVIOUS
<1>8. PICK t : t = taken /\ l = LastSigned(b) /\ BelowMaximum(b, t)
  BY <1>4, <1>5, <1>6, <1>7 DEF GuiStarts
<1>9. MaxChunk \in Nat
  BY TimeAssumption
<1>10. \/ AskFor(<< GuiChunk(l, "alice") >>, k) /\ lastSign' = s
       \/ UNCHANGED <<asked, lastSign>> /\ e - l < MaxChunk
  <2>1. PICK f : f = FrameState(job, k)
    OBVIOUS
  <2>2. \/ AskFor(<< GuiChunk(l, "alice") >>, k) /\ lastSign' = s
        \/ UNCHANGED <<asked, lastSign>> /\ ~ GuiAsks(l, signCtrl, f)
    BY <2>1, <1>2, <1>3, <1>4 DEF GuiTurn
  <2>3. ~ GuiAsks(l, signCtrl, f) => ~ (f.time.start - l + (f.time.end - f.time.start) >= MaxChunk)
    BY DEF GuiAsks, Duration
  <2>4. ~ GuiAsks(l, signCtrl, f) => e - l < MaxChunk
    BY <2>1, <2>3, <1>3, <1>9
  <2>5. QED
    BY <2>2, <2>4
<1>11. ASSUME NEW n \in DOMAIN asked, asked'[n] = asked[n],
              n = 1 \/ asked'[n - 1] = asked[n - 1]
       PROVE  Begins(n)'
  <2>1. Begins(n)
    BY <1>5 DEF GuiStarts
  <2>2. /\ LastSigned(n)' = LastSigned(n)
        /\ \A m : BelowMaximum(n, m) => BelowMaximum(n, m)'
    BY <1>5, <1>11, MeasuredSame
  <2>3. QED
    BY <2>1, <2>2, <1>5, <1>11 DEF Begins
<1>12. CASE UNCHANGED <<asked, lastSign>> /\ e - l < MaxChunk
  <2>1. \A n \in DOMAIN asked' : Begins(n)'
    BY <1>11, <1>12
  <2>2. FrameBefore(b)' = FrameBefore(b) /\ LastSigned(b)' = l /\ BelowMaximum(b, t)
    BY <1>5, <1>8, <1>12, MeasuredSame
  <2>3. Measured(b, k)' = e - l
    BY <2>2, <1>3, <1>5 DEF Measured
  <2>4. PICK g \in Nat : g = FrameBefore(b)
    <3>1. b \in Nat \ {0} /\ (b # 1 => b - 1 \in DOMAIN asked)
      BY <1>6, <1>7
    <3>2. \A m \in DOMAIN asked : asked[m].frame \in Nat
      BY <1>1 DEF SessionInv, AskedOK
    <3>3. QED
      BY <3>1, <3>2 DEF FrameBefore
  <2>5. ASSUME NEW x \in (g + 1)..k PROVE Measured(b, x)' < MaxChunk
    <3>1. CASE x = k
      BY <3>1, <2>3, <1>12
    <3>2. CASE x # k
      <4>1. x \in (g + 1)..t
        BY <3>2, <1>1, <1>2, <1>8
      <4>2. Measured(b, x) < MaxChunk
        BY <4>1, <2>2, <2>4 DEF BelowMaximum
      <4>3. Measured(b, x)' = Measured(b, x)
        BY <2>2, <1>5, <1>8 DEF Measured
      <4>4. QED
        BY <4>2, <4>3
    <3>3. QED
      BY <3>1, <3>2
  <2>6. BelowMaximum(b, taken)'
    BY <2>2, <2>4, <2>5, <1>5 DEF BelowMaximum
  <2>7. lastSign' = LastSigned(b)' /\ Len(asked') + 1 = b
    BY <2>2, <1>4, <1>6, <1>7, <1>12
  <2>8. QED
    BY <2>1, <2>6, <2>7, <1>5, <1>12 DEF GuiStarts
<1>13. CASE AskFor(<< GuiChunk(l, "alice") >>, k) /\ lastSign' = s
  <2>1. PICK q : q = GuiChunk(l, "alice")
    OBVIOUS
  <2>2. PICK chunks : chunks = << q >>
    OBVIOUS
  <2>3. /\ chunks \in Seq(ToSet(chunks)) /\ DOMAIN chunks = {1} /\ chunks[1] = q
        /\ Len(chunks) = 1
    BY <2>2 DEF ToSet
  <2>4. AskFor(chunks, k)
    BY <1>13, <2>1, <2>2
  <2>5. /\ asked' \in Seq(ToSet(asked'))
        /\ DOMAIN asked' = DOMAIN asked \cup (Len(asked) + 1)..(Len(asked) + Len(chunks))
        /\ DOMAIN asked = 1..Len(asked) /\ Len(asked) \in Nat /\ Len(chunks) \in Nat
        /\ \A n \in DOMAIN asked : asked'[n] = asked[n]
        /\ \A n \in DOMAIN asked' \ DOMAIN asked : \E i \in DOMAIN chunks :
              asked'[n] = [chunk |-> Built(chunks[i]), frame |-> k]
        /\ pending' = pending \cup (Len(asked) + 1)..(Len(asked) + Len(chunks))
    BY <2>3, <2>4, AskForAppends
  <2>6. DOMAIN asked' = 1..b /\ b \in Nat \ {0} /\ b \notin DOMAIN asked
    BY <2>3, <2>5, <1>6, <1>7
  <2>7. Len(asked') = b
    BY <2>5, <2>6
  <2>8. asked'[b].chunk = Built(q) /\ asked'[b].frame = k
    <3>1. asked'[b] = [chunk |-> Built(q), frame |-> k]
      BY <2>3, <2>5, <2>6
    <3>2. QED
      BY <3>1
  <2>9. b = 1 \/ asked'[b - 1] = asked[b - 1]
    BY <2>5, <1>6, <1>7
  <2>10. LastSigned(b)' = l /\ BelowMaximum(b, t)'
    BY <2>9, <1>5, <1>8, MeasuredSame
  <2>11. l <= s
    <3>1. ~ AskedBehind(k)
      <4>1. SUFFICES ASSUME NEW n \in DOMAIN asked, k <= asked[n].frame PROVE FALSE
        BY DEF AskedBehind
      <4>2. asked[n].frame \in 1..taken
        BY DEF SessionInv, AskedOK
      <4>3. QED
        BY <4>1, <4>2, <1>1, <1>2
    <3>2. QED
      BY <3>1, <1>3, <1>4, <1>5 DEF GuiMeets
  <2>12. ASSUME NEW n \in DOMAIN asked' PROVE Begins(n)'
    <3>1. CASE n = b
      <4>1. asked'[n].chunk.start = FloorMillis(l) /\ asked'[n].frame - 1 = t
        BY <3>1, <2>1, <2>8, <1>1, <1>2, <1>8, GuiChunkIs
      <4>2. LastSigned(n)' = l /\ l <= FrameState(job', asked'[n].frame).time.start
        BY <3>1, <2>8, <2>10, <2>11, <1>3, <1>5
      <4>3. BelowMaximum(n, t)'
        BY <3>1, <2>10
      <4>4. QED
        BY <4>1, <4>2, <4>3 DEF Begins
    <3>2. CASE n # b
      <4>1. n \in DOMAIN asked /\ (n # 1 => n - 1 \in DOMAIN asked)
        BY <3>2, <2>6, <1>6, <1>7
      <4>2. QED
        BY <4>1, <2>5, <1>11
    <3>3. QED
      BY <3>1, <3>2
  <2>13. PICK c \in Nat : c = b + 1 /\ c # 1 /\ c - 1 = b
    BY <2>6
  <2>14. FrameBefore(c)' = k /\ LastSigned(c)' = s
    <3>1. FrameBefore(c)' = k
      BY <2>8, <2>13 DEF FrameBefore
    <3>2. QED
      BY <3>1, <2>13, <1>3, <1>5 DEF LastSigned
  <2>15. BelowMaximum(c, taken)'
    <3>1. (k + 1)..k = {}
      BY <1>2
    <3>2. QED
      BY <3>1, <2>14, <1>5 DEF BelowMaximum
  <2>16. lastSign' = LastSigned(c)' /\ Len(asked') + 1 = c
    BY <2>7, <2>13, <2>14, <1>13
  <2>17. QED
    BY <2>12, <2>15, <2>16 DEF GuiStarts
<1>14. QED
  BY <1>10, <1>12, <1>13

(* Nothing changes of it when the chunks, the frames and last_sign stay.    *)
LEMMA GuiStartsStays ==
  ASSUME GuiStarts, UNCHANGED <<job, taken, asked, lastSign>>
  PROVE  GuiStarts'
<1>1. \A n : /\ LastSigned(n)' = LastSigned(n)
              /\ \A m : BelowMaximum(n, m) => BelowMaximum(n, m)'
  BY MeasuredSame
<1>2. PICK b, t : b = Len(asked) + 1 /\ t = taken
  OBVIOUS
<1>3. CASE job.app
  <2>1. lastSign = LastSigned(b) /\ BelowMaximum(b, t) /\ \A n \in DOMAIN asked : Begins(n)
    BY <1>2, <1>3 DEF GuiStarts
  <2>2. \A n \in DOMAIN asked' : Begins(n)'
    BY <2>1, <1>1 DEF Begins
  <2>3. lastSign' = LastSigned(b)' /\ BelowMaximum(b, t)'
    BY <2>1, <1>1
  <2>4. BelowMaximum(b, taken)'
    BY <2>3, <1>2 DEF BelowMaximum
  <2>5. QED
    BY <2>2, <2>3, <2>4, <1>2 DEF GuiStarts
<1>4. CASE ~ job.app
  BY <1>4 DEF GuiStarts
<1>5. QED
  BY <1>3, <1>4

(* In every state ...                                                       *)
LEMMA GuiStartsStep ==
  ASSUME SessionInv, GuiMeets, GuiStarts, [Next]_appVars
  PROVE  GuiStarts'
<1>1. CASE UNCHANGED <<job, taken, asked, lastSign>>
  BY <1>1, GuiStartsStays
<1>2. CASE UNCHANGED <<sessionVars, lastSign>>
  BY <1>1, <1>2 DEF sessionVars
<1>3. CASE Menu
  <2>1. CASE (\E j \in Jobs : ChooseVideo(j)) \/ ChooseOutput
    BY <1>2, <2>1 DEF ChooseVideo, ChooseOutput
  <2>2. CASE GoToVideo
    <3>1. \/ UNCHANGED <<sessionVars, lastSign>>
          \/ asked' = <<>> /\ taken' = 0 /\ lastSign' = 0
      BY <2>2 DEF GoToVideo, SpawnPlayer, WatchVideo, Start
    <3>2. CASE asked' = <<>> /\ taken' = 0 /\ lastSign' = 0
      <4>1. DOMAIN asked' = {} /\ Len(asked') + 1 = 1
        BY <3>2
      <4>2. FrameBefore(1)' = 0 /\ LastSigned(1)' = 0
        BY DEF FrameBefore, LastSigned
      <4>3. BelowMaximum(1, taken)'
        BY <3>2, <4>2 DEF BelowMaximum
      <4>4. QED
        BY <3>2, <4>1, <4>2, <4>3 DEF GuiStarts
    <3>3. QED
      BY <3>1, <3>2, <1>2
  <2>3. QED
    BY <1>3, <2>1, <2>2 DEF Menu
<1>4. CASE VideoView
  <2>1. CASE PressEnter \/ PressSpace \/ PaintOverlay
    BY <1>2, <2>1 DEF PressEnter, PressSpace, PaintOverlay, GoDown
  <2>2. CASE RunIdle
    <3>1. UNCHANGED <<job, taken, asked, lastSign>>
      BY <2>2 DEF RunIdle, ShowFrame, ShowSign, Finish, GoDown, sessionVars
    <3>2. QED
      BY <3>1, <1>1
  <2>3. QED
    BY <1>4, <2>1, <2>2 DEF VideoView
<1>5. CASE NextSession /\ UNCHANGED guiVars
  <2>1. CASE AskControllers
    BY <2>1 DEF AskControllers, GuiStarts
  <2>2. CASE ThreadEnds
    BY <1>1, <1>5, <2>2 DEF ThreadEnds, guiVars
  <2>3. CASE Answer \/ Collect \/ WriteFile
    BY <1>1, <1>5, <2>3 DEF Answer, Receive, ReceiveError, Collect, WriteFile, guiVars
  <2>4. QED
    BY <1>5, <2>1, <2>2, <2>3 DEF NextSession
<1>6. CASE WatchEnds
  BY <1>2, <1>6 DEF WatchEnds
<1>7. CASE Signing
  BY <1>3, <1>4, <1>5, <1>6, <1>7, GuiStartsTurn DEF Signing, NextGui, GuiSession
<1>8. QED
  BY <1>2, <1>7 DEF Next, Verifying, appVars, guiVars

(* ... and from the start.                                                  *)
LEMMA GuiStartsInit == Init => GuiStarts
BY GuiStartsNone DEF Init, InitSession, InitGui

(* A chunk of the GUI is never out of range, and it is refused only if the  *)
(* GUI was told to sign too early, or the maximum was reached.              *)
LEMMA GuiIsExplained ==
  ASSUME MaxChunk % Tick = 0, SessionInv, AskedInv, GuiStarts, job.app, NEW n \in DOMAIN asked
  PROVE  /\ RefusalOf(n) # "OutOfRange"
         /\ RefusalOf(n) = "none" \/ AskedTooEarly(n) \/ AtMaximum(n)
<1>1. job \in Jobs /\ taken \in Nat
  BY NewControllers DEF SessionInv
<1>2. PICK f \in Nat \ {0} : f = asked[n].frame
  BY <1>1 DEF SessionInv, AskedOK
<1>3. PICK s \in Nat, e \in Nat : s = FrameState(job, f).time.start
                                 /\ e = FrameState(job, f).time.end /\ s <= e
  BY <1>1, <1>2, FrameTimes
<1>4. PICK l \in Nat : l = LastSigned(n) /\ l <= s
  <2>1. LastSigned(n) <= s
    BY <1>2, <1>3 DEF GuiStarts, Begins
  <2>2. LastSigned(n) \in Nat
    <3>1. CASE n = 1
      BY <3>1 DEF LastSigned
    <3>2. CASE n # 1
      <4>1. n - 1 \in DOMAIN asked
        BY <3>2 DEF SessionInv, AskedOK
      <4>2. FrameBefore(n) \in Nat \ {0}
        BY <4>1, <3>2, <1>1 DEF FrameBefore, SessionInv, AskedOK
      <4>3. QED
        BY <4>2, <3>2, <1>1, FrameTimes DEF LastSigned
    <3>3. QED
      BY <3>1, <3>2
  <2>3. QED
    BY <2>1, <2>2
<1>5. PICK x \in Nat : x = asked[n].chunk.start /\ x = FloorMillis(l)
  <2>1. asked[n].chunk.start = FloorMillis(l)
    BY <1>4 DEF GuiStarts, Begins
  <2>2. QED
    BY <2>1, FloorMillisBounds
<1>6. PICK t \in Nat \ {0} : t = Tick
  BY TimeAssumption
<1>7. x <= l /\ l < x + t /\ IsWhole(x)
  BY <1>5, <1>6, FloorMillisBounds, FlooredWhole
<1>8. PICK y \in Nat : y = FloorMillis(e) /\ y <= e /\ e < y + t
  BY <1>6, FloorMillisBounds
<1>9. x <= y
  <2>1. x <= e
    BY <1>3, <1>4, <1>7
  <2>2. QED
    BY <2>1, <1>7, <1>8, FloorAbove
<1>10. job.offset <= x
  <2>1. job.offset = 0
    BY <1>1, SessionAssumption DEF IsJob
  <2>2. QED
    BY <2>1
<1>11. y = FloorMillis(ChunkEnd(n))
  BY <1>2, <1>3, <1>8 DEF ChunkEnd
<1>12. /\ RefusalOf(n) # "OutOfRange"
       /\ x + MinChunk <= y /\ y < x + MaxChunk => RefusalOf(n) = "none"
  BY <1>5, <1>9, <1>10, <1>11, RefusalIs
<1>13. PICK lo \in Nat, hi \in Nat : lo = MinChunk /\ hi = MaxChunk
  BY TimeAssumption
<1>14. Measured(n, asked[n].frame) = e - l
  BY <1>2, <1>3, <1>4 DEF Measured
<1>15. AskedTooEarly(n) \/ lo + t <= e - l
  BY <1>6, <1>13, <1>14 DEF AskedTooEarly
<1>16. AtMaximum(n) \/ e - l + t <= hi
  <2>1. BelowMaximum(n, asked[n].frame - 1)
    BY DEF GuiStarts, Begins
  <2>2. QED
    BY <2>1, <1>6, <1>13, <1>14 DEF AtMaximum
<1>17. CASE lo + t <= e - l /\ e - l + t <= hi
  <2>1. x + lo <= y /\ y < x + hi
    BY <1>7, <1>8, <1>17
  <2>2. QED
    BY <2>1, <1>12, <1>13
<1>18. QED
  BY <1>12, <1>15, <1>16, <1>17

(* A chunk of a controller that fits is signed.                             *)
LEMMA FittingIsSigned ==
  ASSUME MaxChunk % Tick = 0, SessionInv, AskedInv, ~ job.app, NEW n \in DOMAIN asked,
         \A i \in DOMAIN ctrls : ctrls[i].who = asked[n].chunk.who => Fits(ctrls[i])
  PROVE  RefusalOf(n) = "none"
<1>1. job \in Jobs /\ taken \in 0..job.frames /\ job.frames \in Nat
  BY NewControllers DEF SessionInv
<1>2. PICK i \in DOMAIN job.controllers : AskedBy(job.controllers[i], asked[n])
  BY DEF AskedInv, ExactlyAsked
<1>3. PICK c : c = job.controllers[i]
  OBVIOUS
<1>4. IsController(c)
  BY <1>1, <1>3, NewControllers
<1>5. FitsIn(job, c)
  <2>1. PICK d : d = ctrls[i]
    OBVIOUS
  <2>2. i \in DOMAIN ctrls /\ d.who = c.who /\ d.interval = c.interval /\ d.range = c.range
    BY <2>1, <1>3 DEF AskedInv, SettingsInv, SameSettings
  <2>3. asked[n].chunk.who = c.who
    BY <1>2, <1>3 DEF AskedBy
  <2>4. Fits(d)
    BY <2>1, <2>2, <2>3
  <2>5. FitsIn(job, d)
    BY <2>4, FitsJob
  <2>6. QED
    BY <2>2, <2>5, Zenon DEF FitsIn
<1>6. PICK k \in 1..job.frames : k = asked[n].frame
  BY <1>1 DEF SessionInv, AskedOK
<1>7. /\ AsksAt(c, FrameState(job, k)) /\ ~ PanicsAt(c, FrameState(job, k))
      /\ asked[n].chunk.start = StartAt(c, FrameState(job, k))
  BY <1>2, <1>3, <1>6 DEF AskedBy
<1>8. PICK x \in Nat, y \in Nat :
            /\ x = StartAt(c, FrameState(job, k))
            /\ y = FloorMillis(FrameState(job, k).time.end)
            /\ job.offset <= x /\ x + MinChunk <= y /\ y < x + MaxChunk
  BY <1>1, <1>4, <1>5, <1>7, FittingChunk
<1>9. x <= y
  BY <1>8, TimeAssumption
<1>10. x = asked[n].chunk.start /\ y = FloorMillis(ChunkEnd(n))
  BY <1>6, <1>7, <1>8 DEF ChunkEnd
<1>11. QED
  BY <1>8, <1>9, <1>10, RefusalIs

(* sign::FrameManager::sign refuses no chunk of a controller that fits, and *)
(* of the GUI's only those it was told to ask for too early and those it    *)
(* asks for on its own, at the first frame at which the chunk reaches the   *)
(* maximum; for all videos, offsets and intervals: the buffer always        *)
(* reaches back to where a chunk of an allowed length starts.               *)
THEOREM RefusalsAreExplained ==
  ASSUME MaxChunk % Tick = 0 PROVE Spec => []RefusalsExplained
<1>1. ASSUME SessionInv, AskedInv, GuiStarts
      PROVE  RefusalsExplained
  <2> SUFFICES ASSUME NEW n \in DOMAIN asked
               PROVE  \/ RefusalOf(n) = "none"
                      \/ job.app /\ RefusalOf(n) # "OutOfRange"
                            /\ (AskedTooEarly(n) \/ AtMaximum(n))
                      \/ \E c \in DOMAIN ctrls : ctrls[c].who = asked[n].chunk.who
                                                 /\ ~ Fits(ctrls[c])
    BY DEF RefusalsExplained
  <2>1. CASE job.app
    BY <1>1, <2>1, GuiIsExplained
  <2>2. CASE ~ job.app
    BY <1>1, <2>2, FittingIsSigned
  <2>3. QED
    BY <2>1, <2>2
<1>2. QED
  BY <1>1, SessionInvariant, AskedInit, AskedStep, GuiMeetsInit, GuiMeetsStep,
     GuiStartsInit, GuiStartsStep, PTL DEF Spec
=============================================================================
