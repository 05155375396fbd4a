------------------------ MODULE DelayedStreamProofs ------------------------
(***************************************************************************)
(* DelayedStream for every alphabet, buffer length and source: the windows *)
(* it hands out are exact, it loses nothing, and each of its steps is a    *)
(* step of SlidingWindow.                                                  *)
(***************************************************************************)
EXTENDS DelayedStream, SequenceTheorems, TLAPS

(* The initial state satisfies the inductive invariant.                     *)
LEMMA InitIInv == Init => IInv
<1> SUFFICES ASSUME Init PROVE IInv
  OBVIOUS
<1>1. source = <<>> /\ buf = <<>> /\ full = <<>> /\ ended = FALSE /\ done = FALSE
  BY DEF Init
<1>2. \A S : <<>> \in Seq(S) /\ Len(<<>>) = 0
  BY EmptySeq
<1>3. TypeOK
  <2>1. source \in Seq(Item) /\ buf \in Seq(Item) /\ full \in Seq(Pair)
    BY <1>1, <1>2, Zenon
  <2>2. Len(source) <= MaxItems
    BY <1>1, <1>2, MaxItemsAssumption
  <2>3. QED
    BY <1>1, <2>1, <2>2 DEF TypeOK
<1>4. Whole /\ WindowExact
  BY <1>1, <1>2 DEF Whole, WindowExact
<1>5. HeldBack
  BY <1>1, <1>2, LenAssumption DEF HeldBack
<1>6. QED
  BY <1>3, <1>4, <1>5 DEF IInv

(* A poll of a source that yields an item keeps the inductive invariant:    *)
(* the earlier windows are complete already and do not change.              *)
LEMMA PollItemIInv ==
  ASSUME IInv, NEW it \in Item, PollItem(it)
  PROVE  IInv'
<1> USE LenAssumption, MaxItemsAssumption
<1>0. /\ Len(source) \in Nat /\ Len(full) \in Nat /\ Len(buf) \in Nat
      /\ Len(source) = Len(full) + Len(buf)
  BY DEF IInv, TypeOK, Whole
<1>1. TypeOK'
  <2>1. Enqueued(it) \in Seq(Item)
    BY DEF IInv, TypeOK, Enqueued, IsFilled
  <2>2. IsFilled => Head(buf) \in Item
    BY DEF IInv, TypeOK, IsFilled
  <2>3. full' \in Seq(Pair)
    <3>1. full \in Seq(Pair)
      BY DEF IInv, TypeOK
    <3>2. IsFilled => [latest |-> Head(buf), future |-> Enqueued(it)] \in Pair
      BY <2>1, <2>2 DEF Pair
    <3>3. QED
      BY <3>1, <3>2, AppendProperties DEF PollItem
  <2>4. source' \in Seq(Item) /\ Len(source') <= MaxItems
    BY DEF IInv, TypeOK, PollItem
  <2>5. QED
    BY <2>1, <2>3, <2>4 DEF IInv, TypeOK, PollItem
<1>2. Len(source') = Len(source) + 1 /\ \A k \in 1..Len(source) : source'[k] = source[k]
  BY DEF IInv, TypeOK, PollItem
<1>3. source'[Len(source) + 1] = it
  BY DEF IInv, TypeOK, PollItem
<1>4. CASE IsFilled
  <2>1. /\ Len(full') = Len(full) + 1
        /\ buf' = Append(Tail(buf), it)
        /\ Len(buf') = Len(buf)
        /\ full'[Len(full) + 1] = [latest |-> buf[1], future |-> buf']
        /\ \A i \in 1..Len(full) : full'[i] = full[i]
    BY <1>4 DEF IInv, TypeOK, PollItem, Enqueued, IsFilled, Pair
  <2>2. \A j \in 1..Len(buf) :
           buf'[j] = IF j = Len(buf) THEN it ELSE buf[j + 1]
    BY <1>4, <2>1 DEF IInv, TypeOK, IsFilled
  <2>3. Whole'
    <3>0. Len(full') = Len(full) + 1 /\ Len(buf') = Len(buf) /\ Len(source') = Len(source) + 1
      BY <1>2, <2>1, Zenon
    <3>1. Len(source') = Len(full') + Len(buf')
      BY <1>0, <3>0
    <3>2. ASSUME NEW j \in 1..Len(buf)
          PROVE  buf'[j] = source'[Len(full) + 1 + j]
      <4>1. CASE j = Len(buf)
        BY <4>1, <1>3, <2>2 DEF IInv, TypeOK, Whole
      <4>2. CASE j # Len(buf)
        <5>1. j + 1 \in 1..Len(buf)
          BY <4>2 DEF IInv, TypeOK
        <5>2. buf[j + 1] = source[Len(full) + (j + 1)]
          BY <5>1 DEF IInv, Whole
        <5>3. Len(full) + (j + 1) \in 1..Len(source) /\ Len(full) + (j + 1) = Len(full) + 1 + j
          BY <5>1 DEF IInv, TypeOK, Whole
        <5>4. QED
          BY <5>2, <5>3, <4>2, <2>2, <1>2
      <4>3. QED
        BY <4>1, <4>2
    <3>3. QED
      BY <3>1, <3>2, <2>1 DEF Whole
  <2>4. HeldBack'
    BY <1>4, <2>1, <1>1 DEF IInv, TypeOK, HeldBack, IsFilled, PollItem
  <2>5. WindowExact'
    <3> SUFFICES ASSUME NEW i \in 1..Len(full')
                 PROVE  IsWindow(i)'
      BY DEF WindowExact
    <3>1. CASE i \in 1..Len(full)
      <4>1. IsWindow(i) /\ full'[i] = full[i]
        BY <3>1, <2>1 DEF IInv, WindowExact
      <4>2. i + BufferLen <= Len(source)
        BY <3>1, <1>4 DEF IInv, TypeOK, Whole, IsFilled
      <4>3. FutureLen(i) = BufferLen /\ FutureLen(i)' = BufferLen
        BY <4>2, <1>2, <3>1 DEF FutureLen, IInv, TypeOK
      <4>4. i \in 1..Len(source) /\ \A j \in 1..BufferLen : i + j \in 1..Len(source)
        BY <4>2, <3>1 DEF IInv, TypeOK
      <4>5. source'[i] = source[i] /\ \A j \in 1..BufferLen : source'[i + j] = source[i + j]
        BY <4>4, <1>2
      <4>6. QED
        BY <4>1, <4>3, <4>5 DEF IsWindow
    <3>2. CASE i = Len(full) + 1
      <4>1. i + BufferLen = Len(source')
        BY <3>2, <1>2, <1>4 DEF IInv, TypeOK, Whole, IsFilled
      <4>2. FutureLen(i)' = BufferLen
        BY <4>1, <3>2, <2>1 DEF FutureLen, IInv, TypeOK
      <4>3. full'[i].latest = source'[i]
        <5>1. 1 \in 1..Len(buf) /\ i \in 1..Len(source)
          BY <3>2, <1>4 DEF IInv, TypeOK, Whole, IsFilled
        <5>2. buf[1] = source[i]
          BY <5>1, <3>2 DEF IInv, Whole
        <5>3. QED
          BY <5>1, <5>2, <3>2, <2>1, <1>2
      <4>4. Len(full'[i].future) = BufferLen
        BY <3>2, <2>1, <1>4 DEF IsFilled
      <4>5. \A j \in 1..BufferLen : full'[i].future[j] = source'[i + j]
        BY <3>2, <2>1, <2>3, <1>4 DEF Whole, IsFilled, IInv, TypeOK
      <4>6. QED
        BY <4>2, <4>3, <4>4, <4>5 DEF IsWindow
    <3>3. QED
      BY <3>1, <3>2, <2>1 DEF IInv, TypeOK
  <2>6. QED
    BY <1>1, <2>3, <2>4, <2>5 DEF IInv
<1>5. CASE ~ IsFilled
  <2>1. full' = full /\ full = <<>> /\ Len(full) = 0
    BY <1>5 DEF IInv, TypeOK, HeldBack, PollItem
  <2>2. buf' = Append(buf, it) /\ Len(buf') = Len(buf) + 1
    BY <1>5 DEF IInv, TypeOK, PollItem, Enqueued
  <2>3. Whole'
    BY <1>2, <1>3, <2>1, <2>2 DEF IInv, TypeOK, Whole
  <2>4. HeldBack'
    BY <1>5, <2>1, <2>2 DEF IInv, TypeOK, HeldBack, IsFilled, PollItem
  <2>5. WindowExact'
    BY <2>1 DEF WindowExact
  <2>6. QED
    BY <1>1, <2>3, <2>4, <2>5 DEF IInv
<1>6. QED
  BY <1>4, <1>5

(* A poll at the end of the source keeps it: the buffer shrinks from the    *)
(* front and the windows shrink with it.                                    *)
LEMMA PollEndIInv ==
  ASSUME IInv, PollEnd
  PROVE  IInv'
<1> USE LenAssumption, MaxItemsAssumption
<1>0. /\ Len(source) \in Nat /\ Len(full) \in Nat /\ Len(buf) \in Nat
      /\ Len(source) = Len(full) + Len(buf)
  BY DEF IInv, TypeOK, Whole
<1>1. CASE buf = <<>>
  <2>1. source' = source /\ buf' = buf /\ full' = full /\ ended' = TRUE
    BY <1>1 DEF PollEnd
  <2>2. done' \in BOOLEAN
    BY <1>1 DEF PollEnd
  <2>3. QED
    BY <1>1, <2>1, <2>2
       DEF IInv, TypeOK, Whole, HeldBack, WindowExact, IsWindow, FutureLen, IsFilled
<1>2. CASE buf # <<>>
  <2>1. /\ source' = source /\ ended' = TRUE /\ done' = done
        /\ full' = Append(full, [latest |-> Head(buf), future |-> Tail(buf)])
        /\ buf' = Tail(buf)
    BY <1>2 DEF PollEnd
  <2>2. Len(buf) \in Nat \ {0}
    BY <1>2 DEF IInv, TypeOK
  <2>3. /\ Len(full') = Len(full) + 1
        /\ Len(buf') = Len(buf) - 1
        /\ full'[Len(full) + 1] = [latest |-> buf[1], future |-> buf']
        /\ \A i \in 1..Len(full) : full'[i] = full[i]
        /\ \A j \in 1..Len(buf') : buf'[j] = buf[j + 1]
    BY <2>1, <2>2 DEF IInv, TypeOK, Pair
  <2>4. TypeOK'
    BY <2>1, <2>2 DEF IInv, TypeOK, Pair
  <2>5. Whole'
    <3>0. Len(full') = Len(full) + 1 /\ Len(buf') = Len(buf) - 1 /\ Len(source') = Len(source)
      BY <2>1, <2>3, Zenon
    <3>1. Len(source') = Len(full') + Len(buf')
      BY <1>0, <3>0
    <3>2. ASSUME NEW j \in 1..Len(buf')
          PROVE  buf'[j] = source'[Len(full') + j]
      <4>1. j + 1 \in 1..Len(buf) /\ Len(full) + (j + 1) = Len(full') + j
        BY <2>2, <2>3 DEF IInv, TypeOK
      <4>2. buf[j + 1] = source[Len(full) + (j + 1)]
        BY <4>1 DEF IInv, Whole
      <4>3. QED
        BY <4>1, <4>2, <2>1, <2>3
    <3>3. QED
      BY <3>1, <3>2 DEF Whole
  <2>6. HeldBack'
    BY <1>2, <2>1, <2>2, <2>3 DEF IInv, TypeOK, HeldBack
  <2>7. WindowExact'
    <3> SUFFICES ASSUME NEW i \in 1..Len(full')
                 PROVE  IsWindow(i)'
      BY DEF WindowExact
    <3>1. FutureLen(i)' = FutureLen(i)
      BY <2>1 DEF FutureLen
    <3>2. CASE i \in 1..Len(full)
      BY <3>1, <3>2, <2>1, <2>3 DEF IInv, WindowExact, IsWindow
    <3>3. CASE i = Len(full) + 1
      <4>1. Len(source) - i = Len(buf') /\ Len(buf') < BufferLen
        BY <3>3, <2>2, <2>3 DEF IInv, TypeOK, Whole, HeldBack
      <4>2. FutureLen(i) = Len(buf')
        BY <4>1, <3>3 DEF FutureLen, IInv, TypeOK
      <4>3. full'[i].latest = source[i]
        BY <3>3, <2>2, <2>3 DEF IInv, TypeOK, Whole
      <4>4. \A j \in 1..Len(buf') : full'[i].future[j] = source[i + j]
        <5>1. full'[i].future = buf'
          BY <3>3, <2>3
        <5>2. \A j \in 1..Len(buf') : buf'[j] = source[Len(full') + j]
          BY <2>1, <2>5 DEF Whole
        <5>3. Len(full') = i
          BY <3>3, <2>3
        <5>4. QED
          BY <5>1, <5>2, <5>3
      <4>5. QED
        BY <3>1, <3>3, <4>2, <4>3, <4>4, <2>1, <2>3 DEF IsWindow
    <3>4. i \in 1..Len(full) \/ i = Len(full) + 1
      BY <2>3 DEF IInv, TypeOK
    <3>5. QED
      BY <3>2, <3>3, <3>4
  <2>8. QED
    BY <2>4, <2>5, <2>6, <2>7 DEF IInv
<1>3. QED
  BY <1>1, <1>2

(* A step that changes nothing.                                             *)
LEMMA StutterIInv ==
  ASSUME IInv, UNCHANGED vars
  PROVE  IInv'
  BY DEF vars, IInv, TypeOK, Whole, HeldBack, WindowExact, IsWindow, FutureLen, IsFilled

(* The inductive invariant: the source is what came out followed by what is *)
(* held back, and every pair that came out is an exact window.              *)
THEOREM Inductive == Spec => []IInv
<1>1. Init => IInv
  BY InitIInv
<1>2. IInv /\ [Next]_vars => IInv'
  BY PollItemIInv, PollEndIInv, StutterIInv DEF Next
<1>3. QED
  BY <1>1, <1>2, PTL DEF Spec

(* Every pair the stream returns is an item with exactly the items that     *)
(* follow it, as many as the delay holds.                                   *)
THEOREM WindowsAreExact == Spec => []WindowExact
<1>1. IInv => WindowExact
  BY DEF IInv
<1>2. QED
  BY <1>1, Inductive, PTL

(* When the stream answers None, every item of the source has come out.     *)
THEOREM NothingIsLost == Spec => []NothingLost
<1>1. IInv => NothingLost
  BY DEF IInv, TypeOK, Whole, HeldBack, NothingLost
<1>2. QED
  BY <1>1, Inductive, PTL
-----------------------------------------------------------------------------
(* A sequence that agrees with the end of another one is that suffix.       *)
LEMMA Suffix ==
  ASSUME NEW s \in Seq(Item), NEW b \in Seq(Item), NEW n \in Nat,
         Len(s) = n + Len(b), \A j \in 1..Len(b) : b[j] = s[n + j]
  PROVE  b = SubSeq(s, n + 1, Len(s))
<1> DEFINE t == SubSeq(s, n + 1, Len(s))
<1>0. Len(s) \in Nat /\ Len(b) \in Nat
  OBVIOUS
<1>1. /\ t \in Seq(Item)
      /\ Len(t) = IF n + 1 <= Len(s) THEN Len(s) - (n + 1) + 1 ELSE 0
      /\ \A i \in 1 .. Len(s) - (n + 1) + 1 : t[i] = s[n + 1 + i - 1]
  BY <1>0, SubSeqProperties
<1>2. Len(t) = Len(b)
  BY <1>0, <1>1
<1>3. \A j \in 1..Len(b) : b[j] = t[j]
  BY <1>0, <1>1
<1>4. QED
  BY <1>1, <1>2, <1>3, SeqEqual

(* Every step of the buffered stream is a step of the bufferless one, or a  *)
(* stutter: an item comes out exactly when it is due, with its window.      *)
LEMMA StepSimulation == IInv /\ IInv' /\ [Next]_vars => [Window!Next]_(Window!vars)
<1> SUFFICES ASSUME IInv, IInv', [Next]_vars
             PROVE  [Window!Next]_(Window!vars)
  OBVIOUS
<1> USE LenAssumption
<1>0. /\ Len(source) \in Nat /\ Len(full) \in Nat /\ Len(buf) \in Nat
      /\ Len(source) = Len(full) + Len(buf)
      /\ Len(buf) <= BufferLen
  BY DEF IInv, TypeOK, Whole, HeldBack
<1>1. buf' = SubSeq(source', Len(full') + 1, Len(source'))
  <2>1. /\ source' \in Seq(Item) /\ buf' \in Seq(Item) /\ Len(full') \in Nat
        /\ Len(source') = Len(full') + Len(buf')
        /\ \A j \in 1..Len(buf') : buf'[j] = source'[Len(full') + j]
    BY DEF IInv, TypeOK, Whole
  <2>2. QED
    BY <2>1, Suffix
<1>2. ASSUME NEW it \in Item, PollItem(it)
      PROVE  Window!Arrive
  <2>1. /\ ~ ended /\ Len(source) < MaxItems /\ source' = Append(source, it)
        /\ ended' = ended
    BY <1>2 DEF PollItem
  <2>2. Len(source') = Len(source) + 1
    BY <2>1 DEF IInv, TypeOK
  <2>3. CASE IsFilled
    <3>1. /\ buf' = Enqueued(it)
          /\ full' = Append(full, [latest |-> Head(buf), future |-> buf'])
      BY <1>2, <2>3 DEF PollItem
    <3>2. Len(full') = Len(full) + 1
      BY <3>1 DEF IInv, TypeOK
    <3>3. (Len(full) + 1) + BufferLen = Len(source')
      BY <1>0, <2>2, <2>3 DEF IsFilled
    <3>4. Head(buf) = source'[Len(full) + 1]
      <4>1. Head(buf) = source[Len(full) + 1]
        BY <1>0, <2>3 DEF IInv, TypeOK, Whole, IsFilled
      <4>2. Len(full) + 1 \in 1..Len(source)
        BY <1>0, <2>3 DEF IsFilled
      <4>3. QED
        BY <4>1, <4>2, <2>1 DEF IInv, TypeOK
    <3>5. Window!WindowAt(source', Len(full) + 1) = [latest |-> Head(buf), future |-> buf']
      BY <1>0, <1>1, <2>2, <3>2, <3>3, <3>4 DEF Window!WindowAt
    <3>6. Window!Due(source', FALSE)
      BY <1>0, <3>3 DEF Window!Due
    <3>7. QED
      BY <2>1, <3>1, <3>5, <3>6 DEF Window!Arrive, Window!Release
  <2>4. CASE ~ IsFilled
    <3>1. full' = full
      BY <1>2, <2>4 DEF PollItem
    <3>2. ~ ((Len(full) + 1) + BufferLen <= Len(source'))
      BY <1>0, <2>2, <2>4 DEF IsFilled
    <3>3. ~ Window!Due(source', FALSE)
      BY <3>2 DEF Window!Due
    <3>4. QED
      BY <2>1, <3>1, <3>3 DEF Window!Arrive
  <2>5. QED
    BY <2>3, <2>4
<1>3. ASSUME PollEnd
      PROVE  Window!Drain
  <2>1. ended' = TRUE /\ source' = source
    BY <1>3 DEF PollEnd
  <2>2. CASE buf # <<>>
    <3>1. buf' = Tail(buf) /\ full' = Append(full, [latest |-> Head(buf), future |-> buf'])
      BY <1>3, <2>2 DEF PollEnd
    <3>2. Len(full') = Len(full) + 1
      BY <3>1 DEF IInv, TypeOK
    <3>3. Len(buf) > 0
      BY <2>2 DEF IInv, TypeOK
    <3>4. Head(buf) = source[Len(full) + 1]
      BY <1>0, <3>3 DEF IInv, TypeOK, Whole
    <3>5. Window!WindowAt(source, Len(full) + 1) = [latest |-> Head(buf), future |-> buf']
      <4>1. ~ ((Len(full) + 1) + BufferLen < Len(source))
        BY <1>0
      <4>2. buf' = SubSeq(source, (Len(full) + 1) + 1, Len(source))
        BY <1>1, <2>1, <3>2
      <4>3. QED
        BY <3>4, <4>1, <4>2 DEF Window!WindowAt
    <3>6. Window!Due(source, TRUE)
      BY <1>0, <3>3 DEF Window!Due
    <3>7. QED
      BY <2>1, <3>1, <3>5, <3>6 DEF Window!Drain, Window!Release
  <2>3. CASE buf = <<>>
    <3>1. full' = full
      BY <1>3, <2>3 DEF PollEnd
    <3>2. Len(buf) = 0
      BY <2>3
    <3>3. ~ Window!Due(source, TRUE)
      BY <1>0, <3>2 DEF Window!Due
    <3>4. QED
      BY <2>1, <3>1, <3>3 DEF Window!Drain
  <2>4. QED
    BY <2>2, <2>3
<1>4. CASE UNCHANGED vars
  BY <1>4 DEF vars, Window!vars
<1>5. QED
  BY <1>2, <1>3, <1>4 DEF Next, Window!Next

(* The safety half of ImplementsWindow: what the stream returns, and when,  *)
(* is what SlidingWindow allows.                                            *)
THEOREM RefinesWindow == Spec => Window!SafeSpec
<1>1. Init => Window!Init
  BY DEF Init, Window!Init
<1>2. QED
  BY <1>1, StepSimulation, Inductive, PTL DEF Spec, Window!SafeSpec
=============================================================================
