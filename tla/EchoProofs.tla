----------------------------- MODULE EchoProofs -----------------------------
(***************************************************************************)
(* The keyboard task takes every scancode that was queued, in order, and   *)
(* is never left asleep on one, for queues of every capacity.              *)
(* What the keyboard task prints stays on the screen and never on top of   *)
(* other text, for every screen that has room for one glyph and however    *)
(* much is typed.  The invariant adds to the two properties that glyphs    *)
(* and cursor lie on the grid of 9 by 15 pixels: backspace subtracts 9 and *)
(* expects to meet exactly the last glyph.                                 *)
(***************************************************************************)
EXTENDS KeyboardEcho, SequenceTheorems, TLAPS

\* What a leaf may take of each prover: seconds of wall time, which a busy machine
\* stretches.
USE SMTT(30), ZenonT(30)

OnGrid(x, y) == (\E k \in Nat : x = 9 * k) /\ (\E k \in Nat : y = 15 * k)

Grid == OnGrid(x_pos, y_pos) /\ \A g \in glyphs : OnGrid(g.x, g.y)

WInv == WriterTypeOK /\ Grid /\ GlyphsOnScreen /\ TextBeforeCursor

\* The start of this line and of the next are on the grid, as is the corner.
LEMMA GridLines ==
  ASSUME NEW x, NEW y, OnGrid(x, y)
  PROVE  OnGrid(0, 0) /\ OnGrid(0, y) /\ OnGrid(0, y + 15)
<1>1. PICK k \in Nat : y = 15 * k
  BY DEF OnGrid
<1>2. 0 = 9 * 0 /\ 0 = 15 * 0 /\ y + 15 = 15 * (k + 1) /\ k + 1 \in Nat /\ 0 \in Nat
  BY <1>1
<1> QED
  BY <1>1, <1>2, Zenon DEF OnGrid

\* Boot leaves the cursor at the start of a line, with text above it only.
LEMMA WriterInitInv == WriterInit => WInv
<1> SUFFICES ASSUME WriterInit PROVE WInv
  OBVIOUS
<1> USE InfosAssumption
<1>1. info.width \in Nat /\ info.height \in Nat /\ info.width >= 9 /\ info.height >= 15
  BY DEF WriterInit
<1>2. info.height \div 15 \in Nat
  BY <1>1
<1>3. PICK n \in 0 .. info.height \div 15 : y_pos = 15 * n
  BY DEF WriterInit
<1>4. \A g \in glyphs : \E m \in 0 .. info.height \div 15 :
        /\ g = [x |-> 0, y |-> 15 * m] /\ 15 * m < y_pos
        /\ m = 0 \/ 15 * m + 15 < info.height
  BY DEF WriterInit
<1>5. WriterTypeOK
  <2>1. glyphs \subseteq Positions
    BY <1>2, <1>4 DEF Positions
  <2>2. y_pos \in Nat
    BY <1>2, <1>3
  <2> QED
    BY <2>1, <2>2, Zenon DEF WriterTypeOK, WriterInit
<1>6. Grid
  <2>1. OnGrid(x_pos, y_pos)
    BY <1>2, <1>3 DEF OnGrid, WriterInit
  <2>2. \A g \in glyphs : OnGrid(g.x, g.y)
    BY <1>2, <1>4 DEF OnGrid
  <2> QED
    BY <2>1, <2>2 DEF Grid
<1>7. GlyphsOnScreen
  BY <1>1, <1>2, <1>4 DEF GlyphsOnScreen
<1>8. TextBeforeCursor
  BY <1>4 DEF TextBeforeCursor
<1> QED
  BY <1>5, <1>6, <1>7, <1>8 DEF WInv

\* The place where write_byte draws is on the screen and on the grid; unless the
\* screen is cleared, it lies behind all text.
LEMMA PlaceToDraw ==
  ASSUME WInv, NEW p, p = IF Clears(Wrapped) THEN [x |-> 0, y |-> 0] ELSE Wrapped
  PROVE  /\ p \in Positions /\ OnGrid(p.x, p.y)
         /\ p.x + 9 <= info.width /\ p.y + 15 <= info.height
         /\ ~Clears(Wrapped) => \A g \in glyphs : g.y < p.y \/ (g.y = p.y /\ g.x < p.x)
<1> USE InfosAssumption
<1>1. /\ info.width \in Nat /\ info.height \in Nat /\ info.width >= 9 /\ info.height >= 15
      /\ x_pos \in Nat /\ y_pos \in Nat
  BY DEF WInv, WriterTypeOK
<1>2. OnGrid(x_pos, y_pos) /\ OnGrid(0, 0) /\ OnGrid(0, y_pos) /\ OnGrid(0, y_pos + 15)
  BY GridLines DEF WInv, Grid
<1>3. p \in Positions /\ OnGrid(p.x, p.y)
  BY <1>1, <1>2 DEF Wrapped, Positions
<1>4. p.x + 9 <= info.width /\ p.y + 15 <= info.height
  BY <1>1 DEF Wrapped, Clears
<1>5. ASSUME ~Clears(Wrapped), NEW g \in glyphs
      PROVE  g.y < p.y \/ (g.y = p.y /\ g.x < p.x)
  <2>1. g.x \in Nat /\ g.y \in Nat
    BY DEF WInv, WriterTypeOK, Positions
  <2>2. g.y < y_pos \/ (g.y = y_pos /\ g.x < x_pos)
    BY DEF WInv, TextBeforeCursor
  <2> QED
    BY <1>1, <1>5, <2>1, <2>2 DEF Wrapped
<1> QED
  BY <1>3, <1>4, <1>5

\* Printing one character keeps the invariant.
LEMMA PrintInv == ASSUME WInv, NEW c \in Characters, PrintChar(c) PROVE WInv'
<1> USE InfosAssumption
<1>0. /\ info \in Infos /\ info.width \in Nat /\ info.height \in Nat /\ info.stride \in Nat
      /\ info.width >= 9 /\ info.height >= 15 /\ info.stride >= info.width
      /\ x_pos \in Nat /\ y_pos \in Nat /\ panicked \in BOOLEAN
      /\ glyphs \subseteq Positions
  BY DEF WInv, WriterTypeOK
<1> DEFINE p == IF Clears(Wrapped) THEN [x |-> 0, y |-> 0] ELSE Wrapped
           kept == IF Clears(Wrapped) THEN {} ELSE glyphs
<1>a. ASSUME glyphs' \in {kept, kept \cup {p}}, x_pos' = p.x + 9, y_pos' = p.y,
             UNCHANGED <<info, panicked>>
      PROVE  WInv'
  <2>1. /\ p \in Positions /\ OnGrid(p.x, p.y)
        /\ p.x + 9 <= info.width /\ p.y + 15 <= info.height
        /\ \A g \in kept : g \in glyphs /\ (g.y < p.y \/ (g.y = p.y /\ g.x < p.x))
    BY PlaceToDraw
  <2> HIDE DEF p, kept
  <2>2. p.x \in Nat /\ p.y \in Nat
    BY <2>1 DEF Positions
  <2>3. \A g \in glyphs' : g = p \/ g \in kept
    BY <1>a
  <2>4. WriterTypeOK'
    BY <1>0, <1>a, <2>1, <2>2, <2>3 DEF WriterTypeOK
  <2>5. Grid'
    <3>1. OnGrid(p.x + 9, p.y)
      BY <2>1, <2>2 DEF OnGrid
    <3>2. \A g \in glyphs' : OnGrid(g.x, g.y)
      BY <2>1, <2>3 DEF WInv, Grid
    <3> QED
      BY <1>a, <3>1, <3>2 DEF Grid
  <2>6. GlyphsOnScreen'
    BY <1>a, <2>1, <2>3 DEF WInv, GlyphsOnScreen
  <2>7. TextBeforeCursor'
    <3> SUFFICES ASSUME NEW g \in glyphs' PROVE g.y < p.y \/ (g.y = p.y /\ g.x < p.x + 9)
      BY <1>a DEF TextBeforeCursor
    <3>1. CASE g = p
      BY <2>2, <3>1
    <3>2. CASE g \in kept
      BY <1>0, <2>1, <2>2, <3>2 DEF Positions
    <3> QED
      BY <2>3, <3>1, <3>2
  <2> QED
    BY <2>4, <2>5, <2>6, <2>7 DEF WInv
<1>1. CASE WriteByte
  BY <1>a, <1>1 DEF WriteByte
<1>2. CASE WriteUnprintable
  BY <1>a, <1>2 DEF WriteUnprintable, WriteByte
<1>3. CASE NewLine
  <2> USE <1>3 DEF NewLine
  <2>1. WriterTypeOK'
    BY <1>0 DEF WriterTypeOK
  <2>2. OnGrid(0, y_pos + 15)
    BY GridLines DEF WInv, Grid
  <2>3. Grid'
    BY <2>2 DEF WInv, Grid
  <2>4. GlyphsOnScreen'
    BY DEF WInv, GlyphsOnScreen
  <2>5. TextBeforeCursor'
    BY <1>0 DEF WInv, TextBeforeCursor, Positions
  <2> QED
    BY <2>1, <2>3, <2>4, <2>5 DEF WInv
<1>4. CASE Backspace
  <2>1. CASE x_pos = 0 /\ y_pos < 15
    <3>1. panicked' = TRUE /\ UNCHANGED <<info, x_pos, y_pos, glyphs>>
      BY <1>4, <2>1 DEF Backspace
    <3> QED
      BY <1>0, <3>1 DEF WInv, WriterTypeOK, Grid, GlyphsOnScreen, TextBeforeCursor
  <2>2. CASE ~(x_pos = 0 /\ y_pos < 15)
    <3>1. /\ y_pos' = IF x_pos = 0 THEN y_pos - 15 ELSE y_pos
          /\ x_pos' = (IF x_pos = 0 THEN (info.stride \div 9) * 9 ELSE x_pos) - 9
          /\ glyphs' = glyphs \ {[x |-> x_pos', y |-> y_pos']}
          /\ UNCHANGED <<info, panicked>>
      BY <1>4, <2>2 DEF Backspace
    <3>2. PICK i \in Nat, j \in Nat : x_pos = 9 * i /\ y_pos = 15 * j
      BY DEF WInv, Grid, OnGrid
    <3>3. info.stride \div 9 \in Nat /\ info.stride \div 9 >= 1
      BY <1>0
    <3>4. /\ x_pos' \in Nat /\ y_pos' \in Nat
          /\ \E k \in Nat : x_pos' = 9 * k
          /\ \E k \in Nat : y_pos' = 15 * k
      <4>1. CASE x_pos = 0
        <5>1. x_pos' = 9 * ((info.stride \div 9) - 1) /\ y_pos' = 15 * (j - 1)
          BY <3>1, <3>2, <3>3, <4>1
        <5>2. (info.stride \div 9) - 1 \in Nat /\ j - 1 \in Nat
          BY <2>2, <3>2, <3>3, <4>1
        <5> QED
          BY <5>1, <5>2
      <4>2. CASE x_pos # 0
        <5>1. x_pos' = 9 * (i - 1) /\ y_pos' = 15 * j /\ i - 1 \in Nat
          BY <3>1, <3>2, <4>2
        <5> QED
          BY <5>1, <3>2
      <4> QED
        BY <4>1, <4>2
    <3>5. WriterTypeOK'
      BY <1>0, <3>1, <3>4 DEF WriterTypeOK
    <3>6. Grid'
      BY <3>1, <3>4 DEF WInv, Grid, OnGrid
    <3>7. GlyphsOnScreen'
      BY <3>1 DEF WInv, GlyphsOnScreen
    <3>8. TextBeforeCursor'
      <4> SUFFICES ASSUME NEW g \in glyphs'
                   PROVE  g.y < y_pos' \/ (g.y = y_pos' /\ g.x < x_pos')
        BY DEF TextBeforeCursor
      <4>1. /\ g \in glyphs /\ g \in Positions /\ g.x \in Nat /\ g.y \in Nat
            /\ ~(g.x = x_pos' /\ g.y = y_pos')
        BY <1>0, <3>1 DEF Positions
      <4>2. g.y < y_pos \/ (g.y = y_pos /\ g.x < x_pos)
        BY <4>1 DEF WInv, TextBeforeCursor
      <4>3. g.x + 9 <= info.width
        BY <4>1 DEF WInv, GlyphsOnScreen
      <4>4. PICK k \in Nat, l \in Nat : g.x = 9 * k /\ g.y = 15 * l
        BY <4>1 DEF WInv, Grid, OnGrid
      <4>5. CASE x_pos = 0
        <5>1. y_pos' = y_pos - 15 /\ x_pos' = (info.stride \div 9) * 9 - 9
          BY <3>1, <4>5
        <5>2. g.y <= y_pos'
          BY <3>2, <4>1, <4>2, <4>4, <4>5, <5>1
        <5>3. g.x <= x_pos'
          BY <1>0, <3>3, <4>3, <4>4, <5>1
        <5> QED
          BY <3>4, <4>1, <5>2, <5>3
      <4>6. CASE x_pos # 0
        BY <3>1, <3>2, <4>1, <4>2, <4>4, <4>6
      <4> QED
        BY <4>5, <4>6
    <3> QED
      BY <3>5, <3>6, <3>7, <3>8 DEF WInv
  <2> QED
    BY <2>1, <2>2
<1> QED
  BY <1>1, <1>2, <1>3, <1>4 DEF PrintChar, Characters

\* Whatever keys are pressed and however they interleave with the task, no glyph
\* is cut off by the edge and none is drawn over another, on every screen.
THEOREM ScreenTextKept == EchoSpec => []TextKept
<1>1. EchoInit => WInv
  BY WriterInitInv DEF EchoInit
<1>2. WInv /\ [EchoNext]_allVars => WInv'
  <2> SUFFICES ASSUME WInv, [EchoNext]_allVars PROVE WInv'
    OBVIOUS
  <2>1. CASE UNCHANGED writerVars
    BY <2>1 DEF writerVars, WInv, WriterTypeOK, Grid, GlyphsOnScreen, TextBeforeCursor
  <2>2. CASE \E c \in Characters : PrintChar(c)
    BY <2>2, PrintInv
  <2> QED
    BY <2>1, <2>2 DEF EchoNext, TakeAndPrint, StreamStep, KeyPressed, Stopped, allVars
<1>3. WInv => TextKept
  BY DEF WInv, TextKept
<1> QED
  BY <1>1, <1>2, <1>3, PTL DEF EchoSpec
-----------------------------------------------------------------------------
(* The stream *)

\* A registered waker or a wake is there from the end of register on: that is what
\* a scancode that comes after the second pop relies on.
StreamInv ==
  /\ queue \in Seq(Nat) /\ taken \in Seq(Nat) /\ pressed \in Nat
  /\ {stored, waking, woken} \subseteq BOOLEAN
  /\ pc \in {"repop", "waiting"} => stored \/ woken
  /\ NoStrandedScancode
  /\ dropped \subseteq 1 .. pressed
  /\ OrderKept

\* A pop moves the head of the queue to the end of what was taken.
LEMMA PopKeepsOrder ==
  ASSUME NEW t \in Seq(Nat), NEW q \in Seq(Nat), q # <<>>
  PROVE  /\ Append(t, Head(q)) \in Seq(Nat) /\ Tail(q) \in Seq(Nat)
         /\ Append(t, Head(q)) \o Tail(q) = t \o q
<1>1. Head(q) \in Nat /\ Tail(q) \in Seq(Nat) /\ Len(q) >= 1
  BY EmptySeq, HeadTailProperties
<1>2. Append(t, Head(q)) \in Seq(Nat)
  BY <1>1
<1>3. Len(Append(t, Head(q)) \o Tail(q)) = Len(t \o q)
  BY <1>1, <1>2
<1>4. \A i \in 1 .. Len(t \o q) : (Append(t, Head(q)) \o Tail(q))[i] = (t \o q)[i]
  BY <1>1, <1>2
<1> QED
  BY <1>1, <1>2, <1>3, <1>4, SeqEqual, ConcatProperties

\* The steps of poll_next that take no scancode, and the executor's poll.
LEMMA StreamStepInv ==
  ASSUME StreamInv, New \/ PopEmpty \/ RegisterBegin \/ RegisterEnd \/ RepopEmpty \/ Poll
  PROVE  StreamInv'
<1>1. UNCHANGED <<queue, taken, pressed, dropped>>
  BY DEF New, PopEmpty, RegisterBegin, RegisterEnd, RepopEmpty, Poll
<1>2. OrderKept' /\ dropped' \subseteq 1 .. pressed'
  BY <1>1 DEF StreamInv, OrderKept
<1>3. {stored', waking', woken'} \subseteq BOOLEAN
  BY Zenon DEF StreamInv, New, PopEmpty, RegisterBegin, RegisterEnd, RepopEmpty, Poll
<1>4. pc' \in {"repop", "waiting"} => stored' \/ woken'
  BY Zenon DEF StreamInv, New, PopEmpty, RegisterBegin, RegisterEnd, RepopEmpty, Poll
<1>5. NoStrandedScancode'
  BY DEF StreamInv, NoStrandedScancode, New, PopEmpty, RegisterBegin, RegisterEnd,
         RepopEmpty, Poll
<1> QED
  BY <1>1, <1>2, <1>3, <1>4, <1>5 DEF StreamInv

\* The pops that find a scancode.
LEMMA TakeInv ==
  ASSUME StreamInv, PopReady \/ RepopReady
  PROVE  StreamInv'
<1>1. /\ queue # <<>> /\ queue' = Tail(queue) /\ taken' = Append(taken, Head(queue))
      /\ pc' = "pop" /\ UNCHANGED <<pressed, dropped>>
      /\ {stored', waking', woken'} \subseteq BOOLEAN
  BY Zenon DEF PopReady, RepopReady, StreamInv
<1>2. queue' \in Seq(Nat) /\ taken' \in Seq(Nat) /\ taken' \o queue' = taken \o queue
  <2>1. queue \in Seq(Nat) /\ taken \in Seq(Nat)
    BY Zenon DEF StreamInv
  <2>2. queue # <<>>
    BY <1>1
  <2>3. /\ Tail(queue) \in Seq(Nat) /\ Append(taken, Head(queue)) \in Seq(Nat)
        /\ Append(taken, Head(queue)) \o Tail(queue) = taken \o queue
    BY ONLY <2>1, <2>2, PopKeepsOrder, ZenonT(30)
  <2> QED BY <1>1, <2>3, Zenon
<1>3. Len(queue') <= Capacity
  <2>1. Len(queue') = Len(queue) - 1 /\ Len(queue) \in Nat /\ Len(queue) <= Capacity
    BY <1>1, EmptySeq, HeadTailProperties DEF StreamInv, OrderKept
  <2> QED BY <2>1, KeyboardAssumption
<1>4. OrderKept'
  BY <1>1, <1>2, <1>3, Zenon DEF StreamInv, OrderKept
<1> QED
  BY <1>1, <1>2, <1>4 DEF StreamInv, NoStrandedScancode

\* A new scancode has a higher number than all before it.
LEMMA AppendKeepsOrder ==
  ASSUME NEW o \in Seq(Nat), NEW p \in Nat, NEW D \in SUBSET (1 .. p),
         \A i, j \in DOMAIN o : i < j => o[i] < o[j],
         {o[i] : i \in DOMAIN o} = (1 .. p) \ D
  PROVE  /\ \A i, j \in DOMAIN Append(o, p + 1) :
              i < j => Append(o, p + 1)[i] < Append(o, p + 1)[j]
         /\ {Append(o, p + 1)[i] : i \in DOMAIN Append(o, p + 1)} = (1 .. p + 1) \ D
<1>1. PICK n : n = Append(o, p + 1)
  BY Zenon
<1>2. /\ Len(o) \in Nat /\ DOMAIN o = 1 .. Len(o) /\ DOMAIN n = 1 .. Len(o) + 1
      /\ n[Len(o) + 1] = p + 1 /\ \A i \in DOMAIN o : n[i] = o[i]
  BY <1>1
<1>3. \A i \in DOMAIN o : o[i] \in (1 .. p) \ D
  OBVIOUS
<1>4. ASSUME NEW i \in DOMAIN n, NEW j \in DOMAIN n, i < j
      PROVE  n[i] < n[j]
  <2>1. i \in DOMAIN o /\ n[i] = o[i] /\ o[i] \in 1 .. p
    BY <1>2, <1>3, <1>4
  <2>2. CASE j \in DOMAIN o
    BY <1>2, <1>4, <2>1, <2>2
  <2>3. CASE j = Len(o) + 1
    BY <1>2, <2>1, <2>3
  <2> QED
    BY <1>2, <2>2, <2>3
<1>5. \A k : (\E i \in DOMAIN n : n[i] = k) <=> (\E i \in DOMAIN o : o[i] = k) \/ k = p + 1
  BY ONLY <1>2, SMTT(30)
<1>6. \A k : (\E i \in DOMAIN o : o[i] = k) <=> k \in (1 .. p) \ D
  OBVIOUS
<1>7. \A k : k \in (1 .. p + 1) \ D <=> k \in (1 .. p) \ D \/ k = p + 1
  OBVIOUS
<1>8. {n[i] : i \in DOMAIN n} = (1 .. p + 1) \ D
  BY <1>5, <1>6, <1>7, ZenonT(30)
<1> QED
  BY ONLY <1>1, <1>4, <1>8, ZenonT(30)

\* Appending to the queue appends to all that came in.
LEMMA ConcatAppend ==
  ASSUME NEW t \in Seq(Nat), NEW q \in Seq(Nat), NEW x \in Nat
  PROVE  /\ Append(q, x) \in Seq(Nat) /\ t \o q \in Seq(Nat)
         /\ t \o Append(q, x) = Append(t \o q, x)
<1>1. Append(q, x) \in Seq(Nat) /\ t \o q \in Seq(Nat)
  OBVIOUS
<1>2. t \o Append(q, x) \in Seq(Nat) /\ Append(t \o q, x) \in Seq(Nat)
  BY <1>1
<1>3. Len(t \o Append(q, x)) = Len(Append(t \o q, x))
  BY <1>1
<1>4. \A i \in 1 .. Len(Append(t \o q, x)) : (t \o Append(q, x))[i] = Append(t \o q, x)[i]
  BY <1>1
<1> QED
  BY <1>1, <1>2, <1>3, <1>4, SeqEqual

\* The handler's push.
LEMMA AddKeepsOrder ==
  ASSUME StreamInv, pressed' = pressed + 1, queue' = Append(queue, pressed'),
         Len(queue) < Capacity, UNCHANGED <<taken, dropped>>
  PROVE  OrderKept' /\ queue' \in Seq(Nat)
<1>1. PICK o \in Seq(Nat) : o = taken \o queue
  BY ConcatAppend, Zenon DEF StreamInv
<1>2. /\ \A i, j \in DOMAIN o : i < j => o[i] < o[j]
      /\ {o[i] : i \in DOMAIN o} = (1 .. pressed) \ dropped
  BY <1>1, ZenonT(30) DEF StreamInv, OrderKept
<1>3. PICK n : n = Append(o, pressed + 1)
  BY Zenon
<1>4. /\ \A i, j \in DOMAIN n : i < j => n[i] < n[j]
      /\ {n[i] : i \in DOMAIN n} = (1 .. pressed + 1) \ dropped
  <2>1. pressed \in Nat /\ dropped \in SUBSET (1 .. pressed)
    BY DEF StreamInv
  <2>2. /\ \A i, j \in DOMAIN Append(o, pressed + 1) :
             i < j => Append(o, pressed + 1)[i] < Append(o, pressed + 1)[j]
        /\ {Append(o, pressed + 1)[i] : i \in DOMAIN Append(o, pressed + 1)}
             = (1 .. pressed + 1) \ dropped
    BY <1>2, <2>1, AppendKeepsOrder, Zenon
  <2> QED
    BY <1>3, <2>2, Zenon
<1>5. taken' \o queue' = n /\ queue' \in Seq(Nat)
  <2>1. queue \in Seq(Nat) /\ taken \in Seq(Nat) /\ pressed + 1 \in Nat
    BY DEF StreamInv
  <2>2. taken' = taken /\ queue' = Append(queue, pressed + 1)
    BY Zenon
  <2> QED BY ONLY <1>1, <1>3, <2>1, <2>2, ConcatAppend, SMTT(30)
<1>6. Len(queue') <= Capacity
  <2>1. Len(queue') = Len(queue) + 1 /\ Len(queue) \in Nat
    BY DEF StreamInv
  <2> QED BY <2>1, KeyboardAssumption
<1> QED
  <2>1. pressed' = pressed + 1 /\ dropped' = dropped
    BY Zenon
  <2> QED
    BY ONLY <1>4, <1>5, <1>6, <2>1, ZenonT(30) DEF OrderKept

\* The handler, wherever it comes.
LEMMA AddInv ==
  ASSUME StreamInv, AddScancode
  PROVE  StreamInv'
<1>1. CASE init /\ Len(queue) < Capacity
  <2>1. /\ pressed' = pressed + 1 /\ queue' = Append(queue, pressed')
        /\ UNCHANGED <<taken, dropped, pc>> /\ Wake
    BY <1>1 DEF AddScancode
  <2>2. OrderKept' /\ queue' \in Seq(Nat)
    BY <1>1, <2>1, AddKeepsOrder
  <2>3. {stored', waking', woken'} \subseteq BOOLEAN
    BY <2>1, Zenon DEF Wake, StreamInv
  <2>4. pc' \in {"repop", "waiting"} => woken'
    BY <2>1 DEF Wake, StreamInv
  <2> QED
    BY <2>1, <2>2, <2>3, <2>4 DEF StreamInv, NoStrandedScancode
<1>2. CASE ~(init /\ Len(queue) < Capacity)
  <2>1. /\ pressed' = pressed + 1 /\ dropped' = dropped \cup {pressed + 1}
        /\ UNCHANGED <<queue, taken, stored, waking, woken, pc>>
    BY <1>2 DEF AddScancode
  <2>2. (1 .. pressed + 1) \ (dropped \cup {pressed + 1}) = (1 .. pressed) \ dropped
    BY DEF StreamInv
  <2>3. dropped' \subseteq 1 .. pressed'
    BY <2>1 DEF StreamInv
  <2>4. OrderKept'
    <3>1. (1 .. pressed') \ dropped' = (1 .. pressed) \ dropped
      BY <2>1, <2>2
    <3> QED BY <2>1, <3>1 DEF StreamInv, OrderKept
  <2> QED
    BY <2>1, <2>3, <2>4 DEF StreamInv, NoStrandedScancode
<1> QED
  BY <1>1, <1>2

\* StreamInv is inductive.
LEMMA StreamInvariant == EchoSpec => []StreamInv
<1>1. EchoInit => StreamInv
  <2> SUFFICES ASSUME Init PROVE StreamInv
    BY DEF EchoInit
  <2>1. <<>> \in Seq(Nat) /\ <<>> \o <<>> = <<>> /\ DOMAIN <<>> = {} /\ 1 .. 0 = {}
    BY EmptySeq
  <2>2. OrderKept
    BY <2>1, KeyboardAssumption DEF Init, OrderKept
  <2> QED
    BY <2>1, <2>2, Zenon DEF Init, StreamInv, NoStrandedScancode
<1>2. StreamInv /\ [EchoNext]_allVars => StreamInv'
  <2> SUFFICES ASSUME StreamInv, [EchoNext]_allVars PROVE StreamInv'
    OBVIOUS
  <2>1. CASE UNCHANGED vars
    BY <2>1, Zenon DEF vars, StreamInv, NoStrandedScancode, OrderKept
  <2> QED
    BY <2>1, TakeInv, StreamStepInv, AddInv
       DEF EchoNext, TakeAndPrint, StreamStep, KeyPressed, Stopped, allVars
<1> QED
  BY <1>1, <1>2, PTL DEF EchoSpec

\* The task never waits on a queue with scancodes in it without a wake on its way.
THEOREM NothingStranded == EchoSpec => []NoStrandedScancode
<1>1. StreamInv => NoStrandedScancode
  BY DEF StreamInv
<1> QED
  BY <1>1, StreamInvariant, PTL

\* Scancodes come out in order, each once, and only dropped ones are missing.
THEOREM ScancodesInOrder == EchoSpec => []OrderKept
<1>1. StreamInv => OrderKept
  BY DEF StreamInv
<1> QED
  BY <1>1, StreamInvariant, PTL
=============================================================================
