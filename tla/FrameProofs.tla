----------------------------- MODULE FrameProofs -----------------------------
(***************************************************************************)
(* Physical frames, for every memory map and every sequence of calls.      *)
(* FrameInv: no frame has two owners, and the heap's frames lie below all  *)
(* that is still to be read of the map when SmartFrameAllocator takes      *)
(* over. What coallesce makes of the ranges is proved by induction over    *)
(* how many of them it has gone through.                                   *)
(***************************************************************************)
EXTENDS FrameAllocator, TLAPS, SequenceTheorems, FiniteSetTheorems

\* What a leaf may take of each prover: seconds of wall time, which a busy machine
\* stretches.
USE SMTT(30), ZenonT(30)

(* Induction and recursion *)

\* Induction up to a bound, for a set of numbers.
LEMMA InductionUpTo ==
  ASSUME NEW n \in Nat, NEW T \in SUBSET (0 .. n), 0 \in T,
         \A k \in 1 .. n : k - 1 \in T => k \in T
  PROVE  T = 0 .. n
<1> DEFINE U == (0 .. n) \ T
<1> SUFFICES ASSUME U # {} PROVE FALSE
  BY Zenon
<1>1. U \in SUBSET Nat
  OBVIOUS
<1> HIDE DEF U
<1>2. PICK k \in U : \A j \in U : ~(<<j, k>> \in OpToRel(<, Nat))
  BY <1>1, NatLessThanWellFounded, WFMin, Zenon
<1>3. \A j \in U : <<j, k>> \in OpToRel(<, Nat) <=> j < k
  BY <1>1 DEF OpToRel
<1>4. k \in 1 .. n /\ k - 1 \in 0 .. n
  BY DEF U
<1>5. \A j \in U : ~(j < k)
  BY <1>2, <1>3, Zenon
<1>6. k - 1 \notin U
  BY <1>4, <1>5
<1> QED BY <1>4, <1>6 DEF U

\* Some function computes step from base, n times.
Computable(n, S, base, step) ==
  \E f \in [0 .. n -> S] :
    /\ f[0] = base
    /\ \A k \in 1 .. n : f[k] = step[<<k, f[k - 1]>>]

\* A recursive function over 0 .. n exists and has the type of its steps.
LEMMA RecursionUpTo ==
  ASSUME NEW n \in Nat, NEW S, NEW base \in S, NEW step \in [(1 .. n) \X S -> S]
  PROVE  Computable(n, S, base, step)
<1> DEFINE Upto(m, f) == f[0] = base /\ \A k \in 1 .. m : f[k] = step[<<k, f[k - 1]>>]
           T == {m \in 0 .. n : \E f \in [0 .. m -> S] : Upto(m, f)}
<1>1. 0 \in T
  <2>1. PICK f : f = [k \in 0 .. 0 |-> base]
    BY Zenon
  <2>2. f \in [0 .. 0 -> S] /\ f[0] = base
    BY <2>1
  <2>3. Upto(0, f)
    BY <2>2
  <2> HIDE DEF Upto
  <2> QED BY <2>2, <2>3
<1>2. ASSUME NEW m \in 1 .. n, m - 1 \in T PROVE m \in T
  <2>1. PICK f \in [0 .. m - 1 -> S] : Upto(m - 1, f)
    BY <1>2
  <2> DEFINE g == [k \in 0 .. m |-> IF k = m THEN step[<<m, f[m - 1]>>] ELSE f[k]]
  <2>2. f[m - 1] \in S /\ <<m, f[m - 1]>> \in (1 .. n) \X S
    OBVIOUS
  <2>3. step[<<m, f[m - 1]>>] \in S
    BY <2>2
  <2>4. g \in [0 .. m -> S]
    BY <2>3
  <2>5. g[0] = base
    BY <2>1
  <2>6. ASSUME NEW k \in 1 .. m PROVE g[k] = step[<<k, g[k - 1]>>]
    <3>1. k - 1 \in 0 .. m - 1 /\ g[k - 1] = f[k - 1]
      OBVIOUS
    <3>2. CASE k = m
      <4>1. g[m] = step[<<m, f[m - 1]>>]
        OBVIOUS
      <4> HIDE DEF g
      <4> QED BY <4>1, <3>1, <3>2
    <3>3. CASE k # m
      <4>1. k \in 1 .. m - 1 /\ g[k] = f[k]
        BY <3>3
      <4> QED BY <3>1, <4>1, <2>1
    <3> QED BY <3>2, <3>3
  <2>7. Upto(m, g)
    BY <2>5, <2>6, Zenon
  <2> HIDE DEF Upto, g
  <2> QED BY <2>4, <2>7
<1> HIDE DEF Upto
<1>3. T = 0 .. n
  <2>1. T \in SUBSET (0 .. n)
    OBVIOUS
  <2> HIDE DEF T
  <2> QED BY ONLY <2>1, <1>1, <1>2, InductionUpTo, n \in Nat, SMTT(30)
<1>4. PICK f \in [0 .. n -> S] : Upto(n, f)
  BY <1>3
<1> QED BY <1>4 DEF Upto, Computable
-----------------------------------------------------------------------------
(* Orders *)

Orders(before, S) ==
  /\ \A i \in S : <<i, i>> \notin before
  /\ \A i, j \in S : i # j => <<i, j>> \in before \/ <<j, i>> \in before
  /\ \A i, j, k \in S : <<i, j>> \in before /\ <<j, k>> \in before => <<i, k>> \in before

Predecessors(S, before, i) == {j \in S : <<j, i>> \in before}

\* Every place of InOrder is taken by one element, and every element has a place.
LEMMA InOrderFacts ==
  ASSUME NEW S, IsFiniteSet(S), NEW before, Orders(before, S),
         NEW order, order = InOrder(S, before)
  PROVE  /\ Cardinality(S) \in Nat
         /\ order \in [1 .. Cardinality(S) -> S]
         /\ \A k, l \in 1 .. Cardinality(S) : k # l => order[k] # order[l]
         /\ \A i \in S : \E k \in 1 .. Cardinality(S) : order[k] = i
<1> DEFINE P(i) == Predecessors(S, before, i)
<1>0. PICK n : n = Cardinality(S)
  OBVIOUS
<1>1. n \in Nat
  BY <1>0, FS_CardinalityType
<1>2. ASSUME NEW i \in S
      PROVE  IsFiniteSet(P(i)) /\ Cardinality(P(i)) \in 0 .. n - 1
  <2>1. P(i) \in SUBSET (S \ {i})
    BY DEF Orders, Predecessors
  <2>2. IsFiniteSet(S \ {i}) /\ Cardinality(S \ {i}) = n - 1
    BY <1>0, FS_RemoveElement
  <2> HIDE DEF P
  <2>3. IsFiniteSet(P(i)) /\ Cardinality(P(i)) <= n - 1
    BY <2>1, <2>2, FS_Subset
  <2>4. Cardinality(P(i)) \in Nat
    BY <2>3, FS_CardinalityType
  <2> QED BY <2>3, <2>4, <1>1
<1>3. ASSUME NEW i \in S, NEW j \in S, <<i, j>> \in before
      PROVE  Cardinality(P(i)) # Cardinality(P(j))
  <2>1. P(i) \in SUBSET P(j) /\ i \in P(j) /\ i \notin P(i)
    BY <1>3 DEF Orders, Predecessors
  <2> HIDE DEF P
  <2> QED BY <2>1, <1>2, FS_Subset
<1>4. ASSUME NEW i \in S, NEW j \in S, i # j
      PROVE  Cardinality(P(i)) # Cardinality(P(j))
  <2>1. <<i, j>> \in before \/ <<j, i>> \in before
    BY <1>4 DEF Orders
  <2> HIDE DEF P
  <2> QED BY <2>1, <1>3
<1> DEFINE rank == [i \in S |-> Cardinality(P(i))]
<1> HIDE DEF P
<1>5. rank \in Injection(S, 0 .. n - 1)
  <2>1. rank \in [S -> 0 .. n - 1]
    BY <1>2
  <2>2. \A i, j \in S : rank[i] = rank[j] => i = j
    BY <1>4
  <2> HIDE DEF rank
  <2> QED BY <2>1, <2>2 DEF Injection, IsInjective
<1>6. rank \in Surjection(S, 0 .. n - 1)
  <2>1. IsFiniteSet(0 .. n - 1) /\ Cardinality(0 .. n - 1) = n
    BY <1>1, FS_Interval
  <2> HIDE DEF rank
  <2> QED BY <2>1, <1>0, <1>5, FS_Injection
<1> DEFINE At(k) == CHOOSE i \in S : Cardinality(P(i)) = k - 1
<1>7. ASSUME NEW k \in 1 .. n PROVE At(k) \in S /\ Cardinality(P(At(k))) = k - 1
  <2>1. k - 1 \in 0 .. n - 1
    BY <1>1
  <2>2. \E i \in S : rank[i] = k - 1
    BY <2>1, <1>6, Zenon DEF Surjection
  <2>3. \E i \in S : Cardinality(P(i)) = k - 1
    BY <2>2
  <2> QED BY <2>3, Zenon
<1>8. order = [k \in 1 .. n |-> At(k)]
  BY <1>0 DEF InOrder, P, Predecessors
<1> HIDE DEF At
<1>9. \A k, l \in 1 .. n : k # l => order[k] # order[l]
  BY <1>1, <1>7, <1>8
<1>10. ASSUME NEW i \in S PROVE \E k \in 1 .. n : order[k] = i
  <2>1. Cardinality(P(i)) + 1 \in 1 .. n /\ (Cardinality(P(i)) + 1) - 1 = Cardinality(P(i))
    BY <1>1, <1>2
  <2>2. order[Cardinality(P(i)) + 1] = i
    BY <2>1, <1>7, <1>8, <1>4
  <2> QED BY <2>1, <2>2
<1>11. order \in [1 .. n -> S]
  BY <1>7, <1>8
<1> QED BY <1>0, <1>1, <1>9, <1>10, <1>11

\* t holds what seq has at the places in S, in some order.
Rearranges(t, seq, S) ==
  \E order \in [1 .. Len(t) -> S] :
    /\ \A k \in 1 .. Len(t) : t[k] = seq[order[k]]
    /\ \A k, l \in 1 .. Len(t) : k # l => order[k] # order[l]
    /\ \A i \in S : \E k \in 1 .. Len(t) : order[k] = i

\* Arranging keeps what the places of S hold, one place for one place.
LEMMA ArrangedFacts ==
  ASSUME NEW R, NEW seq \in Seq(R), NEW S \in SUBSET DOMAIN seq, NEW before,
         Orders(before, S), NEW t, t = Arranged(seq, S, before)
  PROVE  /\ t \in Seq(R) /\ Len(t) = Cardinality(S) /\ Cardinality(S) \in Nat
         /\ Rearranges(t, seq, S)
<1>1. DOMAIN seq = 1 .. Len(seq) /\ Len(seq) \in Nat
  BY LenProperties
<1>2. IsFiniteSet(S)
  <2>1. IsFiniteSet(DOMAIN seq)
    BY <1>1, FS_Interval
  <2> QED BY <2>1, FS_Subset
<1>3. PICK order : order = InOrder(S, before)
  OBVIOUS
<1>4. PICK n : n = Cardinality(S)
  OBVIOUS
<1>5. /\ n \in Nat /\ order \in [1 .. n -> S]
      /\ \A k, l \in 1 .. n : k # l => order[k] # order[l]
      /\ \A i \in S : \E k \in 1 .. n : order[k] = i
  BY <1>2, <1>3, <1>4, InOrderFacts
<1>6. t = [k \in 1 .. n |-> seq[order[k]]]
  BY <1>3, <1>5 DEF Arranged
<1>7. \A i \in S : seq[i] \in R
  BY <1>1, ElementOfSeq
<1>8. t \in Seq(R) /\ Len(t) = n
  BY <1>5, <1>6, <1>7
<1>9. \A k \in 1 .. n : t[k] = seq[order[k]]
  BY <1>6
<1>10. Rearranges(t, seq, S)
  <2>1. /\ order \in [1 .. Len(t) -> S]
        /\ \A k \in 1 .. Len(t) : t[k] = seq[order[k]]
        /\ \A k, l \in 1 .. Len(t) : k # l => order[k] # order[l]
        /\ \A i \in S : \E k \in 1 .. Len(t) : order[k] = i
    BY <1>5, <1>8, <1>9, ZenonT(30)
  <2> QED BY ONLY <2>1, ZenonT(30) DEF Rearranges
<1> QED BY <1>4, <1>5, <1>8, <1>10
-----------------------------------------------------------------------------
(* Ranges *)

Spans(s) == UNION {Span(s[i]) : i \in DOMAIN s}
Apart(s) == \A i, j \in DOMAIN s : i # j => Span(s[i]) \cap Span(s[j]) = {}

\* A range that is not empty as a range has frames, an empty one has none.
LEMMA SpanFacts ==
  /\ \A r \in Ranges : /\ r.start \in Nat /\ r.end \in Nat /\ r.start <= r.end
                       /\ (r.start = r.end <=> Span(r) = {})
                       /\ \A x : x \in Span(r) <=> x \in Nat /\ r.start <= x /\ x < r.end
  /\ \A a, b \in Nat : a <= b => /\ Range0(a, b) \in Ranges
                                 /\ Range0(a, b).start = a /\ Range0(a, b).end = b
BY DEF Ranges, Span, Range0

\* A range that ends before another begins shares no frame with it.
LEMMA SpansApart ==
  ASSUME NEW r \in Ranges, NEW q \in Ranges, r.end <= q.start
  PROVE  Span(r) \cap Span(q) = {} /\ Span(q) \cap Span(r) = {}
BY SpanFacts

\* One more range at the end, as a push leaves it.
LEMMA OneMore ==
  ASSUME NEW n \in Nat, NEW s, DOMAIN s = 1 .. n, NEW t, DOMAIN t = 1 .. n + 1,
         NEW r, t[n + 1] = r, \A i \in 1 .. n : t[i] = s[i]
  PROVE  /\ Spans(t) = Spans(s) \cup Span(r)
         /\ Apart(s) /\ Spans(s) \cap Span(r) = {} => Apart(t)
<1>1. Spans(t) = Spans(s) \cup Span(r)
  BY DEF Spans
<1>2. ASSUME Apart(s), Spans(s) \cap Span(r) = {} PROVE Apart(t)
  <2>1. \A i \in 1 .. n : Span(s[i]) \cap Span(r) = {} /\ Span(r) \cap Span(s[i]) = {}
    BY <1>2 DEF Spans
  <2>2. ASSUME NEW i \in 1 .. n + 1, NEW j \in 1 .. n + 1, i # j
        PROVE  Span(t[i]) \cap Span(t[j]) = {}
    <3>1. (i \in 1 .. n \/ i = n + 1) /\ (j \in 1 .. n \/ j = n + 1)
      OBVIOUS
    <3>2. CASE i \in 1 .. n /\ j \in 1 .. n
      BY <3>2, <2>2, <1>2 DEF Apart
    <3>3. CASE i = n + 1 \/ j = n + 1
      BY <3>1, <3>3, <2>1, <2>2
    <3> QED BY <3>1, <3>2, <3>3
  <2> QED BY <2>2 DEF Apart
<1> QED BY <1>1, <1>2

\* Ranges that change places and lose only empty ones among them cover what they did.
LEMMA ArrangedRanges ==
  ASSUME NEW seq \in Seq(Ranges), NEW S \in SUBSET DOMAIN seq, NEW before,
         Orders(before, S), \A i \in (DOMAIN seq) \ S : seq[i].start = seq[i].end,
         NEW t, t = Arranged(seq, S, before)
  PROVE  /\ t \in Seq(Ranges) /\ Len(t) = Cardinality(S) /\ Len(t) \in Nat
         /\ Spans(t) = Spans(seq)
         /\ Apart(seq) => Apart(t)
<1>1. t \in Seq(Ranges) /\ Len(t) = Cardinality(S) /\ Len(t) \in Nat /\ Rearranges(t, seq, S)
  BY ArrangedFacts
<1>2. PICK order \in [1 .. Len(t) -> S] :
              /\ \A k \in 1 .. Len(t) : t[k] = seq[order[k]]
              /\ \A k, l \in 1 .. Len(t) : k # l => order[k] # order[l]
              /\ \A i \in S : \E k \in 1 .. Len(t) : order[k] = i
  BY <1>1 DEF Rearranges
<1>3. DOMAIN t = 1 .. Len(t)
  BY <1>1, LenProperties
<1>4. \A i \in DOMAIN seq : seq[i] \in Ranges
  BY LenProperties, ElementOfSeq
<1>5. ASSUME NEW k \in DOMAIN t, NEW x \in Span(t[k]) PROVE x \in Spans(seq)
  <2>1. order[k] \in DOMAIN seq /\ t[k] = seq[order[k]]
    BY <1>2, <1>3
  <2>2. x \in Span(seq[order[k]])
    BY <2>1
  <2> QED BY <2>1, <2>2, ZenonT(30) DEF Spans
<1>6. ASSUME NEW i \in DOMAIN seq, NEW x \in Span(seq[i]) PROVE x \in Spans(t)
  <2>1. i \in S
    BY <1>4, <1>6, SpanFacts
  <2>2. PICK k \in 1 .. Len(t) : order[k] = i
    BY <2>1, <1>2
  <2>3. t[k] = seq[i] /\ k \in DOMAIN t
    BY <2>2, <1>2, <1>3
  <2> QED BY <2>3, <1>6 DEF Spans
<1>7. Spans(t) = Spans(seq)
  BY <1>5, <1>6 DEF Spans
<1>8. ASSUME Apart(seq) PROVE Apart(t)
  BY <1>2, <1>3, <1>8 DEF Apart
<1> QED BY <1>1, <1>7, <1>8

\* sort_by_key only changes places.
LEMMA SortedFacts ==
  ASSUME NEW seq \in Seq(Ranges), NEW t, t = Sorted(seq)
  PROVE  /\ t \in Seq(Ranges) /\ Len(t) = Len(seq) /\ Len(t) \in Nat
         /\ Spans(t) = Spans(seq)
         /\ Apart(seq) => Apart(t)
<1>1. DOMAIN seq = 1 .. Len(seq) /\ Len(seq) \in Nat
  BY LenProperties
<1>2. PICK S : S = DOMAIN seq
  OBVIOUS
<1>3. PICK key : key = [i \in S |-> seq[i].start]
  BY Zenon
<1>4. \A i \in S : key[i] = seq[i].start /\ key[i] \in Nat /\ i \in Nat
  BY <1>1, <1>2, <1>3, ElementOfSeq, SpanFacts
<1>5. PICK before : before = {p \in S \X S : LET a == seq[p[1]].start
                                                 b == seq[p[2]].start
                                             IN  a < b \/ (a = b /\ p[1] < p[2])}
  BY Zenon
<1>6. \A i, j \in S : <<i, j>> \in before <=> key[i] < key[j] \/ (key[i] = key[j] /\ i < j)
  BY <1>4, <1>5
<1>7. Orders(before, S)
  BY ONLY <1>4, <1>6, SMTT(30) DEF Orders
<1>8. t = Arranged(seq, S, before)
  BY <1>2, <1>5 DEF Sorted
<1>9. Cardinality(S) = Len(seq)
  BY <1>1, <1>2, FS_Interval
<1> QED BY <1>2, <1>7, <1>8, <1>9, ArrangedRanges

\* A filter keeps the elements it selects.
LEMMA FilteredOrder ==
  ASSUME NEW R, NEW seq \in Seq(R), NEW S \in SUBSET DOMAIN seq,
         NEW t, t = Filtered(seq, S)
  PROVE  \E before : Orders(before, S) /\ t = Arranged(seq, S, before)
<1>1. PICK before : before = {p \in S \X S : p[1] < p[2]}
  BY Zenon
<1>2. \A i \in S : i \in Nat
  BY LenProperties
<1>3. Orders(before, S)
  BY <1>1, <1>2 DEF Orders
<1>4. t = Arranged(seq, S, before)
  BY <1>1 DEF Filtered
<1> QED BY <1>3, <1>4

\* A filter keeps what is at the places it selects.
LEMMA FilteredFacts ==
  ASSUME NEW R, NEW seq \in Seq(R), NEW S \in SUBSET DOMAIN seq,
         NEW t, t = Filtered(seq, S)
  PROVE  t \in Seq(R) /\ Rearranges(t, seq, S)
<1>1. PICK before : Orders(before, S) /\ t = Arranged(seq, S, before)
  BY FilteredOrder
<1> QED BY <1>1, ArrangedFacts, ZenonT(30)

\* A filter that drops only empty ranges keeps every frame.
LEMMA FilteredRanges ==
  ASSUME NEW seq \in Seq(Ranges), NEW S \in SUBSET DOMAIN seq,
         \A i \in (DOMAIN seq) \ S : seq[i].start = seq[i].end,
         NEW t, t = Filtered(seq, S)
  PROVE  t \in Seq(Ranges) /\ Spans(t) = Spans(seq) /\ (Apart(seq) => Apart(t))
<1>1. PICK before : Orders(before, S) /\ t = Arranged(seq, S, before)
  BY FilteredOrder
<1> QED BY <1>1, ArrangedRanges

\* Joining two ranges gives ranges with the same frames.
LEMMA JoinFacts ==
  ASSUME NEW x \in Ranges, NEW y \in Ranges
  PROVE  \/ Join(x, y) = <<x, y>>
         \/ \E r \in Ranges : Join(x, y) = <<r>> /\ Span(r) = Span(x) \cup Span(y)
<1>1. x.start \in Nat /\ x.end \in Nat /\ y.start \in Nat /\ y.end \in Nat
      /\ x.start <= x.end /\ y.start <= y.end
  BY SpanFacts
<1>2. CASE x.end = y.start
  <2>1. PICK r : r = Range0(x.start, y.end)
    OBVIOUS
  <2>2. r \in Ranges /\ r.start = x.start /\ r.end = y.end
    BY <1>1, <1>2, <2>1, SpanFacts
  <2>3. Span(r) = Span(x) \cup Span(y)
    BY <1>1, <1>2, <2>2 DEF Span
  <2> QED BY <1>2, <2>1, <2>2, <2>3 DEF Join
<1>3. CASE x.end # y.start /\ y.end = x.start
  <2>1. PICK r : r = Range0(y.start, x.end)
    OBVIOUS
  <2>2. r \in Ranges /\ r.start = y.start /\ r.end = x.end
    BY <1>1, <1>3, <2>1, SpanFacts
  <2>3. Span(r) = Span(x) \cup Span(y)
    BY <1>1, <1>3, <2>2 DEF Span
  <2> QED BY <1>3, <2>1, <2>2, <2>3 DEF Join
<1>4. CASE x.end # y.start /\ y.end # x.start
  BY <1>4 DEF Join
<1> QED BY <1>2, <1>3, <1>4

\* The ranges coalesce holds and the next one, frame for frame.
LEMMA CoalesceStepFacts ==
  ASSUME NEW s \in Seq(Ranges), NEW y \in Ranges, NEW t, t = CoalesceStep(s, y)
  PROVE  /\ t \in Seq(Ranges)
         /\ Spans(t) = Spans(s) \cup Span(y)
         /\ Apart(s) /\ Spans(s) \cap Span(y) = {} => Apart(t)
<1>1. PICK n \in Nat : n = Len(s)
  BY LenProperties
<1>2. DOMAIN s = 1 .. n /\ \A i \in 1 .. n : s[i] \in Ranges
  BY <1>1, LenProperties, ElementOfSeq
<1>3. CASE n = 0
  <2>1. s = <<>> /\ t = <<y>>
    BY <1>1, <1>3, EmptySeq, ZenonT(30) DEF CoalesceStep
  <2>2. t \in Seq(Ranges) /\ Len(t) = 1 /\ t[1] = y
    BY ONLY <2>1, y \in Ranges, SMTT(30)
  <2>3. DOMAIN t = 1 .. 1 /\ DOMAIN s = {}
    BY <2>2, <1>2, <1>3, LenProperties
  <2> QED BY <2>2, <2>3 DEF Spans, Apart
<1>4. CASE n # 0 /\ Join(s[n], y) = <<s[n], y>>
  <2>1. t = SubSeq(s, 1, n - 1) \o <<s[n], y>>
    BY <1>1, <1>4, EmptySeq DEF CoalesceStep
  <2>2. /\ t \in Seq(Ranges) /\ DOMAIN t = 1 .. n + 1 /\ t[n + 1] = y
        /\ \A i \in 1 .. n : t[i] = s[i]
    <3>1. PICK q : q = SubSeq(s, 1, n - 1)
      BY Zenon
    <3>2. q \in Seq(Ranges) /\ Len(q) = n - 1 /\ \A i \in 1 .. n - 1 : q[i] = s[i]
      BY <3>1, <1>1, <1>2, <1>4
    <3>3. PICK e : e = <<s[n], y>> /\ t = q \o e
      BY <3>1, <2>1, ZenonT(30)
    <3>4. e \in Seq(Ranges) /\ Len(e) = 2 /\ e[1] = s[n] /\ e[2] = y
      BY ONLY <3>3, y \in Ranges, <1>2, <1>4, n \in Nat, SMTT(30)
    <3>5. t \in Seq(Ranges) /\ Len(t) = n + 1
      BY <3>2, <3>3, <3>4, <1>4
    <3>6. \A i \in 1 .. n + 1 : t[i] = IF i <= n - 1 THEN q[i] ELSE e[i - (n - 1)]
      BY ONLY <3>2, <3>3, <3>4, <1>4, n \in Nat, ConcatProperties, SMTT(30)
    <3>7. t[n] = s[n] /\ t[n + 1] = y /\ \A i \in 1 .. n - 1 : t[i] = s[i]
      BY <3>2, <3>4, <3>6, <1>4
    <3> QED BY <3>5, <3>7, LenProperties
  <2> QED BY <2>2, <1>2, OneMore
<1>5. ASSUME n # 0, NEW r \in Ranges, Join(s[n], y) = <<r>>, Span(r) = Span(s[n]) \cup Span(y)
      PROVE  /\ t \in Seq(Ranges)
             /\ Spans(t) = Spans(s) \cup Span(y)
             /\ Apart(s) /\ Spans(s) \cap Span(y) = {} => Apart(t)
  <2>1. t = SubSeq(s, 1, n - 1) \o <<r>>
    BY <1>1, <1>5, EmptySeq DEF CoalesceStep
  <2>2. /\ t \in Seq(Ranges) /\ DOMAIN t = 1 .. n /\ t[n] = r
        /\ \A i \in 1 .. n - 1 : t[i] = s[i]
    BY <2>1, <1>1, <1>2, <1>5
  <2>3. Spans(t) = Spans(s) \cup Span(y)
    BY <2>2, <1>2, <1>5 DEF Spans
  <2>4. ASSUME Apart(s), Spans(s) \cap Span(y) = {} PROVE Apart(t)
    <3>1. \A i \in 1 .. n : Span(s[i]) \cap Span(y) = {}
      BY <2>4, <1>2 DEF Spans
    <3> QED BY <3>1, <2>4, <2>2, <1>2, <1>5 DEF Apart
  <2> QED BY <2>2, <2>3, <2>4
<1> QED BY <1>1, <1>2, <1>3, <1>4, <1>5, JoinFacts

\* The recursive function of Coalesced exists.
LEMMA CoalescedDef ==
  ASSUME NEW s \in Seq(Ranges), NEW acc, acc = Coalesced(s)
  PROVE  /\ acc[0] = <<>>
         /\ \A k \in 1 .. Len(s) : acc[k] = CoalesceStep(acc[k - 1], s[k])
<1>1. PICK n \in Nat : n = Len(s)
  BY LenProperties
<1>2. \A k \in 1 .. n : s[k] \in Ranges
  BY <1>1, ElementOfSeq
<1>3. \A k \in 1 .. n : \A a \in Seq(Ranges) : CoalesceStep(a, s[k]) \in Seq(Ranges)
  BY <1>2, CoalesceStepFacts
<1>4. PICK step : step = [x \in (1 .. n) \X Seq(Ranges) |-> CoalesceStep(x[2], s[x[1]])]
  BY Zenon
<1>5. step \in [(1 .. n) \X Seq(Ranges) -> Seq(Ranges)]
  BY <1>3, <1>4, ZenonT(30)
<1>6. \A k \in 1 .. n : \A a \in Seq(Ranges) : step[<<k, a>>] = CoalesceStep(a, s[k])
  BY <1>4
<1>7. <<>> \in Seq(Ranges)
  BY EmptySeq
<1>8. PICK f \in [0 .. n -> Seq(Ranges)] :
        f[0] = <<>> /\ \A k \in 1 .. n : f[k] = step[<<k, f[k - 1]>>]
  <2>1. Computable(n, Seq(Ranges), <<>>, step)
    BY <1>5, <1>7, RecursionUpTo, ZenonT(30)
  <2> QED BY <2>1, Zenon DEF Computable
<1> DEFINE Def(g) == g = [k \in 0 .. n |-> IF k = 0 THEN <<>> ELSE CoalesceStep(g[k - 1], s[k])]
<1>9. ASSUME NEW k \in 1 .. n PROVE f[k] = CoalesceStep(f[k - 1], s[k])
  <2>1. k - 1 \in 0 .. n /\ f[k - 1] \in Seq(Ranges)
    OBVIOUS
  <2> QED BY <2>1, <1>6, <1>8, ZenonT(30)
<1>10. Def(f)
  BY <1>8, <1>9
<1>11. acc = CHOOSE g : Def(g)
  BY <1>1 DEF Coalesced
<1>12. Def(acc)
  <2> HIDE DEF Def
  <2> QED BY <1>10, <1>11, ZenonT(30)
<1> QED BY <1>1, <1>12

\* However many ranges coalesce has met, it holds their frames, each once.
LEMMA CoalescedFacts ==
  ASSUME NEW s \in Seq(Ranges), NEW t, t = Coalesced(s)[Len(s)]
  PROVE  t \in Seq(Ranges) /\ Spans(t) = Spans(s) /\ (Apart(s) => Apart(t))
<1>1. PICK n \in Nat : n = Len(s)
  BY LenProperties
<1>2. DOMAIN s = 1 .. n /\ \A k \in 1 .. n : s[k] \in Ranges
  BY <1>1, LenProperties, ElementOfSeq
<1>3. PICK acc : acc = Coalesced(s)
  OBVIOUS
<1>4. acc[0] = <<>> /\ \A k \in 1 .. n : acc[k] = CoalesceStep(acc[k - 1], s[k])
  BY <1>1, <1>3, CoalescedDef
<1> DEFINE Met(k) == UNION {Span(s[i]) : i \in 1 .. k}
           Holds(k) == /\ acc[k] \in Seq(Ranges) /\ Spans(acc[k]) = Met(k)
                       /\ Apart(s) => Apart(acc[k])
           T == {k \in 0 .. n : Holds(k)}
<1>5. 0 \in T
  <2>1. acc[0] \in Seq(Ranges) /\ Len(acc[0]) = 0
    BY <1>4, EmptySeq
  <2>2. DOMAIN acc[0] = {}
    BY <2>1, LenProperties
  <2> QED BY <2>1, <2>2 DEF Spans, Apart
<1>6. ASSUME NEW k \in 1 .. n, k - 1 \in T PROVE k \in T
  <2>1. PICK a : a = acc[k - 1]
    OBVIOUS
  <2>2. a \in Seq(Ranges) /\ Spans(a) = Met(k - 1) /\ (Apart(s) => Apart(a))
    BY <1>6, <2>1
  <2>3. acc[k] = CoalesceStep(a, s[k]) /\ s[k] \in Ranges
    BY <1>2, <1>4, <2>1
  <2>4. Met(k) = Met(k - 1) \cup Span(s[k])
    OBVIOUS
  <2>5. Apart(s) => Met(k - 1) \cap Span(s[k]) = {}
    BY <1>2 DEF Apart
  <2> HIDE DEF Met
  <2>6. /\ acc[k] \in Seq(Ranges) /\ Spans(acc[k]) = Spans(a) \cup Span(s[k])
        /\ Apart(a) /\ Spans(a) \cap Span(s[k]) = {} => Apart(acc[k])
    BY <2>2, <2>3, CoalesceStepFacts, ZenonT(30)
  <2>7. Holds(k)
    BY <2>2, <2>4, <2>5, <2>6
  <2> QED BY <2>7
<1>7. T = 0 .. n
  <2>1. T \in SUBSET (0 .. n)
    OBVIOUS
  <2> HIDE DEF T
  <2> QED BY ONLY <2>1, <1>5, <1>6, InductionUpTo, n \in Nat, SMTT(30)
<1>8. Holds(n)
  <2> HIDE DEF Holds
  <2> QED BY <1>7
<1>9. t = acc[n] /\ Met(n) = Spans(s)
  BY <1>1, <1>2, <1>3 DEF Spans
<1> HIDE DEF Met
<1> QED BY <1>8, <1>9

\* coallesce neither loses nor doubles a frame, whatever ranges it begins with.
LEMMA CoallesceFacts ==
  ASSUME NEW s \in Seq(Ranges), NEW t, t = Coallesce(s)
  PROVE  t \in Seq(Ranges) /\ Spans(t) = Spans(s) /\ (Apart(s) => Apart(t))
<1>1. PICK q : q = Sorted(s)
  OBVIOUS
<1>2. q \in Seq(Ranges) /\ Len(q) = Len(s) /\ Spans(q) = Spans(s) /\ (Apart(s) => Apart(q))
  BY <1>1, SortedFacts
<1>3. PICK j : j = Coalesced(q)[Len(q)]
  OBVIOUS
<1>4. j \in Seq(Ranges) /\ Spans(j) = Spans(q) /\ (Apart(q) => Apart(j))
  BY <1>2, <1>3, CoalescedFacts
<1>5. PICK S : S = {i \in DOMAIN j : j[i].start # j[i].end}
  BY ZenonT(30)
<1>6. t = Filtered(j, S)
  BY <1>1, <1>2, <1>3, <1>5, ZenonT(30) DEF Coallesce
<1>7. S \in SUBSET DOMAIN j /\ \A i \in (DOMAIN j) \ S : j[i].start = j[i].end
  BY <1>5
<1>8. t \in Seq(Ranges) /\ Spans(t) = Spans(j) /\ (Apart(j) => Apart(t))
  BY <1>4, <1>6, <1>7, FilteredRanges
<1> QED BY <1>2, <1>4, <1>8
-----------------------------------------------------------------------------
(* The frame allocator *)

\* The heap's frames lie below the region being read, and both below the regions
\* that are still to be read.
HeapBelow ==
  /\ \A h \in heap : \A j \in memory_map_iter + 1 .. Len(memory_map) : h < memory_map[j].start
  /\ current_region # <<>> =>
       /\ \A h \in heap : h < current_region[1].start
       /\ \A j \in memory_map_iter + 1 .. Len(memory_map) :
            current_region[1].end <= memory_map[j].start

FrameInv ==
  /\ TypeOK /\ HeapBelow
  /\ phase # "smart" => memory_ranges = <<>> /\ handed = {}
  /\ FramesHaveOneOwner

MapRegions == [start : Nat, end : Nat, usable : BOOLEAN]

\* The regions of the map, in order.
LEMMA MapFacts ==
  ASSUME TypeOK
  PROVE  /\ memory_map \in Seq(MapRegions) /\ Len(memory_map) \in Nat
         /\ DOMAIN memory_map = 1 .. Len(memory_map)
         /\ \A i \in 1 .. Len(memory_map) :
              /\ memory_map[i] \in MapRegions
              /\ memory_map[i].start \in Nat /\ memory_map[i].end \in Nat
              /\ memory_map[i].start < memory_map[i].end
         /\ \A i, j \in 1 .. Len(memory_map) :
              i < j => memory_map[i].end <= memory_map[j].start
         /\ memory_map_iter \in Nat /\ memory_map_iter <= Len(memory_map)
<1>1. memory_map \in MemoryMaps /\ memory_map \in Seq(MapRegions)
  BY MapAssumption DEF TypeOK, MapRegions
<1>2. Len(memory_map) \in Nat /\ DOMAIN memory_map = 1 .. Len(memory_map)
  BY <1>1, LenProperties
<1>3. \A i \in 1 .. Len(memory_map) : memory_map[i] \in MapRegions
  BY <1>1, ElementOfSeq
<1>4. \A i \in 1 .. Len(memory_map) : memory_map[i].start \in Nat /\ memory_map[i].end \in Nat
  BY <1>3 DEF MapRegions
<1>5. \A i \in DOMAIN memory_map : memory_map[i].start < memory_map[i].end
  BY <1>1, MapAssumption
<1>6. \A i, j \in DOMAIN memory_map : i < j => memory_map[i].end <= memory_map[j].start
  BY <1>1, MapAssumption
<1>7. memory_map_iter \in Nat /\ memory_map_iter <= Len(memory_map)
  BY <1>2 DEF TypeOK
<1> QED BY <1>1, <1>2, <1>3, <1>4, <1>5, <1>6, <1>7

\* The region being read and the free ranges are ranges.
LEMMA RangeFacts ==
  ASSUME TypeOK
  PROVE  /\ current_region # <<>> =>
              /\ Len(current_region) = 1 /\ current_region[1] \in Ranges
              /\ current_region[1].start \in Nat /\ current_region[1].end \in Nat
              /\ current_region[1].start <= current_region[1].end
         /\ Len(memory_ranges) \in Nat /\ DOMAIN memory_ranges = 1 .. Len(memory_ranges)
         /\ \A i \in DOMAIN memory_ranges : memory_ranges[i] \in Ranges
         /\ \A f \in handed : f.start \in Nat /\ f.size \in Nat \ {0}
<1>1. current_region # <<>> => Len(current_region) = 1 /\ current_region[1] \in Ranges
  <2> SUFFICES ASSUME current_region # <<>>
               PROVE  Len(current_region) = 1 /\ current_region[1] \in Ranges
    OBVIOUS
  <2>1. current_region \in Seq(Ranges) /\ Len(current_region) <= 1
    BY DEF TypeOK
  <2>2. Len(current_region) \in Nat \ {0}
    BY <2>1, EmptySeq, ZenonT(30)
  <2>3. PICK n : n = Len(current_region)
    BY Zenon
  <2>4. n = 1
    BY <2>1, <2>2, <2>3
  <2> QED BY <2>1, <2>3, <2>4, ElementOfSeq
<1>2. Len(memory_ranges) \in Nat /\ DOMAIN memory_ranges = 1 .. Len(memory_ranges)
  BY LenProperties DEF TypeOK
<1>3. \A i \in DOMAIN memory_ranges : memory_ranges[i] \in Ranges
  BY <1>2, ElementOfSeq DEF TypeOK
<1>4. \A f \in handed : f.start \in Nat /\ f.size \in Nat \ {0}
  BY MapAssumption, Zenon DEF TypeOK
<1> QED BY <1>1, <1>2, <1>3, <1>4, SpanFacts

\* What SmartFrameAllocator::init makes of the regions left.
LEMMA HandOver ==
  ASSUME TypeOK, SmartInit
  PROVE  /\ memory_ranges' \in Seq(Ranges)
         /\ HeapBelow => Apart(memory_ranges') /\ heap \cap Spans(memory_ranges') = {}
<1> DEFINE S == {i \in memory_map_iter + 1 .. Len(memory_map) : ~memory_map[i].usable}
<1>1. S \in SUBSET DOMAIN memory_map
  BY MapFacts
<1>2. PICK rest : rest = Filtered(memory_map, S)
  BY ZenonT(30)
<1>3. rest \in Seq(MapRegions) /\ Rearranges(rest, memory_map, S)
  BY <1>1, <1>2, MapFacts, FilteredFacts
<1>4. PICK n \in Nat : n = Len(rest) /\ DOMAIN rest = 1 .. n
  BY <1>3, LenProperties
<1>5. PICK order \in [1 .. n -> S] :
        /\ \A k \in 1 .. n : rest[k] = memory_map[order[k]]
        /\ \A k, l \in 1 .. n : k # l => order[k] # order[l]
  BY <1>3, <1>4 DEF Rearranges
<1>6. PICK hand : hand = [i \in DOMAIN rest |-> Range0(rest[i].start, rest[i].end)]
  BY Zenon
<1>7. ASSUME NEW k \in 1 .. n
      PROVE  /\ order[k] \in memory_map_iter + 1 .. Len(memory_map)
             /\ hand[k] \in Ranges
             /\ hand[k].start = memory_map[order[k]].start
             /\ hand[k].end = memory_map[order[k]].end
  <2>1. order[k] \in memory_map_iter + 1 .. Len(memory_map)
    OBVIOUS
  <2>2. /\ memory_map[order[k]].start \in Nat /\ memory_map[order[k]].end \in Nat
        /\ memory_map[order[k]].start < memory_map[order[k]].end
    BY <2>1, MapFacts
  <2>3. hand[k] = Range0(memory_map[order[k]].start, memory_map[order[k]].end)
    BY <1>4, <1>5, <1>6
  <2> QED BY <2>1, <2>2, <2>3, SpanFacts
<1>8. hand \in Seq(Ranges) /\ Len(hand) = n
  BY <1>4, <1>6, <1>7
<1>9. memory_ranges' = hand \o current_region
  BY <1>2, <1>6, ZenonT(30) DEF SmartInit
<1>10. memory_ranges' \in Seq(Ranges)
  BY <1>8, <1>9, ConcatProperties DEF TypeOK
<1> HIDE DEF S
<1> SUFFICES ASSUME HeapBelow
             PROVE  Apart(memory_ranges') /\ heap \cap Spans(memory_ranges') = {}
  BY <1>10
<1>11. PICK t : t = memory_ranges'
  OBVIOUS
<1>12. ASSUME NEW k \in 1 .. n
       PROVE  /\ heap \cap Span(hand[k]) = {}
              /\ current_region # <<>> => Span(current_region[1]) \cap Span(hand[k]) = {}
  <2>1. \A h \in heap : h < hand[k].start
    BY <1>7 DEF HeapBelow
  <2>2. current_region # <<>> => current_region[1].end <= hand[k].start
    BY <1>7 DEF HeapBelow
  <2> QED BY <1>7, <2>1, <2>2, SpanFacts, RangeFacts
<1>13. ASSUME NEW k \in 1 .. n, NEW l \in 1 .. n, k # l
       PROVE  Span(hand[k]) \cap Span(hand[l]) = {}
  <2>1. order[k] \in 1 .. Len(memory_map) /\ order[l] \in 1 .. Len(memory_map)
    BY <1>7, MapFacts
  <2>2. order[k] < order[l] \/ order[l] < order[k]
    BY <1>5, <1>13, <2>1
  <2>3. hand[k].end <= hand[l].start \/ hand[l].end <= hand[k].start
    BY <2>1, <2>2, <1>7, MapFacts, ZenonT(30)
  <2> QED BY <2>3, <1>7, SpansApart
<1>14. CASE current_region = <<>>
  <2>1. t = hand
    BY <1>8, <1>9, <1>11, <1>14, ConcatEmptySeq
  <2>2. DOMAIN t = 1 .. n
    BY <2>1, <1>8, LenProperties
  <2> QED BY <2>1, <2>2, <1>11, <1>12, <1>13 DEF Apart, Spans
<1>15. CASE current_region # <<>>
  <2>1. PICK c : c = current_region[1]
    OBVIOUS
  <2>2. DOMAIN t = 1 .. n + 1 /\ t[n + 1] = c /\ \A k \in 1 .. n : t[k] = hand[k]
    <3>1. t \in Seq(Ranges) /\ Len(t) = n + 1
      BY <1>8, <1>9, <1>10, <1>11, <1>15, RangeFacts, ConcatProperties DEF TypeOK
    <3>2. \A k \in 1 .. n + 1 : t[k] = IF k <= n THEN hand[k] ELSE current_region[k - n]
      BY <1>8, <1>9, <1>11, <1>15, RangeFacts, ConcatProperties DEF TypeOK
    <3> QED BY <3>1, <3>2, <2>1, LenProperties
  <2>3. heap \cap Span(c) = {} /\ \A k \in 1 .. n : Span(c) \cap Span(hand[k]) = {}
    BY <2>1, <1>12, <1>15, RangeFacts, SpanFacts DEF HeapBelow
  <2>4. DOMAIN hand = 1 .. n
    BY <1>8, LenProperties
  <2>5. /\ Spans(t) = Spans(hand) \cup Span(c)
        /\ Apart(hand) /\ Spans(hand) \cap Span(c) = {} => Apart(t)
    BY <2>2, <2>4, OneMore
  <2>6. heap \cap Spans(hand) = {} /\ Spans(hand) \cap Span(c) = {}
    BY <2>3, <2>4, <1>12 DEF Spans
  <2>7. Apart(hand)
    BY <2>4, <1>13 DEF Apart
  <2> QED BY <2>3, <2>5, <2>6, <2>7, <1>11
<1> QED BY <1>14, <1>15

\* The frames of a set of frames, and of a sequence of ranges.
SpanOf(H) == UNION {FrameSpan(f) : f \in H}

\* No frame has two owners, in terms of any heap, frames handed out and ranges.
OneOwner(h, H, s) ==
  /\ h \cap (SpanOf(H) \cup Spans(s)) = {}
  /\ SpanOf(H) \cap Spans(s) = {}
  /\ \A f, g \in H : f # g => FrameSpan(f) \cap FrameSpan(g) = {}
  /\ Apart(s)

\* FramesHaveOneOwner, as a relation of the allocator's three kinds of frames.
LEMMA OwnerDef ==
  /\ FramesHaveOneOwner <=> OneOwner(heap, handed, memory_ranges)
  /\ FramesHaveOneOwner' <=> OneOwner(heap', handed', memory_ranges')
  /\ FreeFrames = Spans(memory_ranges) /\ FreeFrames' = Spans(memory_ranges')
  /\ HandedFrames = SpanOf(handed) /\ HandedFrames' = SpanOf(handed')
BY DEF FramesHaveOneOwner, OneOwner, FreeFrames, Spans, HandedFrames, SpanOf, Apart

\* allocate_frame takes the first frame of a range.
LEMMA TakeFrame ==
  ASSUME TypeOK, AllocateFrame(1)
  PROVE  \E x \in Nat :
           /\ handed' = handed \cup {[start |-> x, size |-> 1]}
           /\ FrameSpan([start |-> x, size |-> 1]) = {x}
           /\ Spans(memory_ranges) = Spans(memory_ranges') \cup {x}
           /\ Apart(memory_ranges) => /\ x \notin Spans(memory_ranges')
                                      /\ Apart(memory_ranges')
<1>1. PICK i \in DOMAIN memory_ranges :
        /\ memory_ranges[i].start + 1 <= memory_ranges[i].end
        /\ memory_ranges' = [memory_ranges EXCEPT ![i].start = @ + 1]
        /\ handed' = handed \cup {[start |-> memory_ranges[i].start - (memory_ranges[i].start % 1),
                                   size |-> 1]}
  BY Zenon DEF AllocateFrame
<1>2. PICK r : r = memory_ranges[i]
  OBVIOUS
<1>3. r \in Ranges /\ r.start \in Nat /\ r.end \in Nat /\ r.start + 1 <= r.end
  BY <1>1, <1>2, RangeFacts, SpanFacts
<1>4. PICK x : x = r.start
  OBVIOUS
<1>5. x \in Nat /\ x - (x % 1) = x
  BY <1>3, <1>4
<1>6. PICK q : q = [r EXCEPT !.start = @ + 1]
  BY Zenon
<1>7. q \in Ranges /\ q.start = x + 1 /\ q.end = r.end
  BY <1>3, <1>4, <1>6 DEF Ranges
<1>8. Span(r) = Span(q) \cup {x} /\ x \notin Span(q)
  BY <1>3, <1>4, <1>7, SpanFacts
<1>9. PICK t : t = memory_ranges'
  OBVIOUS
<1>10. /\ DOMAIN t = DOMAIN memory_ranges /\ t[i] = q
       /\ \A j \in DOMAIN t : j # i => t[j] = memory_ranges[j]
  BY <1>1, <1>2, <1>6, <1>9
<1>11. Spans(memory_ranges) = Spans(t) \cup {x}
  BY <1>2, <1>8, <1>10 DEF Spans
<1>12. ASSUME Apart(memory_ranges) PROVE x \notin Spans(t) /\ Apart(t)
  <2>1. \A j \in DOMAIN t : j # i => Span(r) \cap Span(t[j]) = {}
    BY <1>2, <1>10, <1>12 DEF Apart
  <2>2. \A j \in DOMAIN t : x \notin Span(t[j])
    BY <2>1, <1>8, <1>10
  <2>3. x \notin Spans(t)
    BY <2>2 DEF Spans
  <2>4. Apart(t)
    BY <2>1, <1>8, <1>10, <1>12 DEF Apart
  <2> QED BY <2>3, <2>4
<1>13. handed' = handed \cup {[start |-> x, size |-> 1]}
  BY <1>1, <1>2, <1>4, <1>5
<1>14. FrameSpan([start |-> x, size |-> 1]) = {x}
  BY <1>5 DEF FrameSpan
<1> QED BY <1>5, <1>9, <1>11, <1>12, <1>13, <1>14

\* deallocate_frame gives the frames of f back.
LEMMA GiveFrame ==
  ASSUME TypeOK, NEW f \in handed, DeallocateFrame(f)
  PROVE  /\ memory_ranges' \in Seq(Ranges)
         /\ Spans(memory_ranges') = Spans(memory_ranges) \cup FrameSpan(f)
         /\ Apart(memory_ranges) /\ FrameSpan(f) \cap Spans(memory_ranges) = {}
              => Apart(memory_ranges')
<1>1. PICK r : r = Range0(f.start, f.start + f.size)
  OBVIOUS
<1>2. f.start \in Nat /\ f.size \in Nat \ {0}
  BY RangeFacts
<1>3. r \in Ranges /\ r.start = f.start /\ r.end = f.start + f.size
  BY <1>1, <1>2, SpanFacts
<1>4. Span(r) = FrameSpan(f)
  <2>1. Span(r) = r.start .. r.end - 1 /\ FrameSpan(f) = f.start .. f.start + f.size - 1
    BY Zenon DEF Span, FrameSpan
  <2> QED BY <2>1, <1>2, <1>3
<1>5. PICK n \in Nat : n = Len(memory_ranges) /\ DOMAIN memory_ranges = 1 .. n
  BY RangeFacts, Zenon
<1>6. PICK s : s = Append(memory_ranges, r)
  BY Zenon
<1>7. s \in Seq(Ranges) /\ Len(s) = n + 1 /\ s[n + 1] = r
      /\ \A i \in 1 .. n : s[i] = memory_ranges[i]
  BY <1>3, <1>5, <1>6, AppendProperties DEF TypeOK
<1>8. DOMAIN s = 1 .. n + 1
  BY <1>7, LenProperties
<1>9. /\ Spans(s) = Spans(memory_ranges) \cup Span(r)
      /\ Apart(memory_ranges) /\ Spans(memory_ranges) \cap Span(r) = {} => Apart(s)
  BY <1>5, <1>7, <1>8, OneMore
<1>10. memory_ranges' = Coallesce(s)
  BY <1>1, <1>6 DEF DeallocateFrame
<1>11. PICK t : t = memory_ranges'
  OBVIOUS
<1>12. t \in Seq(Ranges) /\ Spans(t) = Spans(s) /\ (Apart(s) => Apart(t))
  BY <1>7, <1>10, <1>11, CoallesceFacts
<1> QED BY <1>4, <1>9, <1>11, <1>12

\* Both stages keep the types of their state, for pages of any sizes.
LEMMA FrameTypes ==
  ASSUME TypeOK, [Next]_vars
  PROVE  TypeOK'
<1>1. CASE BootFrame
  <2>1. PICK c : c = [current_region[1] EXCEPT !.start = @ + 1]
    BY ZenonT(30)
  <2>2. c \in Ranges /\ current_region[1].start \in Nat
    BY <1>1, <2>1, RangeFacts DEF BootFrame, Ranges
  <2>3. current_region' = <<c>> /\ heap' \subseteq Nat
    BY <1>1, <2>1, <2>2 DEF BootFrame, TypeOK
  <2>4. current_region' \in Seq(Ranges) /\ Len(current_region') <= 1
    BY ONLY <2>2, <2>3, SMTT(30)
  <2> QED BY <1>1, <2>3, <2>4 DEF BootFrame, TypeOK
<1>2. CASE BootRegionUsedUp
  BY <1>2, EmptySeq DEF BootRegionUsedUp, TypeOK
<1>3. CASE BootNextRegion
  <2>1. PICK k : k = memory_map_iter + 1
    OBVIOUS
  <2>2. k \in 1 .. Len(memory_map) /\ memory_map_iter' = k
    BY <1>3, <2>1, MapFacts DEF BootNextRegion
  <2>3. PICK c : c = Range0(memory_map[k].start, memory_map[k].end)
    OBVIOUS
  <2>4. c \in Ranges
    BY <2>2, <2>3, MapFacts, SpanFacts
  <2>5. current_region' = <<c>> \/ current_region' = <<>>
    BY <1>3, <2>2, <2>3 DEF BootNextRegion
  <2>6. current_region' \in Seq(Ranges) /\ Len(current_region') <= 1
    <3>1. CASE current_region' = <<c>>
      BY ONLY <3>1, <2>4, SMTT(30)
    <3>2. CASE current_region' = <<>>
      BY ONLY <3>2, SMTT(30)
    <3> QED BY <3>1, <3>2, <2>5
  <2> QED BY <1>3, <2>2, <2>6, MapFacts DEF BootNextRegion, TypeOK
<1>4. CASE BootExhausted
  BY <1>4 DEF BootExhausted, TypeOK
<1>5. CASE SmartInit
  BY <1>5, HandOver, ZenonT(30) DEF SmartInit, TypeOK
<1>6. ASSUME NEW S \in Sizes, AllocateFrame(S) PROVE TypeOK'
  <2>1. PICK i \in DOMAIN memory_ranges :
          /\ memory_ranges[i].start + S <= memory_ranges[i].end
          /\ memory_ranges' = [memory_ranges EXCEPT ![i].start = @ + S]
          /\ handed' = handed \cup {[start |-> memory_ranges[i].start - (memory_ranges[i].start % S),
                                     size |-> S]}
    BY <1>6, ZenonT(30) DEF AllocateFrame
  <2>2. PICK r : r = memory_ranges[i]
    OBVIOUS
  <2>3. S \in Nat \ {0} /\ r \in Ranges /\ r.start \in Nat /\ r.end \in Nat /\ r.start + S <= r.end
    BY <2>1, <2>2, MapAssumption, RangeFacts, SpanFacts
  <2>4. r.start - (r.start % S) \in Nat
    BY <2>3
  <2>5. PICK q : q = [r EXCEPT !.start = @ + S]
    BY Zenon
  <2>6. q \in Ranges
    BY <2>3, <2>5 DEF Ranges
  <2>7. memory_ranges' = [memory_ranges EXCEPT ![i] = q]
    BY <2>1, <2>2, <2>5
  <2>8. memory_ranges' \in Seq(Ranges)
    BY <2>6, <2>7 DEF TypeOK
  <2>9. handed' \subseteq [start : Nat, size : Sizes]
    BY <2>1, <2>2, <2>4 DEF TypeOK
  <2> QED BY <1>6, <2>8, <2>9 DEF AllocateFrame, TypeOK
<1>7. ASSUME NEW f \in handed, DeallocateFrame(f) PROVE TypeOK'
  BY <1>7, GiveFrame DEF DeallocateFrame, TypeOK
<1>8. CASE UNCHANGED vars
  BY <1>8 DEF vars, TypeOK
<1> QED BY <1>1, <1>2, <1>3, <1>4, <1>5, <1>6, <1>7, <1>8 DEF Next, AllocateNone, Panicked

\* While the heap is mapped its frames stay below what is still to be read.
LEMMA HeapBelowStep ==
  ASSUME TypeOK, HeapBelow, [Next]_vars
  PROVE  HeapBelow'
<1>1. CASE BootFrame
  <2>1. PICK c : c = current_region[1]
    OBVIOUS
  <2>2. /\ c.start \in Nat /\ c.end \in Nat /\ c.start + 1 <= c.end
        /\ \A h \in heap : h < c.start
        /\ \A j \in memory_map_iter + 1 .. Len(memory_map) : c.end <= memory_map[j].start
    BY <1>1, <2>1, RangeFacts DEF BootFrame, HeapBelow
  <2>3. current_region'[1].start = c.start + 1 /\ current_region'[1].end = c.end
    BY <1>1, <2>1, RangeFacts DEF BootFrame, Ranges
  <2>4. heap' = heap \cup {c.start} /\ UNCHANGED <<memory_map, memory_map_iter>>
    BY <1>1, <2>1 DEF BootFrame
  <2>5. ASSUME NEW h \in heap' PROVE h < c.start + 1 /\ h \in Nat
    <3>1. CASE h \in heap
      <4>1. h \in Nat
        BY <3>1 DEF TypeOK
      <4> QED BY <3>1, <4>1, <2>2
    <3>2. CASE h = c.start
      BY <3>2, <2>2
    <3> QED BY <3>1, <3>2, <2>4
  <2>6. \A j \in memory_map_iter + 1 .. Len(memory_map) : memory_map[j].start \in Nat
    BY MapFacts
  <2> QED BY <2>2, <2>3, <2>4, <2>5, <2>6 DEF HeapBelow
<1>2. CASE BootRegionUsedUp
  BY <1>2 DEF BootRegionUsedUp, HeapBelow
<1>3. CASE BootNextRegion
  <2>1. PICK k : k = memory_map_iter + 1
    OBVIOUS
  <2>2. k \in 1 .. Len(memory_map) /\ memory_map_iter' = k /\ UNCHANGED <<memory_map, heap>>
    BY <1>3, <2>1, MapFacts DEF BootNextRegion
  <2>3. PICK c : c = Range0(memory_map[k].start, memory_map[k].end)
    OBVIOUS
  <2>4. c.start = memory_map[k].start /\ c.end = memory_map[k].end
    BY <2>3 DEF Range0
  <2>5. current_region' = <<c>> \/ current_region' = <<>>
    BY <1>3, <2>2, <2>3 DEF BootNextRegion
  <2>6. \A j \in k + 1 .. Len(memory_map) :
          /\ j \in memory_map_iter + 1 .. Len(memory_map) /\ j \in 1 .. Len(memory_map) /\ k < j
    BY <2>1, <2>2, MapFacts
  <2>7. \A h \in heap : \A j \in k + 1 .. Len(memory_map) : h < memory_map[j].start
    BY <2>6 DEF HeapBelow
  <2>8. \A h \in heap : h < c.start
    BY <2>1, <2>2, <2>4, MapFacts DEF HeapBelow
  <2>9. \A j \in k + 1 .. Len(memory_map) : c.end <= memory_map[j].start
    BY <2>2, <2>4, <2>6, MapFacts
  <2>10. current_region' # <<>> => current_region'[1] = c
    BY ONLY <2>5, SMTT(30)
  <2> QED BY <2>2, <2>7, <2>8, <2>9, <2>10 DEF HeapBelow
<1>4. CASE UNCHANGED <<memory_map, memory_map_iter, current_region, heap>>
  BY <1>4 DEF HeapBelow
<1> QED BY <1>1, <1>2, <1>3, <1>4, ZenonT(30)
        DEF Next, vars, BootExhausted, SmartInit, AllocateFrame, AllocateNone, DeallocateFrame,
            Panicked

\* Owners change one frame at a time, and no frame comes or goes.
LEMMA OwnerStep ==
  ASSUME Sizes = {1}, FrameInv, [Next]_vars
  PROVE  /\ FramesHaveOneOwner'
         /\ phase # "smart" \/ HandedFrames' \cup FreeFrames' = HandedFrames \cup FreeFrames
<1> USE OwnerDef
<1>0. TypeOK /\ OneOwner(heap, handed, memory_ranges)
  BY DEF FrameInv
<1>1. ASSUME phase = "boot", phase' # "smart", UNCHANGED <<memory_ranges, handed>>
      PROVE  FramesHaveOneOwner'
  <2>1. memory_ranges' = <<>> /\ handed' = {}
    BY <1>1 DEF FrameInv
  <2>2. DOMAIN memory_ranges' = {}
    BY <2>1
  <2> QED BY <2>1, <2>2 DEF OneOwner, SpanOf, Spans, Apart
<1>2. CASE BootFrame \/ BootRegionUsedUp \/ BootNextRegion \/ BootExhausted
  <2>1. phase = "boot" /\ phase' # "smart" /\ UNCHANGED <<memory_ranges, handed>>
    BY <1>2 DEF BootFrame, BootRegionUsedUp, BootNextRegion, BootExhausted
  <2> QED BY <2>1, <1>1
<1>3. CASE SmartInit
  <2>1. phase = "boot" /\ handed' = {} /\ heap' = heap
    BY <1>3, ZenonT(30) DEF SmartInit, FrameInv
  <2>2. Apart(memory_ranges') /\ heap \cap Spans(memory_ranges') = {}
    BY <1>3, HandOver DEF FrameInv
  <2>3. SpanOf(handed') = {}
    BY <2>1 DEF SpanOf
  <2> QED BY <2>1, <2>2, <2>3 DEF OneOwner
<1>4. CASE AllocateFrame(1)
  <2>1. PICK x \in Nat :
          /\ handed' = handed \cup {[start |-> x, size |-> 1]}
          /\ FrameSpan([start |-> x, size |-> 1]) = {x}
          /\ Spans(memory_ranges) = Spans(memory_ranges') \cup {x}
          /\ Apart(memory_ranges) => /\ x \notin Spans(memory_ranges')
                                     /\ Apart(memory_ranges')
    BY <1>0, <1>4, TakeFrame, ZenonT(30)
  <2>2. PICK f : f = [start |-> x, size |-> 1]
    BY ZenonT(30)
  <2>3. heap' = heap
    BY <1>4 DEF AllocateFrame
  <2>4. handed' = handed \cup {f} /\ FrameSpan(f) = {x}
    BY <2>1, <2>2
  <2>5. SpanOf(handed') = SpanOf(handed) \cup {x}
    BY <2>4 DEF SpanOf
  <2>6. \A g \in handed : x \notin FrameSpan(g)
    BY <2>1, <1>0 DEF OneOwner, SpanOf
  <2>7. \A g, h \in handed' : g # h => FrameSpan(g) \cap FrameSpan(h) = {}
    BY <2>4, <2>6, <1>0 DEF OneOwner
  <2>8. OneOwner(heap', handed', memory_ranges')
    BY <2>1, <2>3, <2>5, <2>7, <1>0 DEF OneOwner
  <2> QED BY <2>1, <2>5, <2>8
<1>5. ASSUME NEW f \in handed, DeallocateFrame(f)
      PROVE  /\ OneOwner(heap', handed', memory_ranges')
             /\ HandedFrames' \cup FreeFrames' = HandedFrames \cup FreeFrames
  <2>1. handed' = handed \ {f} /\ heap' = heap
    BY <1>5 DEF DeallocateFrame
  <2>2. FrameSpan(f) \cap Spans(memory_ranges) = {}
    BY <1>0, ZenonT(30) DEF OneOwner, SpanOf
  <2>3. Spans(memory_ranges') = Spans(memory_ranges) \cup FrameSpan(f) /\ Apart(memory_ranges')
    BY <2>2, <1>0, <1>5, GiveFrame DEF OneOwner
  <2>4. SpanOf(handed) = SpanOf(handed') \cup FrameSpan(f)
    BY <2>1 DEF SpanOf
  <2>5. SpanOf(handed') \cap FrameSpan(f) = {}
    BY <2>1, <1>0 DEF OneOwner, SpanOf
  <2>6. \A g, h \in handed' : g # h => FrameSpan(g) \cap FrameSpan(h) = {}
    BY <2>1, <1>0 DEF OneOwner
  <2>7. OneOwner(heap', handed', memory_ranges')
    BY <2>1, <2>3, <2>4, <2>5, <2>6, <1>0, ZenonT(30) DEF OneOwner
  <2> QED BY <2>3, <2>4, <2>7
<1>6. CASE UNCHANGED vars
  <2>1. UNCHANGED <<heap, handed, memory_ranges>>
    BY <1>6 DEF vars
  <2> QED BY <2>1, <1>0
<1>7. ASSUME NEW S \in Sizes, AllocateFrame(S) PROVE AllocateFrame(1)
  BY <1>7
<1>8. SmartInit \/ BootFrame \/ BootRegionUsedUp \/ BootNextRegion \/ BootExhausted
        => phase # "smart"
  BY Zenon DEF SmartInit, BootFrame, BootRegionUsedUp, BootNextRegion, BootExhausted
<1> QED BY <1>2, <1>3, <1>4, <1>5, <1>6, <1>7, <1>8, ZenonT(30) DEF Next, AllocateNone, Panicked

\* Before the second stage is set up it owns nothing.
LEMMA StageStep ==
  ASSUME FrameInv, [Next]_vars
  PROVE  phase' # "smart" => memory_ranges' = <<>> /\ handed' = {}
<1>1. CASE UNCHANGED vars
  BY <1>1 DEF vars, FrameInv
<1> QED BY <1>1, ZenonT(30)
        DEF FrameInv, Next, BootFrame, BootRegionUsedUp, BootNextRegion, BootExhausted,
            SmartInit, AllocateFrame, AllocateNone, DeallocateFrame, Panicked

\* The frame allocator's invariant, for the one size of page the kernel asks for.
LEMMA FrameInvariant ==
  ASSUME Sizes = {1}
  PROVE  Spec => []FrameInv
<1>1. ASSUME Init PROVE FrameInv
  <2>1. memory_ranges = <<>> /\ DOMAIN memory_ranges = {}
    BY <1>1 DEF Init
  <2>2. FramesHaveOneOwner
    BY <1>1, <2>1, OwnerDef DEF Init, OneOwner, SpanOf, Spans, Apart
  <2>3. Len(memory_map) \in Nat
    BY <1>1, MapAssumption, LenProperties DEF Init
  <2>4. TypeOK
    BY <1>1, <2>3, EmptySeq DEF Init, TypeOK
  <2>5. HeapBelow
    BY <1>1 DEF Init, HeapBelow
  <2> QED BY <1>1, <2>2, <2>4, <2>5 DEF FrameInv, Init
<1>2. FrameInv /\ [Next]_vars => FrameInv'
  BY FrameTypes, HeapBelowStep, OwnerStep, StageStep DEF FrameInv
<1> QED BY <1>1, <1>2, PTL DEF Spec
-----------------------------------------------------------------------------
(* Theorems *)

\* Whatever the memory map, no frame has two owners: those of the heap, those handed
\* out and those still free are apart, when all frames asked for are of 4 KiB.
THEOREM FramesOwnedOnce ==
  ASSUME Sizes = {1}
  PROVE  Spec => []FramesHaveOneOwner
<1>1. FrameInv => FramesHaveOneOwner
  BY DEF FrameInv
<1> QED BY <1>1, FrameInvariant, PTL

\* allocate_frame and deallocate_frame move frames between the free ranges and the
\* frames handed out: sorting, joining and dropping ranges loses and invents none.
THEOREM FramesAreConserved ==
  ASSUME Sizes = {1}
  PROVE  Spec => FramesConserved
<1>1. FrameInv /\ [Next]_vars =>
        [phase = "smart" => HandedFrames' \cup FreeFrames' = HandedFrames \cup FreeFrames]_vars
  BY OwnerStep
<1> QED BY <1>1, FrameInvariant, PTL DEF Spec, FramesConserved
=============================================================================
