----------------------------- MODULE HeapProofs -----------------------------
(***************************************************************************)
(* The kernel's two allocators, for a heap of any length and any classes   *)
(* and layouts: no two owners of memory overlap, pointers are aligned, and *)
(* memory is lost in the one way each allocator has.                       *)
(***************************************************************************)
EXTENDS MCHeap, FiniteSetTheorems, SequenceTheorems, WellFoundedInduction, TLAPS

\* What a leaf may take of each prover: seconds of wall time, which a busy machine
\* stretches.
USE SMTT(30), ZenonT(30)

\* The lock is taken during a request of a task, with interrupts masked.
LockInv == /\ locked <=> request # "none"
           /\ locked => ~interrupts

\* BlocksDisjoint speaks of blocks as the program sees them; what is inductive is that
\* the units the heap gave away for them do not overlap, which may be one more. A
\* block is aligned to its class, whatever layout it was first asked for with.
ExtentsInv ==
  /\ \A b \in live : /\ Extent(b) \subseteq 0 .. HeapLen - 1 /\ Extent(b) \cap free = {}
                     /\ b.ptr % HeapLayout(b.layout).align = 0
  /\ \A b, c \in live : b # c => Extent(b) \cap Extent(c) = {}
  /\ \A i \in Classes : \A n \in DOMAIN list_heads[i] :
       /\ CachedExtent(i, n) \subseteq 0 .. HeapLen - 1 /\ CachedExtent(i, n) \cap free = {}
       /\ list_heads[i][n] % BLOCK_SIZES[i] = 0
       /\ \A b \in live : CachedExtent(i, n) \cap Extent(b) = {}
       /\ \A j \in Classes : \A m \in DOMAIN list_heads[j] :
            i # j \/ n # m => CachedExtent(i, n) \cap CachedExtent(j, m) = {}

BlockInv == TypeOK /\ LockInv /\ ExtentsInv

\* A region has room for its node.
ListInv ==
  /\ regions \in Seq([start : Nat, size : Nat])
  /\ blocks \subseteq [ptr : Nat, layout : ListLayouts]
  /\ \A i \in DOMAIN regions : regions[i].size >= NodeSize
  /\ RegionsSound

HeapInv == BlockInv /\ ListInv
-----------------------------------------------------------------------------
(* Numbers *)

\* Searches, by list_index, find_region and first fit, find the first of what they
\* look for: a set of naturals has a least element.
LEMMA LeastNatural ==
  ASSUME NEW T \in SUBSET Nat, T # {}
  PROVE  \E n \in T : \A m \in T : n <= m
<1>1. PICK n \in T : \A m \in T : ~(<<m, n>> \in OpToRel(<, Nat))
  BY NatLessThanWellFounded, WFMin, Zenon
<1>2. \A m \in T : <<m, n>> \in OpToRel(<, Nat) <=> m < n
  BY DEF OpToRel
<1>3. \A m \in T : ~(m < n)
  BY <1>1, <1>2, Zenon
<1>4. n \in Nat /\ \A m \in T : m \in Nat
  OBVIOUS
<1>5. \A m \in T : n <= m
  BY <1>3, <1>4
<1> QED BY <1>5

\* Division with remainder.
LEMMA Divide ==
  ASSUME NEW a \in Nat, NEW n \in Nat \ {0}
  PROVE  /\ a \div n \in Nat /\ a % n \in 0 .. n - 1
         /\ a = n * (a \div n) + (a % n)
OBVIOUS

\* A multiple of n.
LEMMA MultipleLeavesNothing ==
  ASSUME NEW q \in Nat, NEW n \in Nat \ {0}
  PROVE  (n * q) % n = 0
OBVIOUS

\* A multiple of the class's size is a multiple of an alignment that divides it.
LEMMA AlignedToDivisor ==
  ASSUME NEW a \in Nat, NEW s \in Nat \ {0}, NEW d \in Nat \ {0}, a % s = 0, s % d = 0
  PROVE  a % d = 0
<1>1. a = s * (a \div s) /\ a \div s \in Nat
  BY Divide
<1>2. s = d * (s \div d) /\ s \div d \in Nat
  BY Divide
<1>3. a = d * ((s \div d) * (a \div s)) /\ (s \div d) * (a \div s) \in Nat
  BY <1>1, <1>2
<1> QED BY <1>3, MultipleLeavesNothing
-----------------------------------------------------------------------------
(* Classes and the heap behind them *)

\* list_index finds the smallest class, if there is one.
LEMMA IndexFound ==
  ASSUME NEW l, ListIndex(l) # {}
  PROVE  /\ Index(l) \in Classes
         /\ BLOCK_SIZES[Index(l)] >= l.size /\ BLOCK_SIZES[Index(l)] >= l.align
<1>1. ListIndex(l) \in SUBSET Nat
  BY BlockAssumption DEF ListIndex, Classes
<1>2. \E i \in ListIndex(l) : \A j \in ListIndex(l) : i <= j
  BY <1>1, LeastNatural
<1>3. Index(l) \in ListIndex(l)
  BY <1>2, Zenon DEF Index
<1> QED BY <1>3 DEF ListIndex

\* What the heap is asked for serves the layout, its alignment too.
LEMMA HeapLayoutServes ==
  ASSUME NEW l \in Layouts
  PROVE  /\ l.size \in Nat \ {0} /\ l.align \in Nat \ {0}
         /\ HeapLayout(l).size \in Nat \ {0} /\ HeapLayout(l).align \in Nat \ {0}
         /\ l.size <= HeapLayout(l).size
         /\ HeapLayout(l).align % l.align = 0
<1>1. l.size \in Nat \ {0} /\ l.align \in Nat \ {0}
  BY BlockAssumption
<1>2. CASE ListIndex(l) = {}
  <2>1. HeapLayout(l) = l
    BY <1>2 DEF HeapLayout
  <2>2. l.align % l.align = 0
    BY <1>1
  <2> QED BY <1>1, <2>1, <2>2
<1>3. CASE ListIndex(l) # {}
  <2>1. HeapLayout(l).size = BLOCK_SIZES[Index(l)] /\ HeapLayout(l).align = BLOCK_SIZES[Index(l)]
    BY <1>3 DEF HeapLayout
  <2>2. BLOCK_SIZES[Index(l)] \in Nat \ {0}
    BY <1>3, IndexFound, BlockAssumption DEF Classes
  <2>3. BLOCK_SIZES[Index(l)] % l.align = 0
    BY <1>3, IndexFound, BlockAssumption DEF Classes
  <2> QED BY <1>1, <1>3, <2>1, <2>2, <2>3, IndexFound
<1> QED BY <1>2, <1>3

\* The heap rounds up, in order.
LEMMA RoundsUp ==
  ASSUME NEW s \in Nat \ {0}, NEW t \in Nat \ {0}
  PROVE  /\ Rounded(s) \in Nat /\ Rounded(s) >= s /\ Rounded(s) >= 2
         /\ s <= t => Rounded(s) <= Rounded(t)
         /\ Rounded(s) # s => s = 1
BY DEF Rounded

\* allocate_first_fit finds a place, if there is one.
LEMMA FirstFitFound ==
  ASSUME NEW l, l.size \in Nat \ {0}, Fits(l) # {}
  PROVE  /\ FirstFit(l) \in 0 .. HeapLen - 1 /\ FirstFit(l) % l.align = 0
         /\ Span(FirstFit(l), Rounded(l.size)) \subseteq free
<1>1. Fits(l) \in SUBSET Nat
  BY BlockAssumption DEF Fits
<1>2. \E a \in Fits(l) : \A b \in Fits(l) : a <= b
  BY <1>1, LeastNatural
<1>3. FirstFit(l) \in Fits(l)
  BY <1>2, Zenon DEF FirstFit
<1>4. PICK from \in 0 .. FirstFit(l), to \in FirstFit(l) + Rounded(l.size) .. HeapLen :
           Hole(from, to)
  BY <1>3 DEF Fits
<1>5. FirstFit(l) \in 0 .. HeapLen - 1 /\ FirstFit(l) % l.align = 0
  BY <1>3 DEF Fits
<1>6. Span(FirstFit(l), Rounded(l.size)) \subseteq from .. to - 1
  BY <1>4, <1>5, BlockAssumption DEF Span, Rounded
<1> QED BY <1>4, <1>5, <1>6 DEF Hole

\* A block is not empty, and its beginning is a block's of every smaller size.
LEMMA SpanFacts ==
  ASSUME NEW p \in Nat, NEW s \in Nat \ {0}, NEW t \in Nat, s <= t
  PROVE  p \in Span(p, s) /\ Span(p, s) \subseteq Span(p, t)
BY DEF Span

\* What a block is made of.
LEMMA ExtentFacts ==
  ASSUME TypeOK, NEW b \in Allocations
  PROVE  /\ b.ptr \in Nat /\ b.layout \in Layouts /\ b.ptr \in Extent(b)
         /\ BlockOf(b) \subseteq Extent(b)
         /\ Span(b.ptr, Rounded(b.layout.size)) \subseteq Extent(b)
         /\ b.ptr \in Span(b.ptr, Rounded(b.layout.size))
<1>1. b.ptr \in Nat /\ b.layout \in Layouts
  BY BlockAssumption DEF Allocations
<1> DEFINE s == b.layout.size
           t == HeapLayout(b.layout).size
<1>2. s \in Nat \ {0} /\ t \in Nat \ {0} /\ s <= t
  BY <1>1, HeapLayoutServes
<1> HIDE DEF s, t
<1>3. Rounded(s) \in Nat \ {0} /\ Rounded(t) \in Nat \ {0} /\ Rounded(s) <= Rounded(t)
      /\ t <= Rounded(t)
  BY <1>2, RoundsUp
<1>4. /\ b.ptr \in Span(b.ptr, Rounded(s))
      /\ Span(b.ptr, Rounded(s)) \subseteq Span(b.ptr, Rounded(t))
      /\ Span(b.ptr, t) \subseteq Span(b.ptr, Rounded(t))
  BY <1>1, <1>2, <1>3, SpanFacts
<1> QED BY <1>1, <1>4 DEF s, t, Extent, BlockOf

\* The same of a cached block.
LEMMA CachedFacts ==
  ASSUME TypeOK, NEW i \in Classes, NEW n \in DOMAIN list_heads[i]
  PROVE  /\ list_heads[i][n] \in 0 .. HeapLen - 1 /\ list_heads[i][n] \in CachedExtent(i, n)
         /\ list_heads[i][n] \in Span(list_heads[i][n], BLOCK_SIZES[i])
         /\ Span(list_heads[i][n], BLOCK_SIZES[i]) \subseteq CachedExtent(i, n)
<1>1. list_heads[i] \in Seq(0 .. HeapLen - 1) /\ BLOCK_SIZES[i] \in Nat \ {0}
  BY BlockAssumption DEF TypeOK, Classes
<1>2. list_heads[i][n] \in 0 .. HeapLen - 1 /\ list_heads[i][n] \in Nat
  BY <1>1, BlockAssumption
<1>3. Rounded(BLOCK_SIZES[i]) \in Nat /\ BLOCK_SIZES[i] <= Rounded(BLOCK_SIZES[i])
  BY <1>1, RoundsUp
<1>4. /\ list_heads[i][n] \in Span(list_heads[i][n], BLOCK_SIZES[i])
      /\ Span(list_heads[i][n], BLOCK_SIZES[i])
           \subseteq Span(list_heads[i][n], Rounded(BLOCK_SIZES[i]))
  BY <1>1, <1>2, <1>3, SpanFacts
<1> QED BY <1>2, <1>4 DEF CachedExtent

\* What is in a list of a type has the type.
LEMMA SeqElement ==
  ASSUME NEW S, NEW s \in Seq(S), NEW i \in DOMAIN s
  PROVE  s[i] \in S
OBVIOUS

\* The head of a list of cached blocks.
LEMMA FirstElement ==
  ASSUME NEW S, NEW s \in Seq(S), s # <<>>
  PROVE  1 \in DOMAIN s /\ Head(s) = s[1] /\ s[1] \in S
<1>1. Len(s) \in Nat \ {0} /\ DOMAIN s = 1 .. Len(s)
  OBVIOUS
<1> QED BY <1>1

HeapTypes == /\ list_heads \in [Classes -> Seq(0 .. HeapLen - 1)]
             /\ free \subseteq 0 .. HeapLen - 1
             /\ live \subseteq Allocations

\* A cached block becomes a live one: it was the first of its list.
LEMMA AllocCachedInv ==
  ASSUME TypeOK, ExtentsInv, NEW l \in Layouts, AllocCached(l)
  PROVE  HeapTypes' /\ ExtentsInv'
<1> DEFINE k == Index(l)
           b0 == [ptr |-> Head(list_heads[k]), layout |-> l]
           Old(i, n) == IF i = k THEN n + 1 ELSE n
<1>1. /\ k \in Classes /\ ListIndex(l) # {} /\ list_heads[k] # <<>>
      /\ list_heads \in [Classes -> Seq(0 .. HeapLen - 1)]
      /\ free' = free /\ live' = live \cup {b0}
      /\ list_heads' = [list_heads EXCEPT ![k] = Tail(@)]
  BY IndexFound DEF AllocCached, Cached, TypeOK
<1>2. /\ 1 \in DOMAIN list_heads[k] /\ Head(list_heads[k]) = list_heads[k][1]
      /\ list_heads[k][1] \in 0 .. HeapLen - 1
  <2>1. list_heads[k] \in Seq(0 .. HeapLen - 1) /\ list_heads[k] # <<>>
    BY <1>1
  <2> QED BY <2>1, FirstElement, Zenon
<1>3. b0 \in Allocations /\ Extent(b0) = CachedExtent(k, 1)
  BY <1>1, <1>2 DEF Allocations, Extent, CachedExtent, HeapLayout
<1>4. b0.ptr % HeapLayout(b0.layout).align = 0
  BY <1>1, <1>2 DEF HeapLayout, ExtentsInv
<1>5. list_heads' \in [Classes -> Seq(0 .. HeapLen - 1)]
  BY <1>1, HeadTailProperties
<1>6. ASSUME NEW i \in Classes, NEW n \in DOMAIN list_heads'[i]
      PROVE  /\ Old(i, n) \in DOMAIN list_heads[i]
             /\ list_heads'[i][n] = list_heads[i][Old(i, n)]
             /\ i = k => Old(i, n) # 1
  <2>1. CASE i = k
    <3>1. list_heads'[k] = Tail(list_heads[k])
      BY <1>1
    <3>2. /\ Len(list_heads[k]) \in Nat \ {0}
          /\ DOMAIN Tail(list_heads[k]) = 1 .. Len(list_heads[k]) - 1
          /\ DOMAIN list_heads[k] = 1 .. Len(list_heads[k])
          /\ \A m \in 1 .. Len(list_heads[k]) - 1 :
               Tail(list_heads[k])[m] = list_heads[k][m + 1]
      BY <1>1
    <3>3. n \in 1 .. Len(list_heads[k]) - 1
      BY <1>6, <2>1, <3>1, <3>2
    <3> QED BY <2>1, <3>1, <3>2, <3>3
  <2>2. CASE i # k
    BY <1>1, <1>6, <2>2
  <2> QED BY <2>1, <2>2
<1>7. \A i \in Classes : \A n \in DOMAIN list_heads'[i] :
        CachedExtent(i, n)' = CachedExtent(i, Old(i, n))
  BY <1>6 DEF CachedExtent
<1>8. \A i \in Classes : \A n \in DOMAIN list_heads'[i] : n \in Nat
  BY <1>5
<1> HIDE DEF b0, k
<1>9. \A b \in live' : /\ Extent(b) \subseteq 0 .. HeapLen - 1 /\ Extent(b) \cap free = {}
                       /\ b.ptr % HeapLayout(b.layout).align = 0
  BY <1>1, <1>2, <1>3, <1>4 DEF ExtentsInv
<1>10. \A b \in live : Extent(b) \cap Extent(b0) = {}
  BY <1>1, <1>2, <1>3 DEF ExtentsInv
<1>11. \A b, c \in live' : b # c => Extent(b) \cap Extent(c) = {}
  BY <1>1, <1>10 DEF ExtentsInv
<1>12. ASSUME NEW i \in Classes, NEW n \in DOMAIN list_heads'[i]
       PROVE  /\ CachedExtent(i, n)' \subseteq 0 .. HeapLen - 1
              /\ CachedExtent(i, n)' \cap free = {}
              /\ list_heads'[i][n] % BLOCK_SIZES[i] = 0
              /\ \A b \in live' : CachedExtent(i, n)' \cap Extent(b) = {}
              /\ \A j \in Classes : \A m \in DOMAIN list_heads'[j] :
                   i # j \/ n # m => CachedExtent(i, n)' \cap CachedExtent(j, m)' = {}
  <2> DEFINE o == Old(i, n)
  <2>1. o \in DOMAIN list_heads[i] /\ list_heads'[i][n] = list_heads[i][o] /\ (i = k => o # 1)
        /\ CachedExtent(i, n)' = CachedExtent(i, o)
    BY <1>6, <1>7
  <2> HIDE DEF o
  <2>2. CachedExtent(i, o) \cap CachedExtent(k, 1) = {}
    BY <1>1, <1>2, <2>1 DEF ExtentsInv
  <2>3. \A b \in live' : CachedExtent(i, n)' \cap Extent(b) = {}
    BY <1>1, <1>3, <2>1, <2>2 DEF ExtentsInv
  <2>4. ASSUME NEW j \in Classes, NEW m \in DOMAIN list_heads'[j], i # j \/ n # m
        PROVE  CachedExtent(i, n)' \cap CachedExtent(j, m)' = {}
    <3>1. i # j \/ o # Old(j, m)
      BY <1>8, <2>4 DEF o
    <3>2. Old(j, m) \in DOMAIN list_heads[j] /\ CachedExtent(j, m)' = CachedExtent(j, Old(j, m))
      BY <1>6, <1>7
    <3> QED BY <2>1, <3>1, <3>2 DEF ExtentsInv
  <2> QED BY <2>1, <2>3, <2>4 DEF ExtentsInv
<1>13. HeapTypes'
  BY <1>1, <1>3, <1>5 DEF HeapTypes, TypeOK
<1>14. ExtentsInv'
  BY <1>1, <1>9, <1>11, <1>12 DEF ExtentsInv
<1> QED BY <1>13, <1>14

\* A new block comes out of the free units.
LEMMA AllocFallbackInv ==
  ASSUME TypeOK, ExtentsInv, NEW l \in Layouts, AllocFallback(l)
  PROVE  HeapTypes' /\ ExtentsInv'
<1> DEFINE a == FirstFit(HeapLayout(l))
           b0 == [ptr |-> a, layout |-> l]
<1>1. /\ free' = free \ Span(a, Rounded(HeapLayout(l).size))
      /\ live' = live \cup {b0} /\ list_heads' = list_heads
  BY DEF AllocFallback
<1>2. /\ a \in 0 .. HeapLen - 1 /\ a % HeapLayout(l).align = 0
      /\ Span(a, Rounded(HeapLayout(l).size)) \subseteq free
  BY FirstFitFound, HeapLayoutServes DEF AllocFallback
<1>3. b0 \in Allocations /\ Extent(b0) = Span(a, Rounded(HeapLayout(l).size))
      /\ b0.ptr % HeapLayout(b0.layout).align = 0
  BY <1>2 DEF Allocations, Extent
<1> HIDE DEF b0, a
<1>4. /\ free' = free \ Extent(b0) /\ Extent(b0) \subseteq free /\ free \subseteq 0 .. HeapLen - 1
  BY <1>1, <1>2, <1>3 DEF TypeOK
<1>5. \A i \in Classes : \A n \in DOMAIN list_heads[i] : CachedExtent(i, n)' = CachedExtent(i, n)
  BY <1>1 DEF CachedExtent
<1>6. \A b \in live' : /\ Extent(b) \subseteq 0 .. HeapLen - 1 /\ Extent(b) \cap free' = {}
                       /\ b.ptr % HeapLayout(b.layout).align = 0
  BY <1>1, <1>3, <1>4, ZenonT(30) DEF ExtentsInv
<1>7. \A b, c \in live' : b # c => Extent(b) \cap Extent(c) = {}
  BY <1>1, <1>4 DEF ExtentsInv
<1>8. \A i \in Classes : \A n \in DOMAIN list_heads[i] :
        \A b \in live' : CachedExtent(i, n) \cap Extent(b) = {}
  BY <1>1, <1>4 DEF ExtentsInv
<1>9. ExtentsInv'
  BY <1>1, <1>4, <1>5, <1>6, <1>7, <1>8 DEF ExtentsInv
<1> QED BY <1>1, <1>3, <1>4, <1>9, ZenonT(30) DEF HeapTypes, TypeOK

\* A freed block goes to the head of the list of its class.
LEMMA DeallocCacheInv ==
  ASSUME TypeOK, ExtentsInv, NEW d \in live, DeallocCache(d)
  PROVE  HeapTypes' /\ ExtentsInv'
<1> DEFINE k == Index(d.layout)
           New(i, n) == i = k /\ n = 1
           Old(i, n) == IF i = k THEN n - 1 ELSE n
<1>1. /\ k \in Classes /\ ListIndex(d.layout) # {} /\ d \in Allocations
      /\ list_heads \in [Classes -> Seq(0 .. HeapLen - 1)]
      /\ free' = free /\ live' = live \ {d}
      /\ list_heads' = [list_heads EXCEPT ![k] = <<d.ptr>> \o @]
  BY IndexFound DEF DeallocCache, Keeps, TypeOK
<1>2. d.ptr \in 0 .. HeapLen - 1
  BY <1>1 DEF Allocations
<1>3. /\ Extent(d) = Span(d.ptr, Rounded(BLOCK_SIZES[k])) /\ d.ptr % BLOCK_SIZES[k] = 0
  BY <1>1, Zenon DEF Extent, HeapLayout, ExtentsInv
<1> HIDE DEF k
<1>4. /\ list_heads'[k] \in Seq(0 .. HeapLen - 1)
      /\ DOMAIN list_heads'[k] = 1 .. Len(list_heads[k]) + 1 /\ list_heads'[k][1] = d.ptr
      /\ \A m \in 2 .. Len(list_heads[k]) + 1 : list_heads'[k][m] = list_heads[k][m - 1]
      /\ DOMAIN list_heads[k] = 1 .. Len(list_heads[k]) /\ Len(list_heads[k]) \in Nat
  <2>1. list_heads[k] \in Seq(0 .. HeapLen - 1) /\ list_heads'[k] = <<d.ptr>> \o list_heads[k]
    BY <1>1
  <2> QED BY <1>2, <2>1
<1>5. list_heads' \in [Classes -> Seq(0 .. HeapLen - 1)]
  BY <1>1, <1>4
<1>6. ASSUME NEW i \in Classes, NEW n \in DOMAIN list_heads'[i], ~New(i, n)
      PROVE  /\ Old(i, n) \in DOMAIN list_heads[i]
             /\ list_heads'[i][n] = list_heads[i][Old(i, n)]
  <2>1. CASE i = k
    BY <1>4, <1>6, <2>1
  <2>2. CASE i # k
    BY <1>1, <1>6, <2>2
  <2> QED BY <2>1, <2>2
<1>7. \A i \in Classes : \A n \in DOMAIN list_heads'[i] :
        CachedExtent(i, n)' = IF New(i, n) THEN Extent(d) ELSE CachedExtent(i, Old(i, n))
  BY <1>3, <1>4, <1>6 DEF CachedExtent
<1>8. \A i \in Classes : \A n \in DOMAIN list_heads'[i] : n \in Nat
  BY <1>5
<1>9. ASSUME NEW i \in Classes, NEW n \in DOMAIN list_heads'[i]
      PROVE  /\ CachedExtent(i, n)' \subseteq 0 .. HeapLen - 1
             /\ CachedExtent(i, n)' \cap free = {}
             /\ list_heads'[i][n] % BLOCK_SIZES[i] = 0
             /\ \A b \in live' : CachedExtent(i, n)' \cap Extent(b) = {}
  <2>1. CASE New(i, n)
    BY <1>1, <1>3, <1>4, <1>7, <2>1 DEF ExtentsInv
  <2>2. CASE ~New(i, n)
    <3>1. Old(i, n) \in DOMAIN list_heads[i] /\ list_heads'[i][n] = list_heads[i][Old(i, n)]
          /\ CachedExtent(i, n)' = CachedExtent(i, Old(i, n))
      BY <1>6, <1>7, <2>2
    <3> HIDE DEF Old
    <3> QED BY <1>1, <3>1 DEF ExtentsInv
  <2> QED BY <2>1, <2>2
<1>10. ASSUME NEW i \in Classes, NEW n \in DOMAIN list_heads'[i],
              NEW j \in Classes, NEW m \in DOMAIN list_heads'[j], i # j \/ n # m
       PROVE  CachedExtent(i, n)' \cap CachedExtent(j, m)' = {}
  <2>1. CASE New(i, n)
    <3>1. ~New(j, m)
      BY <1>10, <2>1
    <3>2. CachedExtent(i, n)' = Extent(d) /\ CachedExtent(j, m)' = CachedExtent(j, Old(j, m))
          /\ Old(j, m) \in DOMAIN list_heads[j]
      BY <1>6, <1>7, <2>1, <3>1
    <3> QED BY <3>2 DEF ExtentsInv
  <2>2. CASE New(j, m)
    <3>1. ~New(i, n)
      BY <1>10, <2>2
    <3>2. CachedExtent(j, m)' = Extent(d) /\ CachedExtent(i, n)' = CachedExtent(i, Old(i, n))
          /\ Old(i, n) \in DOMAIN list_heads[i]
      BY <1>6, <1>7, <2>2, <3>1
    <3> QED BY <3>2 DEF ExtentsInv
  <2>3. CASE ~New(i, n) /\ ~New(j, m)
    <3>1. i # j \/ Old(i, n) # Old(j, m)
      BY <1>8, <1>10
    <3>2. /\ CachedExtent(i, n)' = CachedExtent(i, Old(i, n)) /\ Old(i, n) \in DOMAIN list_heads[i]
          /\ CachedExtent(j, m)' = CachedExtent(j, Old(j, m)) /\ Old(j, m) \in DOMAIN list_heads[j]
      BY <1>6, <1>7, <2>3
    <3> HIDE DEF Old
    <3> QED BY <3>1, <3>2 DEF ExtentsInv
  <2> QED BY <2>1, <2>2, <2>3
<1>11. ExtentsInv'
  BY <1>1, <1>9, <1>10 DEF ExtentsInv
<1> QED BY <1>1, <1>5, <1>11 DEF HeapTypes, TypeOK

\* A block, or its beginning, goes back to the free units.
LEMMA DeallocFallbackInv ==
  ASSUME TypeOK, ExtentsInv, NEW d \in live, DeallocFallback(d)
  PROVE  HeapTypes' /\ ExtentsInv'
<1>1. d \in Allocations
  BY DEF TypeOK
<1> DEFINE u == Span(d.ptr, Rounded(d.layout.size))
<1>2. free' = free \cup u /\ live' = live \ {d} /\ list_heads' = list_heads
  BY DEF DeallocFallback
<1>3. u \subseteq Extent(d)
  BY <1>1, ExtentFacts
<1> HIDE DEF u
<1>4. \A i \in Classes : \A n \in DOMAIN list_heads[i] : CachedExtent(i, n)' = CachedExtent(i, n)
  BY <1>2 DEF CachedExtent
<1>5. free' \subseteq 0 .. HeapLen - 1
  BY <1>2, <1>3, ZenonT(30) DEF TypeOK, ExtentsInv
<1>6. \A b \in live' : Extent(b) \cap free' = {}
  BY <1>2, <1>3 DEF ExtentsInv
<1>7. \A i \in Classes : \A n \in DOMAIN list_heads[i] : CachedExtent(i, n) \cap free' = {}
  BY <1>2, <1>3 DEF ExtentsInv
<1>8. ExtentsInv'
  BY <1>2, <1>4, <1>6, <1>7 DEF ExtentsInv
<1> QED BY <1>2, <1>5, <1>8 DEF HeapTypes, TypeOK

\* A request, of a task or of a handler, keeps the books in order.
LEMMA ServeInv ==
  ASSUME TypeOK, ExtentsInv, NEW r, Serve(r)
  PROVE  HeapTypes' /\ ExtentsInv'
<1>1. CASE UNCHANGED heapVars
  BY <1>1, ZenonT(30) DEF heapVars, TypeOK, HeapTypes, ExtentsInv, CachedExtent
<1> QED
  BY <1>1, AllocCachedInv, AllocFallbackInv, DeallocCacheInv, DeallocFallbackInv
     DEF Serve, Alloc, Dealloc, AllocNull

\* BlockInv is inductive.
LEMMA BlockStep ==
  ASSUME BlockInv, [Next]_vars
  PROVE  BlockInv'
<1>1. TypeOK /\ LockInv /\ ExtentsInv
  BY DEF BlockInv
<1>2. CASE UNCHANGED heapVars
  <2>1. HeapTypes' /\ ExtentsInv'
    BY <1>1, <1>2, ZenonT(30) DEF heapVars, TypeOK, HeapTypes, ExtentsInv, CachedExtent
  <2>2. /\ LockInv' /\ {locked, interrupts, saved}' \subseteq BOOLEAN
        /\ request' \in {"none", "alloc", "dealloc", "done"}
    <3>1. CASE \E r \in Requests : Lock(r)
      BY <1>1, <3>1 DEF Lock, LockInv, TypeOK, Requests
    <3>2. CASE Unlock
      BY <1>1, <3>2 DEF Unlock, LockInv, TypeOK
    <3>3. CASE ServeTask
      BY <1>1, <3>3 DEF ServeTask, LockInv, TypeOK, Requests
    <3>4. CASE UNCHANGED <<locked, interrupts, saved, request>>
      BY <1>1, <3>4 DEF LockInv, TypeOK
    <3>5. CASE SetFlag
      BY <1>1, <3>5 DEF SetFlag, LockInv, TypeOK
    <3> QED BY <3>1, <3>2, <3>3, <3>4, <3>5 DEF Next, vars, ServeHandler
  <2> QED BY <2>1, <2>2 DEF BlockInv, TypeOK, HeapTypes
<1>3. CASE ServeTask
  <2>1. HeapTypes' /\ ExtentsInv'
    BY <1>1, <1>3, ServeInv DEF ServeTask
  <2>2. LockInv' /\ request' = "done" /\ UNCHANGED <<locked, interrupts, saved>>
    BY <1>1, <1>3 DEF ServeTask, LockInv, Requests
  <2> QED BY <1>1, <2>1, <2>2 DEF BlockInv, TypeOK, HeapTypes
<1>4. CASE \E r \in Requests : ServeHandler(r)
  <2>1. HeapTypes' /\ ExtentsInv'
    BY <1>1, <1>4, ServeInv DEF ServeHandler
  <2>2. LockInv' /\ UNCHANGED <<request, locked, interrupts, saved>>
    BY <1>1, <1>4 DEF ServeHandler, LockInv
  <2> QED BY <1>1, <2>1, <2>2 DEF BlockInv, TypeOK, HeapTypes
<1> QED BY <1>2, <1>3, <1>4 DEF Next, vars, heapVars, Lock, Unlock, SetFlag

\* The books of a fresh heap.
LEMMA BlockInitially == Init => BlockInv
<1> SUFFICES ASSUME Init PROVE BlockInv
  OBVIOUS
<1>1. list_heads \in [Classes -> Seq(0 .. HeapLen - 1)]
  BY DEF Init
<1>2. \A i \in Classes : DOMAIN list_heads[i] = {}
  BY DEF Init
<1> QED BY <1>1, <1>2, ZenonT(30) DEF Init, BlockInv, TypeOK, LockInv, ExtentsInv

\* What BlockInv says of the program's blocks.
LEMMA BlockInvSound ==
  ASSUME BlockInv
  PROVE  BlocksDisjoint /\ PointersAligned
<1>1. TypeOK /\ ExtentsInv /\ \A b \in live : b \in Allocations
  BY DEF BlockInv, TypeOK
<1>2. \A b \in live : BlockOf(b) \subseteq Extent(b)
  BY <1>1, ExtentFacts
<1>3. \A i \in Classes : \A n \in DOMAIN list_heads[i] :
        /\ Span(list_heads[i][n], BLOCK_SIZES[i]) \subseteq CachedExtent(i, n)
        /\ list_heads[i][n] \in CachedExtent(i, n)
  BY <1>1, CachedFacts
<1>4. \A b \in live : BlockOf(b) \cap free = {}
  BY <1>1, <1>2 DEF ExtentsInv
<1>5. \A b, c \in live : b # c => BlockOf(b) \cap BlockOf(c) = {}
  BY <1>1, <1>2 DEF ExtentsInv
<1>6. ASSUME NEW i \in Classes PROVE IsInjective(list_heads[i])
  <2>1. \A n, m \in DOMAIN list_heads[i] : n # m => list_heads[i][n] # list_heads[i][m]
    BY <1>1, <1>3 DEF ExtentsInv
  <2> QED BY <2>1 DEF IsInjective
<1>7. ASSUME NEW i \in Classes, NEW s \in CachedBlocks(i)
      PROVE  /\ s \cap free = {}
             /\ \A b \in live : s \cap BlockOf(b) = {}
             /\ \A j \in Classes : \A u \in CachedBlocks(j) : s # u => s \cap u = {}
  <2>1. PICK n \in DOMAIN list_heads[i] : s = Span(list_heads[i][n], BLOCK_SIZES[i])
    BY DEF CachedBlocks
  <2>2. s \subseteq CachedExtent(i, n)
    BY <1>3, <2>1
  <2>3. s \cap free = {} /\ \A b \in live : s \cap BlockOf(b) = {}
    BY <1>1, <1>2, <2>2 DEF ExtentsInv
  <2>4. ASSUME NEW j \in Classes, NEW u \in CachedBlocks(j), s # u PROVE s \cap u = {}
    <3>1. PICK m \in DOMAIN list_heads[j] : u = Span(list_heads[j][m], BLOCK_SIZES[j])
      BY DEF CachedBlocks
    <3>2. u \subseteq CachedExtent(j, m)
      BY <1>3, <3>1
    <3>3. i # j \/ n # m
      BY <2>1, <2>4, <3>1
    <3>4. CachedExtent(i, n) \cap CachedExtent(j, m) = {}
      BY <1>1, <3>3 DEF ExtentsInv
    <3> QED BY <2>2, <3>2, <3>4
  <2> QED BY <2>3, <2>4
<1>8. BlocksDisjoint
  BY <1>4, <1>5, <1>6, <1>7 DEF BlocksDisjoint
<1>9. ASSUME NEW b \in live PROVE b.ptr % b.layout.align = 0
  <2>1. b.ptr \in Nat /\ b.layout \in Layouts
    BY <1>1, ExtentFacts
  <2>2. b.ptr % HeapLayout(b.layout).align = 0
    BY <1>1 DEF ExtentsInv
  <2> QED BY <2>1, <2>2, HeapLayoutServes, AlignedToDivisor
<1> QED BY <1>8, <1>9 DEF PointersAligned
-----------------------------------------------------------------------------
(* What the allocator's books lose *)

InCache(x, i) == \E n \in DOMAIN list_heads[i] : x \in CachedExtent(i, n)

\* A unit is owned by the heap, by a live block or by a cached one.
LEMMA OwnedUnits ==
  ASSUME NEW x
  PROVE  x \in Owned <=> \/ x \in free \/ \E b \in live : x \in Extent(b)
                         \/ \E i \in Classes : InCache(x, i)
<1>1. x \in UNION {Extent(b) : b \in live} <=> \E b \in live : x \in Extent(b)
  OBVIOUS
<1>2. ASSUME NEW i \in Classes
      PROVE  x \in UNION {CachedExtent(i, n) : n \in DOMAIN list_heads[i]} <=> InCache(x, i)
  BY DEF InCache
<1> DEFINE A == UNION {Extent(b) : b \in live}
           C(i) == UNION {CachedExtent(i, n) : n \in DOMAIN list_heads[i]}
<1>3. Owned = free \cup A \cup UNION {C(i) : i \in Classes}
  BY DEF Owned
<1>4. x \in A <=> \E b \in live : x \in Extent(b)
  BY <1>1
<1>5. \A i \in Classes : x \in C(i) <=> InCache(x, i)
  BY <1>2
<1> HIDE DEF A, C
<1>6. x \in UNION {C(i) : i \in Classes} <=> \E i \in Classes : x \in C(i)
  OBVIOUS
<1> QED BY <1>3, <1>4, <1>5, <1>6

\* The lists hold the blocks they held, but for one at the head of list k.
LEMMA TakenFromList ==
  ASSUME TypeOK, NEW k \in Classes, list_heads[k] # <<>>,
         list_heads' = [list_heads EXCEPT ![k] = Tail(@)], NEW x
  PROVE  /\ \A i \in Classes : i # k => (InCache(x, i)' <=> InCache(x, i))
         /\ InCache(x, k) <=> InCache(x, k)' \/ x \in CachedExtent(k, 1)
<1>1. list_heads \in [Classes -> Seq(0 .. HeapLen - 1)] /\ list_heads[k] \in Seq(0 .. HeapLen - 1)
  BY DEF TypeOK
<1>2. \A i \in Classes : i # k => (InCache(x, i)' <=> InCache(x, i))
  BY <1>1 DEF InCache, CachedExtent
<1>3. /\ list_heads'[k] = Tail(list_heads[k])
      /\ Len(list_heads[k]) \in Nat \ {0}
      /\ DOMAIN list_heads[k] = 1 .. Len(list_heads[k])
      /\ DOMAIN list_heads'[k] = 1 .. Len(list_heads[k]) - 1
      /\ \A m \in 1 .. Len(list_heads[k]) - 1 : list_heads'[k][m] = list_heads[k][m + 1]
  <2>1. list_heads'[k] = Tail(list_heads[k])
    BY <1>1
  <2> QED BY <1>1, <2>1
<1>4. ASSUME InCache(x, k)' PROVE InCache(x, k)
  <2>1. PICK m \in DOMAIN list_heads'[k] : x \in Span(list_heads'[k][m], Rounded(BLOCK_SIZES[k]))
    BY <1>4 DEF InCache, CachedExtent
  <2>2. m + 1 \in DOMAIN list_heads[k] /\ list_heads'[k][m] = list_heads[k][m + 1]
    BY <1>3
  <2> QED BY <2>1, <2>2 DEF InCache, CachedExtent
<1>5. 1 \in DOMAIN list_heads[k]
  BY <1>3
<1>6. ASSUME InCache(x, k), x \notin CachedExtent(k, 1) PROVE InCache(x, k)'
  <2>1. PICK m \in DOMAIN list_heads[k] : x \in Span(list_heads[k][m], Rounded(BLOCK_SIZES[k]))
    BY <1>6 DEF InCache, CachedExtent
  <2>2. m # 1
    BY <1>6, <2>1 DEF CachedExtent
  <2>3. m - 1 \in DOMAIN list_heads'[k] /\ list_heads'[k][m - 1] = list_heads[k][m]
    BY <1>3, <2>2
  <2> QED BY <2>1, <2>3 DEF InCache, CachedExtent
<1> QED BY <1>2, <1>4, <1>5, <1>6 DEF InCache

\* The lists hold the blocks they held, and one more, at p.
LEMMA PutIntoList ==
  ASSUME TypeOK, NEW k \in Classes, NEW p \in 0 .. HeapLen - 1,
         list_heads' = [list_heads EXCEPT ![k] = <<p>> \o @], NEW x
  PROVE  /\ \A i \in Classes : i # k => (InCache(x, i)' <=> InCache(x, i))
         /\ InCache(x, k)' <=> InCache(x, k) \/ x \in Span(p, Rounded(BLOCK_SIZES[k]))
<1>1. list_heads \in [Classes -> Seq(0 .. HeapLen - 1)] /\ list_heads[k] \in Seq(0 .. HeapLen - 1)
  BY DEF TypeOK
<1>2. \A i \in Classes : i # k => (InCache(x, i)' <=> InCache(x, i))
  BY <1>1 DEF InCache, CachedExtent
<1>3. /\ Len(list_heads[k]) \in Nat
      /\ DOMAIN list_heads[k] = 1 .. Len(list_heads[k])
      /\ DOMAIN list_heads'[k] = 1 .. Len(list_heads[k]) + 1 /\ list_heads'[k][1] = p
      /\ \A m \in 1 .. Len(list_heads[k]) : list_heads'[k][m + 1] = list_heads[k][m]
  <2>1. list_heads'[k] = <<p>> \o list_heads[k]
    BY <1>1
  <2> QED BY <1>1, <2>1
<1>4. ASSUME InCache(x, k) PROVE InCache(x, k)'
  <2>1. PICK m \in DOMAIN list_heads[k] : x \in Span(list_heads[k][m], Rounded(BLOCK_SIZES[k]))
    BY <1>4 DEF InCache, CachedExtent
  <2>2. m + 1 \in DOMAIN list_heads'[k] /\ list_heads'[k][m + 1] = list_heads[k][m]
    BY <1>3
  <2> QED BY <2>1, <2>2 DEF InCache, CachedExtent
<1>5. ASSUME x \in Span(p, Rounded(BLOCK_SIZES[k])) PROVE InCache(x, k)'
  <2>1. 1 \in DOMAIN list_heads'[k]
    BY <1>3
  <2> QED BY <1>3, <1>5, <2>1 DEF InCache, CachedExtent
<1>6. ASSUME InCache(x, k)', x \notin Span(p, Rounded(BLOCK_SIZES[k])) PROVE InCache(x, k)
  <2>1. PICK m \in DOMAIN list_heads'[k] : x \in Span(list_heads'[k][m], Rounded(BLOCK_SIZES[k]))
    BY <1>6 DEF InCache, CachedExtent
  <2>2. m # 1
    BY <1>3, <1>6, <2>1
  <2>3. m - 1 \in DOMAIN list_heads[k] /\ list_heads'[k][m] = list_heads[k][m - 1]
    BY <1>3, <2>2
  <2> QED BY <2>1, <2>3 DEF InCache, CachedExtent
<1> QED BY <1>2, <1>4, <1>5, <1>6

\* The units owned after a step, spelled out.
LEMMA OwnedUnitsNext ==
  ASSUME NEW x
  PROVE  x \in Owned' <=> \/ x \in free' \/ \E b \in live' : x \in Extent(b)
                          \/ \E i \in Classes : InCache(x, i)'
<1>1. x \in UNION {Extent(b) : b \in live'} <=> \E b \in live' : x \in Extent(b)
  OBVIOUS
<1>2. ASSUME NEW i \in Classes
      PROVE  x \in UNION {CachedExtent(i, n)' : n \in DOMAIN list_heads'[i]} <=> InCache(x, i)'
  BY DEF InCache
<1> DEFINE A == UNION {Extent(b) : b \in live'}
           C(i) == UNION {CachedExtent(i, n)' : n \in DOMAIN list_heads'[i]}
<1>3. Owned' = free' \cup A \cup UNION {C(i) : i \in Classes}
  BY DEF Owned
<1>4. x \in A <=> \E b \in live' : x \in Extent(b)
  BY <1>1
<1>5. \A i \in Classes : x \in C(i) <=> InCache(x, i)'
  BY <1>2
<1> HIDE DEF A, C
<1>6. x \in UNION {C(i) : i \in Classes} <=> \E i \in Classes : x \in C(i)
  OBVIOUS
<1> QED BY <1>3, <1>4, <1>5, <1>6

\* alloc and a dealloc that caches move units from one owner to another.
LEMMA NothingLost ==
  ASSUME TypeOK, ExtentsInv,
         \/ \E l \in Layouts : AllocCached(l) \/ AllocFallback(l)
         \/ \E d \in live : DeallocCache(d)
  PROVE  Owned' = Owned
<1>1. ASSUME NEW l \in Layouts, AllocCached(l), NEW x PROVE x \in Owned' <=> x \in Owned
  <2> DEFINE k == Index(l)
             b0 == [ptr |-> Head(list_heads[k]), layout |-> l]
  <2>1. /\ k \in Classes /\ ListIndex(l) # {} /\ list_heads[k] # <<>>
        /\ list_heads[k] \in Seq(0 .. HeapLen - 1)
        /\ free' = free /\ live' = live \cup {b0}
        /\ list_heads' = [list_heads EXCEPT ![k] = Tail(@)]
    BY <1>1, IndexFound DEF AllocCached, Cached, TypeOK
  <2>2. Extent(b0) = CachedExtent(k, 1)
    BY <2>1, FirstElement DEF Extent, CachedExtent, HeapLayout
  <2> HIDE DEF k, b0
  <2>3. /\ \A i \in Classes : i # k => (InCache(x, i)' <=> InCache(x, i))
        /\ InCache(x, k) <=> InCache(x, k)' \/ x \in Extent(b0)
    BY <2>1, <2>2, TakenFromList, ZenonT(30)
  <2>4. (\E b \in live' : x \in Extent(b)) <=> (\E b \in live : x \in Extent(b)) \/ x \in Extent(b0)
    BY <2>1
  <2> QED BY <2>1, <2>3, <2>4, OwnedUnits, OwnedUnitsNext
<1>2. ASSUME NEW l \in Layouts, AllocFallback(l), NEW x PROVE x \in Owned' <=> x \in Owned
  <2> DEFINE a == FirstFit(HeapLayout(l))
             b0 == [ptr |-> a, layout |-> l]
  <2>1. /\ free' = free \ Span(a, Rounded(HeapLayout(l).size))
        /\ live' = live \cup {b0} /\ list_heads' = list_heads
    BY <1>2 DEF AllocFallback
  <2>2. Extent(b0) = Span(a, Rounded(HeapLayout(l).size)) /\ Extent(b0) \subseteq free
    BY <1>2, FirstFitFound, HeapLayoutServes DEF AllocFallback, Extent
  <2> HIDE DEF a, b0
  <2>3. free' = free \ Extent(b0) /\ \A i \in Classes : InCache(x, i)' <=> InCache(x, i)
    BY <2>1, <2>2 DEF InCache, CachedExtent
  <2>4. (\E b \in live' : x \in Extent(b)) <=> (\E b \in live : x \in Extent(b)) \/ x \in Extent(b0)
    BY <2>1
  <2> QED BY <2>2, <2>3, <2>4, OwnedUnits, OwnedUnitsNext
<1>3. ASSUME NEW d \in live, DeallocCache(d), NEW x PROVE x \in Owned' <=> x \in Owned
  <2> DEFINE k == Index(d.layout)
  <2>1. /\ k \in Classes /\ ListIndex(d.layout) # {} /\ d \in Allocations
        /\ free' = free /\ live' = live \ {d}
        /\ list_heads' = [list_heads EXCEPT ![k] = <<d.ptr>> \o @]
    BY <1>3, IndexFound DEF DeallocCache, Keeps, TypeOK
  <2>2. d.ptr \in 0 .. HeapLen - 1 /\ Extent(d) = Span(d.ptr, Rounded(BLOCK_SIZES[k]))
    BY <2>1 DEF Allocations, Extent, HeapLayout
  <2> HIDE DEF k
  <2>3. /\ \A i \in Classes : i # k => (InCache(x, i)' <=> InCache(x, i))
        /\ InCache(x, k)' <=> InCache(x, k) \/ x \in Extent(d)
    BY <2>1, <2>2, PutIntoList, ZenonT(30)
  <2>4. (\E b \in live : x \in Extent(b)) <=> (\E b \in live' : x \in Extent(b)) \/ x \in Extent(d)
    BY <2>1
  <2> QED BY <2>1, <2>3, <2>4, OwnedUnits, OwnedUnitsNext
<1>4. \A x : x \in Owned' <=> x \in Owned
  BY <1>1, <1>2, <1>3
<1> QED BY <1>4

\* A dealloc into the heap gives back the beginning of the block.
LEMMA RestLost ==
  ASSUME TypeOK, ExtentsInv, NEW d \in live, DeallocFallback(d)
  PROVE  OnlyRestsLost
<1> DEFINE u == Span(d.ptr, Rounded(d.layout.size))
<1>1. /\ free' = free \cup u /\ live' = live \ {d} /\ list_heads' = list_heads
      /\ d \in Allocations
  BY DEF DeallocFallback, TypeOK
<1>2. u \subseteq Extent(d) /\ d.ptr \in u /\ d.ptr \in Extent(d)
  BY <1>1, ExtentFacts
<1>3. Rounded(d.layout.size) < Rounded(HeapLayout(d.layout).size)
      \/ Rounded(d.layout.size) = Rounded(HeapLayout(d.layout).size)
  BY <1>1, ExtentFacts, HeapLayoutServes, RoundsUp
<1>4. Rounded(d.layout.size) = Rounded(HeapLayout(d.layout).size) => u = Extent(d)
  BY DEF Extent
<1>5. Rounded(d.layout.size) < Rounded(HeapLayout(d.layout).size) => Extent(d) = BlockOf(d)
  <2> DEFINE s == d.layout.size
             t == HeapLayout(d.layout).size
  <2>1. s \in Nat \ {0} /\ t \in Nat \ {0}
    BY <1>1, ExtentFacts, HeapLayoutServes
  <2> HIDE DEF s, t
  <2>2. Rounded(s) < Rounded(t) => Rounded(t) = t
    BY <2>1, RoundsUp DEF Rounded
  <2> QED BY <2>2 DEF s, t, Extent, BlockOf
<1> HIDE DEF u
<1>6. \A x : \A i \in Classes : InCache(x, i)' <=> InCache(x, i)
  BY <1>1 DEF InCache, CachedExtent
<1>7. ASSUME NEW x PROVE /\ x \in Owned' => x \in Owned
                         /\ x \in Owned /\ x \notin Owned' => x \in Extent(d)
                         /\ u = Extent(d) => (x \in Owned => x \in Owned')
  BY <1>1, <1>2, <1>6, OwnedUnits, OwnedUnitsNext
<1>8. Owned' \subseteq Owned /\ Owned \ Owned' \subseteq Extent(d)
  BY <1>7
<1>9. u = Extent(d) => Owned' = Owned
  BY <1>7
<1>10. Cardinality(free') > Cardinality(free)
  <2>1. free' \subseteq 0 .. HeapLen - 1
    BY <1>1, <1>2, Zenon DEF TypeOK, ExtentsInv
  <2>2. IsFiniteSet(free')
    <3>1. IsFiniteSet(0 .. HeapLen - 1)
      BY FS_Interval, BlockAssumption
    <3> QED BY <2>1, <3>1, FS_Subset, ZenonT(30)
  <2>3. free \subseteq free' /\ free # free'
    BY <1>1, <1>2 DEF ExtentsInv
  <2>4. IsFiniteSet(free) /\ Cardinality(free) <= Cardinality(free')
        /\ (Cardinality(free) = Cardinality(free') => free = free')
    BY <2>2, <2>3, FS_Subset
  <2> QED BY <2>2, <2>3, <2>4, FS_CardinalityType
<1> QED
  BY <1>1, <1>3, <1>4, <1>5, <1>8, <1>9, <1>10 DEF OnlyRestsLost

\* Every step of the allocator in use loses nothing, or a rest.
LEMMA RestsStep ==
  ASSUME BlockInv, [Next]_vars
  PROVE  OnlyRestsLost
<1>1. CASE UNCHANGED heapVars
  BY <1>1 DEF heapVars, OnlyRestsLost, Owned, CachedExtent
<1>2. ASSUME NEW r, Serve(r) PROVE OnlyRestsLost
  BY <1>1, <1>2, NothingLost, RestLost
     DEF BlockInv, Serve, Alloc, AllocNull, Dealloc, OnlyRestsLost
<1> QED BY <1>1, <1>2 DEF Next, Lock, Unlock, SetFlag, ServeTask, ServeHandler, vars, heapVars
-----------------------------------------------------------------------------
(* The list of free regions *)

\* align_up: the next multiple, less than one alignment away.
LEMMA UpToFacts ==
  ASSUME NEW n \in Nat, NEW d \in Nat \ {0}
  PROVE  UpTo(n, d) \in Nat /\ n <= UpTo(n, d) /\ UpTo(n, d) < n + d /\ UpTo(n, d) % d = 0
<1> DEFINE a == n + d - 1
           q == a \div d
<1>1. a \in Nat
  OBVIOUS
<1>2. q \in Nat /\ d * q <= a /\ a < d * q + d
  <2> HIDE DEF a
  <2>1. q \in Nat /\ a % d \in 0 .. d - 1 /\ a = d * q + (a % d)
    BY <1>1, Divide, ZenonT(30)
  <2>2. d * q \in Nat
    BY <2>1
  <2> HIDE DEF q
  <2> QED BY <1>1, <2>1, <2>2
<1>3. UpTo(n, d) = d * q
  BY <1>2 DEF UpTo
<1>4. (d * q) % d = 0 /\ d * q \in Nat
  BY <1>2, MultipleLeavesNothing
<1> HIDE DEF q
<1> QED BY <1>2, <1>3, <1>4

\* A block has room for a node, and for what was asked.
LEMMA PaddedFacts ==
  ASSUME NEW l \in ListLayouts
  PROVE  /\ l.size \in Nat \ {0} /\ l.align \in Nat \ {0}
         /\ PaddedSize(l) \in Nat /\ PaddedSize(l) >= 2
<1>1. l.size \in Nat \ {0} /\ l.align \in Nat \ {0}
  BY ListAssumption
<1>2. UpTo(l.size, l.align) \in Nat
  BY <1>1, UpToFacts, Zenon
<1>3. ASSUME NEW a \in Nat
      PROVE  Max({a, 2}) \in Nat /\ Max({a, 2}) >= 2
  <2>1. \E x \in {a, 2} : \A y \in {a, 2} : x >= y
    OBVIOUS
  <2>2. Max({a, 2}) \in {a, 2} /\ \A y \in {a, 2} : Max({a, 2}) >= y
    BY <2>1 DEF Max
  <2> QED BY <2>2
<1> QED BY <1>1, <1>2, <1>3 DEF PaddedSize, NodeSize

\* find_region finds the first region that serves, if there is one.
LEMMA SuitableFound ==
  ASSUME ListInv, NEW l, Suitable(l) # {}
  PROVE  /\ Min(Suitable(l)) \in DOMAIN regions
         /\ AllocFromRegion(regions[Min(Suitable(l))], l)
<1>1. Suitable(l) \in SUBSET Nat
  BY DEF ListInv, Suitable
<1>2. \E i \in Suitable(l) : \A j \in Suitable(l) : i <= j
  BY <1>1, LeastNatural
<1>3. Min(Suitable(l)) \in Suitable(l)
  BY <1>2, Zenon DEF Min
<1> QED BY <1>3 DEF Suitable

\* Unlinking a region closes the gap.
LEMMA Unlinked ==
  ASSUME NEW S, NEW s \in Seq(S), NEW i \in DOMAIN s
  PROVE  /\ Unlink(s, i) \in Seq(S) /\ Len(Unlink(s, i)) = Len(s) - 1
         /\ \A j \in 1 .. Len(s) - 1 :
              /\ (IF j < i THEN j ELSE j + 1) \in DOMAIN s
              /\ Unlink(s, i)[j] = s[IF j < i THEN j ELSE j + 1]
<1>1. i \in 1 .. Len(s) /\ Len(s) \in Nat
  OBVIOUS
<1> DEFINE a == SubSeq(s, 1, i - 1)
           b == SubSeq(s, i + 1, Len(s))
<1>2. a \in Seq(S) /\ Len(a) = i - 1 /\ \A j \in 1 .. i - 1 : a[j] = s[j]
  BY <1>1, SubSeqProperties
<1>3. b \in Seq(S) /\ Len(b) = Len(s) - i /\ \A j \in 1 .. Len(s) - i : b[j] = s[i + j]
  BY <1>1, SubSeqProperties
<1> HIDE DEF a, b
<1>4. Unlink(s, i) = a \o b
  BY DEF Unlink, a, b
<1>5. a \o b \in Seq(S) /\ Len(a \o b) = Len(s) - 1
  BY <1>1, <1>2, <1>3
<1>6. \A j \in 1 .. Len(s) - 1 : (a \o b)[j] = IF j < i THEN a[j] ELSE b[j - i + 1]
  BY <1>1, <1>2, <1>3
<1>7. \A j \in 1 .. Len(s) - 1 : j >= i => b[j - i + 1] = s[j + 1]
  BY <1>1, <1>3
<1>8. \A j \in 1 .. Len(s) - 1 : j < i => a[j] = s[j]
  BY <1>1, <1>2
<1> DEFINE c == a \o b
<1>9. \A j \in 1 .. Len(s) - 1 : c[j] = IF j < i THEN s[j] ELSE s[j + 1]
  <2> SUFFICES ASSUME NEW j \in 1 .. Len(s) - 1
               PROVE  c[j] = IF j < i THEN s[j] ELSE s[j + 1]
    BY Zenon
  <2>1. c[j] = IF j < i THEN a[j] ELSE b[j - i + 1]
    BY <1>6, Zenon
  <2> HIDE DEF c
  <2>2. CASE j < i
    BY <1>8, <2>1, <2>2
  <2>3. CASE ~(j < i)
    <3>1. j >= i
      BY <1>1, <2>3
    <3> QED BY <1>7, <2>1, <2>3, <3>1
  <2> QED BY <2>2, <2>3
<1> HIDE DEF c
<1>10. \A j \in 1 .. Len(s) - 1 : (IF j < i THEN j ELSE j + 1) \in DOMAIN s
  BY <1>1
<1>11. \A j \in 1 .. Len(s) - 1 : c[j] = s[IF j < i THEN j ELSE j + 1]
  BY <1>9
<1>12. c \in Seq(S) /\ Len(c) = Len(s) - 1 /\ Unlink(s, i) = c
  BY <1>4, <1>5 DEF c
<1> QED BY <1>10, <1>11, <1>12, ZenonT(30)

\* What an allocation does: region i gives way to the block and, if something is left
\* behind the block, to a region at the head of the list.
LEMMA AllocParts ==
  ASSUME ListInv, NEW l \in ListLayouts, ListAlloc(l)
  PROVE  \E i \in DOMAIN regions, p \in Nat, e \in Nat :
           LET b == [ptr |-> p, layout |-> l]
               r == regions[i]
           IN  /\ blocks' = blocks \cup {b}
               /\ r.start <= p /\ p < r.start + l.align /\ p % l.align = 0
               /\ e = p + PaddedSize(l) /\ e <= RegionEnd(r)
               /\ \/ e = RegionEnd(r) /\ regions' = Unlink(regions, i) /\ ~misplaced'
                  \/ /\ e + NodeSize <= RegionEnd(r) /\ ~misplaced'
                     /\ regions' = <<[start |-> e, size |-> RegionEnd(r) - e]>>
                                     \o Unlink(regions, i)
<1> DEFINE i == Min(Suitable(l))
           r == regions[i]
           p == UpTo(r.start, l.align)
           e == p + PaddedSize(l)
<1>1. i \in DOMAIN regions /\ AllocFromRegion(r, l)
  BY SuitableFound DEF ListAlloc
<1>2. r.start \in Nat /\ r.size \in Nat /\ RegionEnd(r) \in Nat
  <2>1. regions \in Seq([start : Nat, size : Nat])
    BY DEF ListInv
  <2>2. regions[i] \in [start : Nat, size : Nat]
    BY <1>1, <2>1, SeqElement, Zenon
  <2> QED BY <2>2 DEF RegionEnd
<1>3. p \in Nat /\ r.start <= p /\ p < r.start + l.align /\ p % l.align = 0
  BY <1>2, PaddedFacts, UpToFacts, ZenonT(30)
<1>4. e \in Nat
  BY <1>3, PaddedFacts
<1>5. e <= RegionEnd(r) /\ (RegionEnd(r) - e = 0 \/ RegionEnd(r) - e >= NodeSize)
  BY <1>1 DEF AllocFromRegion
<1>6. blocks' = blocks \cup {[ptr |-> p, layout |-> l]}
  BY DEF ListAlloc
<1>7. IF RegionEnd(r) - e > 0
      THEN /\ regions' = <<[start |-> e, size |-> RegionEnd(r) - e]>> \o Unlink(regions, i)
           /\ misplaced' = (RegionEnd(r) - e < NodeSize)
      ELSE regions' = Unlink(regions, i) /\ misplaced' = misplaced
  BY DEF ListAlloc, WithRegion, Asserted
<1>8. ~misplaced
  BY DEF ListInv, RegionsSound
<1> HIDE DEF i, p, e, r
<1>9. \/ e = RegionEnd(r) /\ regions' = Unlink(regions, i) /\ ~misplaced'
      \/ /\ e + NodeSize <= RegionEnd(r) /\ ~misplaced'
         /\ regions' = <<[start |-> e, size |-> RegionEnd(r) - e]>> \o Unlink(regions, i)
  <2>1. CASE RegionEnd(r) - e = 0
    <3>1. e = RegionEnd(r) /\ ~(RegionEnd(r) - e > 0)
      BY <1>2, <1>4, <2>1
    <3> QED BY <1>7, <1>8, <3>1
  <2>2. CASE RegionEnd(r) - e >= NodeSize
    <3>1. e + NodeSize <= RegionEnd(r) /\ RegionEnd(r) - e > 0 /\ ~(RegionEnd(r) - e < NodeSize)
      BY <1>2, <1>4, <2>2 DEF NodeSize
    <3> QED BY <1>7, <3>1, ZenonT(30)
  <2> QED BY <1>5, <2>1, <2>2
<1>10. e = p + PaddedSize(l) /\ r = regions[i]
  BY DEF e, r
<1> QED BY <1>1, <1>3, <1>4, <1>5, <1>6, <1>9, <1>10, ZenonT(30)

\* add_free_region puts a region before all others.
LEMMA Prepended ==
  ASSUME NEW S, NEW x \in S, NEW s \in Seq(S)
  PROVE  /\ <<x>> \o s \in Seq(S) /\ Len(<<x>> \o s) = Len(s) + 1
         /\ (<<x>> \o s)[1] = x
         /\ \A j \in 2 .. Len(s) + 1 : (<<x>> \o s)[j] = s[j - 1]
OBVIOUS

\* Where the regions of the list come from: f names for each the region it was, and
\* only region i has shrunk, to x, or is gone.
Comes(new, f, i, x) ==
  /\ new \in Seq([start : Nat, size : Nat])
  /\ f \in [DOMAIN new -> DOMAIN regions]
  /\ \A j, k \in DOMAIN new : j # k => f[j] # f[k]
  /\ \A j \in DOMAIN new : new[j] = IF f[j] = i THEN x ELSE regions[f[j]]
  /\ \A k \in DOMAIN regions : k # i => \E j \in DOMAIN new : f[j] = k

\* find_region's unlinking leaves the other regions as they are.
LEMMA OthersStay ==
  ASSUME ListInv, NEW i \in DOMAIN regions, NEW x
  PROVE  \E f : Comes(Unlink(regions, i), f, i, x)
                /\ \A j \in DOMAIN Unlink(regions, i) : f[j] # i
<1> DEFINE T == [start : Nat, size : Nat]
           new == Unlink(regions, i)
           n == Len(regions)
           f == [j \in 1 .. n - 1 |-> IF j < i THEN j ELSE j + 1]
<1>1. regions \in Seq(T) /\ n \in Nat /\ i \in 1 .. n /\ DOMAIN regions = 1 .. n
  BY DEF ListInv
<1>2. /\ new \in Seq(T) /\ Len(new) = n - 1
      /\ \A j \in 1 .. n - 1 : new[j] = regions[IF j < i THEN j ELSE j + 1]
  <2> HIDE DEF T
  <2> QED BY <1>1, Unlinked, ZenonT(30)
<1>3. DOMAIN new = 1 .. n - 1
  BY <1>2
<1> HIDE DEF new, n
<1>4. f \in [DOMAIN new -> DOMAIN regions] /\ \A j \in DOMAIN new : f[j] # i
  BY <1>1, <1>3
<1>5. \A j, k \in DOMAIN new : j # k => f[j] # f[k]
  <2> SUFFICES ASSUME NEW j \in 1 .. n - 1, NEW k \in 1 .. n - 1, f[j] = f[k]
               PROVE  j = k
    BY <1>3, Zenon
  <2>1. f[j] = (IF j < i THEN j ELSE j + 1) /\ f[k] = (IF k < i THEN k ELSE k + 1)
    OBVIOUS
  <2>2. i \in Nat /\ j \in Nat /\ k \in Nat
    BY <1>1
  <2>3. (IF j < i THEN j ELSE j + 1) = (IF k < i THEN k ELSE k + 1)
    BY <2>1
  <2> QED BY ONLY <2>2, <2>3, SMTT(30)
<1>6. \A k \in DOMAIN regions : k # i => \E j \in DOMAIN new : f[j] = k
  <2> SUFFICES ASSUME NEW k \in 1 .. n, k # i
               PROVE  \E j \in 1 .. n - 1 : f[j] = k
    BY <1>1, <1>3, ZenonT(30)
  <2>1. CASE k < i
    <3>1. k \in 1 .. n - 1 /\ f[k] = k
      BY <1>1, <2>1
    <3> QED BY <3>1
  <2>2. CASE ~(k < i)
    <3>1. k - 1 \in 1 .. n - 1 /\ ~(k - 1 < i) /\ (k - 1) + 1 = k
      BY <1>1, <2>2
    <3>2. f[k - 1] = k
      BY <3>1
    <3> QED BY <3>1, <3>2
  <2> QED BY <2>1, <2>2
<1>7. \A j \in DOMAIN new : new[j] = regions[f[j]]
  BY <1>2, <1>3
<1> HIDE DEF f
<1>8. Comes(new, f, i, x) /\ \A j \in DOMAIN new : f[j] # i
  BY <1>2, <1>4, <1>5, <1>6, <1>7, ZenonT(30) DEF Comes
<1> QED BY <1>8 DEF new

\* What is left behind a block goes to the head.
LEMMA RestGoesFirst ==
  ASSUME ListInv, NEW i \in DOMAIN regions, NEW x \in [start : Nat, size : Nat]
  PROVE  \E f : Comes(<<x>> \o Unlink(regions, i), f, i, x)
                /\ \E j \in DOMAIN (<<x>> \o Unlink(regions, i)) : f[j] = i
<1> DEFINE T == [start : Nat, size : Nat]
           old == Unlink(regions, i)
           new == <<x>> \o old
           n == Len(old)
<1>1. PICK g : Comes(old, g, i, x) /\ \A j \in DOMAIN old : g[j] # i
  BY OthersStay
<1>2. old \in Seq(T) /\ n \in Nat /\ DOMAIN old = 1 .. n
  BY <1>1 DEF Comes
<1>3. /\ new \in Seq(T) /\ Len(new) = n + 1 /\ new[1] = x
      /\ \A j \in 2 .. n + 1 : new[j] = old[j - 1]
  <2> HIDE DEF T, old
  <2>1. x \in T
    BY DEF T
  <2> QED BY <1>2, <2>1, Prepended
<1>4. DOMAIN new = 1 .. n + 1
  BY <1>3
<1> DEFINE f == [j \in 1 .. n + 1 |-> IF j = 1 THEN i ELSE g[j - 1]]
<1> HIDE DEF new, n, old
<1>5. /\ g \in [1 .. n -> DOMAIN regions]
      /\ \A j, k \in 1 .. n : j # k => g[j] # g[k]
      /\ \A j \in 1 .. n : g[j] # i /\ old[j] = regions[g[j]]
      /\ \A k \in DOMAIN regions : k # i => \E j \in 1 .. n : g[j] = k
  BY <1>1, <1>2, ZenonT(30) DEF Comes
<1>6. f[1] = i /\ \A j \in 2 .. n + 1 : f[j] = g[j - 1] /\ j - 1 \in 1 .. n
  BY <1>2
<1>7. f \in [1 .. n + 1 -> DOMAIN regions]
  BY <1>2, <1>5
<1> HIDE DEF f
<1>8. \A j \in 1 .. n + 1 : j = 1 \/ j \in 2 .. n + 1
  BY <1>2
<1>9. \A j, k \in 1 .. n + 1 : j # k => f[j] # f[k]
  <2>1. \A j, k \in 2 .. n + 1 : j # k => j - 1 # k - 1
    BY <1>2
  <2> SUFFICES ASSUME NEW j \in 1 .. n + 1, NEW k \in 1 .. n + 1, j # k
               PROVE  f[j] # f[k]
    OBVIOUS
  <2>2. CASE j = 1
    <3>1. k \in 2 .. n + 1
      BY <1>8, <2>2
    <3> QED BY <1>5, <1>6, <2>2, <3>1
  <2>3. CASE k = 1
    <3>1. j \in 2 .. n + 1
      BY <1>8, <2>3
    <3> QED BY <1>5, <1>6, <2>3, <3>1
  <2>4. CASE j \in 2 .. n + 1 /\ k \in 2 .. n + 1
    BY <1>5, <1>6, <2>1, <2>4
  <2> QED BY <1>8, <2>2, <2>3, <2>4
<1>10. \A j \in 1 .. n + 1 : new[j] = IF f[j] = i THEN x ELSE regions[f[j]]
  <2> SUFFICES ASSUME NEW j \in 1 .. n + 1
               PROVE  new[j] = IF f[j] = i THEN x ELSE regions[f[j]]
    OBVIOUS
  <2>1. CASE j = 1
    BY <1>3, <1>6, <2>1
  <2>2. CASE j \in 2 .. n + 1
    <3>1. f[j] # i /\ new[j] = regions[f[j]]
      BY <1>3, <1>5, <1>6, <2>2
    <3> QED BY <3>1
  <2> QED BY <1>8, <2>1, <2>2
<1>11. \A k \in DOMAIN regions : k # i => \E j \in 1 .. n + 1 : f[j] = k
  <2> SUFFICES ASSUME NEW k \in DOMAIN regions, k # i
               PROVE  \E j \in 1 .. n + 1 : f[j] = k
    OBVIOUS
  <2>1. PICK j \in 1 .. n : g[j] = k
    BY <1>5
  <2>2. j + 1 \in 2 .. n + 1 /\ (j + 1) - 1 = j /\ j + 1 \in 1 .. n + 1
    BY <1>2
  <2>3. f[j + 1] = k
    BY <1>6, <2>1, <2>2
  <2> QED BY <2>2, <2>3
<1>12. 1 \in 1 .. n + 1
  BY <1>2
<1>13. Comes(new, f, i, x) /\ \E j \in DOMAIN new : f[j] = i
  BY <1>3, <1>4, <1>6, <1>7, <1>9, <1>10, <1>11, <1>12, ZenonT(30) DEF Comes
<1> QED BY <1>13 DEF new, old

\* The lists before and after an allocation.
AllocTurns(l, i, p, e, f) ==
  LET r == regions[i]
  IN  /\ blocks' = blocks \cup {[ptr |-> p, layout |-> l]} /\ ~misplaced'
      /\ r.start \in Nat /\ RegionEnd(r) \in Nat
      /\ r.start <= p /\ p < r.start + l.align /\ p % l.align = 0
      /\ e = p + PaddedSize(l) /\ e <= RegionEnd(r)
      /\ Comes(regions', f, i, [start |-> e, size |-> RegionEnd(r) - e])
      /\ \/ e = RegionEnd(r) /\ \A j \in DOMAIN regions' : f[j] # i
         \/ e + NodeSize <= RegionEnd(r) /\ \E j \in DOMAIN regions' : f[j] = i

\* alloc turns the list so.
LEMMA AllocComes ==
  ASSUME ListInv, NEW l \in ListLayouts, ListAlloc(l)
  PROVE  \E i \in DOMAIN regions, p \in Nat, e \in Nat : \E f : AllocTurns(l, i, p, e, f)
<1>1. PICK i \in DOMAIN regions, p \in Nat, e \in Nat :
        LET b == [ptr |-> p, layout |-> l]
            r == regions[i]
        IN  /\ blocks' = blocks \cup {b}
            /\ r.start <= p /\ p < r.start + l.align /\ p % l.align = 0
            /\ e = p + PaddedSize(l) /\ e <= RegionEnd(r)
            /\ \/ e = RegionEnd(r) /\ regions' = Unlink(regions, i) /\ ~misplaced'
               \/ /\ e + NodeSize <= RegionEnd(r) /\ ~misplaced'
                  /\ regions' = <<[start |-> e, size |-> RegionEnd(r) - e]>>
                                  \o Unlink(regions, i)
  BY AllocParts, ZenonT(30)
<1> DEFINE x == [start |-> e, size |-> RegionEnd(regions[i]) - e]
<1>2. regions[i].start \in Nat /\ RegionEnd(regions[i]) \in Nat
  <2>1. regions \in Seq([start : Nat, size : Nat])
    BY DEF ListInv
  <2>2. regions[i] \in [start : Nat, size : Nat]
    BY <2>1, SeqElement, ZenonT(30)
  <2> QED BY <2>2 DEF RegionEnd
<1>3. CASE e = RegionEnd(regions[i]) /\ regions' = Unlink(regions, i) /\ ~misplaced'
  <2>1. PICK f : Comes(regions', f, i, x) /\ \A j \in DOMAIN regions' : f[j] # i
    BY <1>3, OthersStay
  <2>2. AllocTurns(l, i, p, e, f)
    BY <1>1, <1>2, <1>3, <2>1, Zenon DEF AllocTurns
  <2> QED BY <2>2
<1>4. CASE e + NodeSize <= RegionEnd(regions[i]) /\ ~misplaced' /\ regions' = <<x>> \o Unlink(regions, i)
  <2>1. x \in [start : Nat, size : Nat]
    BY <1>1, <1>2
  <2>2. PICK f : Comes(regions', f, i, x) /\ \E j \in DOMAIN regions' : f[j] = i
    <3> HIDE DEF x
    <3> QED BY <1>4, <2>1, RestGoesFirst
  <2>3. AllocTurns(l, i, p, e, f)
    BY <1>1, <1>2, <1>4, <2>2, ZenonT(30) DEF AllocTurns
  <2> QED BY <2>3
<1> QED BY <1>1, <1>3, <1>4

\* Region i is cut into what is lost before the block, the block, and the region behind.
LEMMA AllocUnits ==
  ASSUME ListInv, NEW l \in ListLayouts, NEW i \in DOMAIN regions, NEW p \in Nat, NEW e \in Nat,
         NEW f, AllocTurns(l, i, p, e, f)
  PROVE  LET b == [ptr |-> p, layout |-> l]
             rest == e .. RegionEnd(regions[i]) - 1
             lost == regions[i].start .. p - 1
         IN  /\ BlockUnits(b) = p .. e - 1
             /\ RegionUnits(regions[i]) = (lost \cup BlockUnits(b)) \cup rest
             /\ rest \cap BlockUnits(b) = {}
             /\ \A j \in DOMAIN regions' :
                  RegionUnits(regions'[j]) = IF f[j] = i THEN rest
                                             ELSE RegionUnits(regions[f[j]])
             /\ \A j \in DOMAIN regions' : regions'[j].size >= NodeSize
<1> DEFINE r == regions[i]
           x == [start |-> e, size |-> RegionEnd(r) - e]
<1>1. /\ r.start \in Nat /\ RegionEnd(r) \in Nat /\ r.start <= p
      /\ e = p + PaddedSize(l) /\ e <= RegionEnd(r) /\ PaddedSize(l) \in Nat
      /\ RegionUnits(r) = r.start .. RegionEnd(r) - 1
  BY PaddedFacts DEF AllocTurns, RegionUnits
<1>2. BlockUnits([ptr |-> p, layout |-> l]) = p .. e - 1
  BY <1>1 DEF BlockUnits
<1>3. RegionUnits(x) = e .. RegionEnd(r) - 1
  <2>1. RegionEnd(x) = RegionEnd(r)
    <3>1. RegionEnd(x) = e + (RegionEnd(r) - e)
      BY DEF RegionEnd
    <3> QED BY <1>1, <3>1
  <2> QED BY <2>1 DEF RegionUnits
<1>4. RegionUnits(r) = ((r.start .. p - 1) \cup (p .. e - 1)) \cup (e .. RegionEnd(r) - 1)
  BY <1>1
<1>5. (e .. RegionEnd(r) - 1) \cap (p .. e - 1) = {}
  BY <1>1
<1>6. \A j \in DOMAIN regions' : regions'[j] = IF f[j] = i THEN x ELSE regions[f[j]]
  BY Zenon DEF AllocTurns, Comes
<1>7. \A j \in DOMAIN regions' : f[j] = i => e + NodeSize <= RegionEnd(r)
  BY ZenonT(30) DEF AllocTurns
<1>8. \A j \in DOMAIN regions' : f[j] \in DOMAIN regions
  BY DEF AllocTurns, Comes
<1>9. \A j \in DOMAIN regions' : regions'[j].size >= NodeSize
  <2> SUFFICES ASSUME NEW j \in DOMAIN regions'
               PROVE  regions'[j].size >= NodeSize
    OBVIOUS
  <2>1. CASE f[j] = i
    <3>1. e + NodeSize <= RegionEnd(r)
      BY <1>7, <2>1
    <3>2. RegionEnd(r) - e >= NodeSize
      BY <1>1, <3>1 DEF NodeSize
    <3>3. regions'[j].size = RegionEnd(r) - e
      BY <1>6, <2>1
    <3> QED BY <3>2, <3>3
  <2>2. CASE f[j] # i
    BY <1>6, <1>8, <2>2 DEF ListInv
  <2> QED BY <2>1, <2>2
<1>10. \A j \in DOMAIN regions' :
         RegionUnits(regions'[j]) = IF f[j] = i THEN e .. RegionEnd(r) - 1
                                    ELSE RegionUnits(regions[f[j]])
  <2> HIDE DEF x
  <2> QED BY <1>3, <1>6
<1> HIDE DEF x
<1> QED BY <1>2, <1>4, <1>5, <1>9, <1>10 DEF r

\* alloc keeps regions and blocks apart.
LEMMA ListAllocInv ==
  ASSUME ListInv, NEW l \in ListLayouts, ListAlloc(l)
  PROVE  ListInv'
<1>0. PICK i \in DOMAIN regions, p \in Nat, e \in Nat : \E f : AllocTurns(l, i, p, e, f)
  BY AllocComes
<1>1. PICK f : AllocTurns(l, i, p, e, f)
  BY <1>0
<1> DEFINE n == [ptr |-> p, layout |-> l]
           U(k) == RegionUnits(regions[k])
           V(j) == RegionUnits(regions'[j])
           rest == e .. RegionEnd(regions[i]) - 1
<1>2. /\ blocks' = blocks \cup {n} /\ ~misplaced' /\ p % l.align = 0
      /\ regions' \in Seq([start : Nat, size : Nat])
      /\ \A j \in DOMAIN regions' : f[j] \in DOMAIN regions
      /\ \A j, k \in DOMAIN regions' : j # k => f[j] # f[k]
  BY <1>1 DEF AllocTurns, Comes
<1>3. /\ BlockUnits(n) \subseteq U(i) /\ rest \subseteq U(i) /\ rest \cap BlockUnits(n) = {}
      /\ \A j \in DOMAIN regions' : V(j) = IF f[j] = i THEN rest ELSE U(f[j])
      /\ \A j \in DOMAIN regions' : regions'[j].size >= NodeSize
  <2> HIDE DEF rest, n
  <2> QED BY <1>1, AllocUnits DEF rest, n
<1>4. /\ \A j, k \in DOMAIN regions : j # k => U(j) \cap U(k) = {}
      /\ \A k \in DOMAIN regions, b \in blocks : U(k) \cap BlockUnits(b) = {}
      /\ \A b, c \in blocks : b # c => BlockUnits(b) \cap BlockUnits(c) = {}
      /\ \A b \in blocks : b.ptr % b.layout.align = 0
  BY DEF ListInv, RegionsSound
<1>5. blocks' \subseteq [ptr : Nat, layout : ListLayouts]
  BY <1>2 DEF ListInv
<1>6. \A b \in blocks' : b.ptr % b.layout.align = 0
  BY <1>2, <1>4
<1> HIDE DEF U, V, n, rest
<1>7. \A j \in DOMAIN regions' : V(j) \subseteq U(f[j]) /\ V(j) \cap BlockUnits(n) = {}
  <2> SUFFICES ASSUME NEW j \in DOMAIN regions'
               PROVE  V(j) \subseteq U(f[j]) /\ V(j) \cap BlockUnits(n) = {}
    OBVIOUS
  <2>1. CASE f[j] = i
    BY <1>3, <2>1
  <2>2. CASE f[j] # i
    <3>1. U(f[j]) \cap U(i) = {}
      BY <1>2, <1>4, <2>2
    <3> QED BY <1>3, <2>2, <3>1
  <2> QED BY <2>1, <2>2
<1>8. \A j, k \in DOMAIN regions' : j # k => V(j) \cap V(k) = {}
  <2> SUFFICES ASSUME NEW j \in DOMAIN regions', NEW k \in DOMAIN regions', j # k
               PROVE  V(j) \cap V(k) = {}
    OBVIOUS
  <2>1. U(f[j]) \cap U(f[k]) = {}
    BY <1>2, <1>4
  <2> QED BY <1>7, <2>1
<1>9. \A j \in DOMAIN regions', b \in blocks' : V(j) \cap BlockUnits(b) = {}
  <2> SUFFICES ASSUME NEW j \in DOMAIN regions', NEW b \in blocks'
               PROVE  V(j) \cap BlockUnits(b) = {}
    OBVIOUS
  <2>1. CASE b = n
    BY <1>7, <2>1
  <2>2. CASE b \in blocks
    <3>1. U(f[j]) \cap BlockUnits(b) = {}
      BY <1>2, <1>4, <2>2
    <3> QED BY <1>7, <3>1
  <2> QED BY <1>2, <2>1, <2>2
<1>10. \A b \in blocks : BlockUnits(b) \cap BlockUnits(n) = {}
  BY <1>3, <1>4
<1>11. \A b, c \in blocks' : b # c => BlockUnits(b) \cap BlockUnits(c) = {}
  BY <1>2, <1>4, <1>10
<1>12. RegionsSound'
  <2>1. \A b : BlockUnits(b)' = BlockUnits(b)
    BY DEF BlockUnits, PaddedSize, NodeSize, UpTo
  <2> QED BY <1>2, <1>6, <1>8, <1>9, <1>11, ZenonT(30) DEF RegionsSound, V, RegionUnits, RegionEnd,
             BlockUnits, PaddedSize, NodeSize, UpTo
<1> QED BY <1>2, <1>3, <1>5, <1>12 DEF ListInv, NodeSize

\* dealloc gives the list the block's units, at its head.
LEMMA DeallocTurns ==
  ASSUME ListInv, NEW b \in blocks, ListDealloc(b)
  PROVE  /\ regions' \in Seq([start : Nat, size : Nat]) /\ ~misplaced'
         /\ Len(regions') = Len(regions) + 1 /\ Len(regions) \in Nat
         /\ regions'[1].size >= NodeSize /\ RegionUnits(regions'[1]) = BlockUnits(b)
         /\ \A j \in 2 .. Len(regions) + 1 : regions'[j] = regions[j - 1]
<1> DEFINE x == [start |-> b.ptr, size |-> PaddedSize(b.layout)]
<1>1. b.ptr \in Nat /\ b.layout \in ListLayouts
  BY DEF ListInv
<1>2. PaddedSize(b.layout) \in Nat /\ PaddedSize(b.layout) >= NodeSize
  BY <1>1, PaddedFacts DEF NodeSize
<1>3. x \in [start : Nat, size : Nat]
  BY <1>1, <1>2
<1>4. regions \in Seq([start : Nat, size : Nat])
  BY DEF ListInv
<1>5. regions' = <<x>> \o regions /\ misplaced' = (PaddedSize(b.layout) < NodeSize)
  BY DEF ListDealloc, WithRegion, Asserted
<1>6. ~(PaddedSize(b.layout) < NodeSize)
  BY <1>2 DEF NodeSize
<1>7. /\ regions' \in Seq([start : Nat, size : Nat]) /\ Len(regions') = Len(regions) + 1
      /\ regions'[1] = x
      /\ \A j \in 2 .. Len(regions) + 1 : regions'[j] = regions[j - 1]
  <2> HIDE DEF x
  <2> QED BY <1>3, <1>4, <1>5, Prepended
<1>8. RegionUnits(x) = BlockUnits(b)
  <2>1. x.start = b.ptr /\ x.size = PaddedSize(b.layout)
    OBVIOUS
  <2> HIDE DEF x
  <2>2. RegionEnd(x) = b.ptr + PaddedSize(b.layout)
    BY <2>1 DEF RegionEnd
  <2> QED BY <1>1, <1>2, <2>1, <2>2 DEF RegionUnits, BlockUnits
<1>9. x.size >= NodeSize
  BY <1>2
<1>10. Len(regions) \in Nat
  BY <1>4
<1>11. ~misplaced'
  BY <1>5, <1>6, ZenonT(30)
<1> HIDE DEF x
<1> QED BY <1>7, <1>8, <1>9, <1>10, <1>11, ZenonT(30)

\* dealloc keeps them apart.
LEMMA ListDeallocInv ==
  ASSUME ListInv, NEW b \in blocks, ListDealloc(b)
  PROVE  ListInv'
<1> DEFINE n == Len(regions)
           U(k) == RegionUnits(regions[k])
           V(j) == RegionUnits(regions'[j])
<1>1. /\ regions' \in Seq([start : Nat, size : Nat]) /\ ~misplaced'
      /\ Len(regions') = n + 1 /\ n \in Nat
      /\ regions'[1].size >= NodeSize /\ V(1) = BlockUnits(b)
      /\ \A j \in 2 .. n + 1 : regions'[j] = regions[j - 1]
  BY DeallocTurns
<1>2. blocks' = blocks \ {b}
  BY DEF ListDealloc
<1>3. DOMAIN regions' = 1 .. n + 1 /\ DOMAIN regions = 1 .. n
  BY <1>1 DEF ListInv
<1> HIDE DEF n
<1>4. \A j \in 1 .. n + 1 : j = 1 \/ (j \in 2 .. n + 1 /\ j - 1 \in 1 .. n)
  BY <1>1
<1>5. \A j \in 1 .. n + 1 : j # 1 => V(j) = U(j - 1) /\ regions'[j].size >= NodeSize
  BY <1>1, <1>3, <1>4, ZenonT(30) DEF ListInv
<1>6. /\ \A j, k \in DOMAIN regions : j # k => U(j) \cap U(k) = {}
      /\ \A k \in DOMAIN regions, c \in blocks : U(k) \cap BlockUnits(c) = {}
      /\ \A c, d \in blocks : c # d => BlockUnits(c) \cap BlockUnits(d) = {}
      /\ \A c \in blocks : c.ptr % c.layout.align = 0
  BY DEF ListInv, RegionsSound
<1> HIDE DEF U, V
<1>7. \A j, k \in 1 .. n + 1 : j # k => V(j) \cap V(k) = {}
  <2> SUFFICES ASSUME NEW j \in 1 .. n + 1, NEW k \in 1 .. n + 1, j # k
               PROVE  V(j) \cap V(k) = {}
    OBVIOUS
  <2>1. CASE j = 1
    <3>1. V(k) = U(k - 1) /\ k - 1 \in DOMAIN regions
      BY <1>3, <1>4, <1>5, <2>1
    <3> QED BY <1>1, <1>6, <2>1, <3>1
  <2>2. CASE k = 1
    <3>1. V(j) = U(j - 1) /\ j - 1 \in DOMAIN regions
      BY <1>3, <1>4, <1>5, <2>2
    <3> QED BY <1>1, <1>6, <2>2, <3>1
  <2>3. CASE j # 1 /\ k # 1
    <3>1. /\ V(j) = U(j - 1) /\ j - 1 \in DOMAIN regions
          /\ V(k) = U(k - 1) /\ k - 1 \in DOMAIN regions
      BY <1>3, <1>4, <1>5, <2>3
    <3>2. j - 1 # k - 1
      BY <1>1
    <3> QED BY <1>6, <3>1, <3>2
  <2> QED BY <2>1, <2>2, <2>3
<1>8. \A j \in 1 .. n + 1, c \in blocks' : V(j) \cap BlockUnits(c) = {}
  <2> SUFFICES ASSUME NEW j \in 1 .. n + 1, NEW c \in blocks'
               PROVE  V(j) \cap BlockUnits(c) = {}
    OBVIOUS
  <2>1. CASE j = 1
    BY <1>1, <1>2, <1>6, <2>1
  <2>2. CASE j # 1
    <3>1. V(j) = U(j - 1) /\ j - 1 \in DOMAIN regions
      BY <1>3, <1>4, <1>5, <2>2
    <3> QED BY <1>2, <1>6, <3>1
  <2> QED BY <2>1, <2>2
<1>9. RegionsSound'
  <2>1. \A c, d \in blocks' : c # d => BlockUnits(c) \cap BlockUnits(d) = {}
    BY <1>2, <1>6
  <2>2. \A c \in blocks' : c.ptr % c.layout.align = 0
    BY <1>2, <1>6
  <2> QED BY <1>1, <1>3, <1>7, <1>8, <2>1, <2>2, ZenonT(30) DEF RegionsSound, V, RegionUnits, RegionEnd,
             BlockUnits, PaddedSize, NodeSize, UpTo
<1>10. \A j \in DOMAIN regions' : regions'[j].size >= NodeSize
  <2> SUFFICES ASSUME NEW j \in 1 .. n + 1
               PROVE  regions'[j].size >= NodeSize
    BY <1>3
  <2> QED BY <1>1, <1>5, ZenonT(30)
<1>11. blocks' \subseteq [ptr : Nat, layout : ListLayouts]
  BY <1>2 DEF ListInv
<1> QED BY <1>1, <1>9, <1>10, <1>11 DEF ListInv, NodeSize

\* The units the list accounts for, before and after a step.
LEMMA ListOwnedUnits ==
  ASSUME NEW u
  PROVE  /\ u \in ListOwned <=> \/ \E k \in DOMAIN regions : u \in RegionUnits(regions[k])
                                \/ \E b \in blocks : u \in BlockUnits(b)
         /\ u \in ListOwned' <=> \/ \E j \in DOMAIN regions' : u \in RegionUnits(regions'[j])
                                 \/ \E b \in blocks' : u \in BlockUnits(b)
<1> DEFINE R == UNION {RegionUnits(regions[k]) : k \in DOMAIN regions}
           B == UNION {BlockUnits(b) : b \in blocks}
           S == UNION {RegionUnits(regions'[k]) : k \in DOMAIN regions'}
           C == UNION {BlockUnits(b) : b \in blocks'}
<1>1. ListOwned = R \cup B
  BY DEF ListOwned
<1>2. ListOwned' = S \cup C
  BY DEF ListOwned, RegionUnits, RegionEnd, BlockUnits, PaddedSize, NodeSize, UpTo
<1>3. /\ u \in R <=> \E k \in DOMAIN regions : u \in RegionUnits(regions[k])
      /\ u \in S <=> \E k \in DOMAIN regions' : u \in RegionUnits(regions'[k])
  OBVIOUS
<1>4. /\ u \in B <=> \E b \in blocks : u \in BlockUnits(b)
      /\ u \in C <=> \E b \in blocks' : u \in BlockUnits(b)
  OBVIOUS
<1> HIDE DEF R, B, S, C
<1> QED BY <1>1, <1>2, <1>3, <1>4

\* alloc loses what lies between the start of the region and the aligned start.
LEMMA AllocLoses ==
  ASSUME ListInv, NEW l \in ListLayouts, ListAlloc(l)
  PROVE  OnlyPaddingLost
<1>0. PICK i \in DOMAIN regions, p \in Nat, e \in Nat : \E f : AllocTurns(l, i, p, e, f)
  BY AllocComes
<1>1. PICK f : AllocTurns(l, i, p, e, f)
  BY <1>0
<1> DEFINE n == [ptr |-> p, layout |-> l]
           U(k) == RegionUnits(regions[k])
           V(j) == RegionUnits(regions'[j])
           rest == e .. RegionEnd(regions[i]) - 1
           lost == regions[i].start .. p - 1
<1>2. /\ blocks' = blocks \cup {n}
      /\ \A j \in DOMAIN regions' : f[j] \in DOMAIN regions
      /\ \A k \in DOMAIN regions : k # i => \E j \in DOMAIN regions' : f[j] = k
  BY <1>1 DEF AllocTurns, Comes
<1>3. /\ U(i) = (lost \cup BlockUnits(n)) \cup rest
      /\ \A j \in DOMAIN regions' : V(j) = IF f[j] = i THEN rest ELSE U(f[j])
      /\ BlockUnits(n) = p .. e - 1
  <2> HIDE DEF rest, n
  <2> QED BY <1>1, AllocUnits DEF rest, n, lost
<1>4. rest = {} \/ \E j \in DOMAIN regions' : f[j] = i
  <2>1. CASE e = RegionEnd(regions[i])
    BY <2>1
  <2> QED BY <1>1, <2>1 DEF AllocTurns
<1>5. lost \subseteq (p + 1 - l.align) .. (p - 1)
  <2>1. /\ regions[i].start \in Nat /\ p < regions[i].start + l.align
        /\ l.align \in Nat
    BY <1>1, PaddedFacts DEF AllocTurns
  <2> QED BY <2>1
<1>6. n \notin blocks
  <2>1. p \in U(i) /\ p \in BlockUnits(n)
    <3>1. e = p + PaddedSize(l) /\ PaddedSize(l) \in Nat /\ PaddedSize(l) >= 2
      BY <1>1, PaddedFacts DEF AllocTurns
    <3>2. p \in p .. e - 1
      BY <3>1
    <3> HIDE DEF U, n, lost, rest
    <3> QED BY <1>3, <3>2
  <2>2. \A b \in blocks : U(i) \cap BlockUnits(b) = {}
    BY DEF ListInv, RegionsSound
  <2> HIDE DEF U, n
  <2> QED BY <2>1, <2>2
<1> HIDE DEF U, V, rest, lost, n
<1>7. ASSUME NEW u PROVE u \in ListOwned' => u \in ListOwned
  <2>1. ASSUME NEW j \in DOMAIN regions', u \in V(j) PROVE \E k \in DOMAIN regions : u \in U(k)
    <3>1. V(j) \subseteq U(f[j])
      BY <1>3, ZenonT(30)
    <3> QED BY <1>2, <2>1, <3>1
  <2>2. u \in BlockUnits(n) => u \in U(i)
    BY <1>3
  <2> QED BY <1>2, <2>1, <2>2, ListOwnedUnits DEF U, V
<1>8. ASSUME NEW u, u \in ListOwned, u \notin ListOwned' PROVE u \in lost
  <2>1. \A b \in blocks : u \notin BlockUnits(b)
    BY <1>2, <1>8, ListOwnedUnits
  <2>2. PICK k \in DOMAIN regions : u \in U(k)
    BY <1>8, <2>1, ListOwnedUnits DEF U
  <2>3. \A j \in DOMAIN regions' : u \notin V(j)
    BY <1>8, ListOwnedUnits DEF V
  <2>4. k = i
    BY <1>2, <1>3, <2>2, <2>3
  <2>5. u \notin BlockUnits(n)
    BY <1>2, <1>8, ListOwnedUnits
  <2>6. u \notin rest
    BY <1>3, <1>4, <2>3
  <2> QED BY <1>3, <2>2, <2>4, <2>5, <2>6
<1>9. n \in blocks' \ blocks /\ n.ptr = p /\ n.layout = l
  BY <1>2, <1>6 DEF n
<1>10. ListOwned' \subseteq ListOwned
  BY <1>7
<1>11. ListOwned \ ListOwned' \subseteq (n.ptr + 1 - n.layout.align) .. (n.ptr - 1)
  BY <1>5, <1>8, <1>9, ZenonT(30)
<1> QED BY <1>9, <1>10, <1>11, ZenonT(30) DEF OnlyPaddingLost

\* dealloc loses nothing.
LEMMA DeallocLosesNothing ==
  ASSUME ListInv, NEW b \in blocks, ListDealloc(b)
  PROVE  ListOwned' = ListOwned
<1> DEFINE n == Len(regions)
           U(k) == RegionUnits(regions[k])
           V(j) == RegionUnits(regions'[j])
<1>1. /\ regions' \in Seq([start : Nat, size : Nat])
      /\ Len(regions') = n + 1 /\ n \in Nat /\ V(1) = BlockUnits(b)
      /\ \A j \in 2 .. n + 1 : regions'[j] = regions[j - 1]
  BY DeallocTurns
<1>2. blocks' = blocks \ {b}
  BY DEF ListDealloc
<1>3. DOMAIN regions' = 1 .. n + 1 /\ DOMAIN regions = 1 .. n
  BY <1>1 DEF ListInv
<1> HIDE DEF n
<1>4. \A j \in 1 .. n + 1 : j = 1 \/ (j \in 2 .. n + 1 /\ j - 1 \in 1 .. n)
  BY <1>1
<1>5. \A k \in 1 .. n : k + 1 \in 2 .. n + 1 /\ k + 1 \in 1 .. n + 1 /\ (k + 1) - 1 = k
  BY <1>1
<1>6. \A j \in 2 .. n + 1 : V(j) = U(j - 1)
  BY <1>1
<1>7. \A k \in 1 .. n : V(k + 1) = U(k)
  BY <1>5, <1>6
<1>8. 1 \in 1 .. n + 1
  BY <1>1
<1> HIDE DEF U, V
<1>9. ASSUME NEW u
      PROVE  (\E j \in 1 .. n + 1 : u \in V(j))
               <=> u \in BlockUnits(b) \/ \E k \in 1 .. n : u \in U(k)
  <2>1. ASSUME NEW j \in 1 .. n + 1, u \in V(j)
        PROVE  u \in BlockUnits(b) \/ \E k \in 1 .. n : u \in U(k)
    BY <1>1, <1>4, <1>6, <2>1
  <2>2. ASSUME NEW k \in 1 .. n, u \in U(k) PROVE \E j \in 1 .. n + 1 : u \in V(j)
    BY <1>5, <1>7, <2>2
  <2>3. u \in BlockUnits(b) => u \in V(1)
    BY <1>1
  <2> QED BY <1>8, <2>1, <2>2, <2>3
<1>10. ASSUME NEW u PROVE u \in ListOwned' <=> u \in ListOwned
  BY <1>2, <1>3, <1>9, ListOwnedUnits DEF U, V
<1> QED BY <1>10, ZenonT(30)
-----------------------------------------------------------------------------
(* Both allocators *)

\* A step of either keeps its invariant.
LEMMA ListStep ==
  ASSUME ListInv, [ListNext]_listVars
  PROVE  ListInv' /\ OnlyPaddingLost
<1>1. CASE UNCHANGED listVars
  <2>1. regions' = regions /\ blocks' = blocks /\ misplaced' = misplaced
    BY <1>1 DEF listVars
  <2>2. RegionsSound'
    BY <2>1, ZenonT(30) DEF ListInv, RegionsSound, RegionUnits, RegionEnd, BlockUnits, PaddedSize,
                NodeSize, UpTo
  <2>3. ListInv'
    BY <2>1, <2>2 DEF ListInv, NodeSize
  <2>4. ListOwned' = ListOwned
    BY <2>1 DEF ListOwned, RegionUnits, RegionEnd, BlockUnits, PaddedSize, NodeSize, UpTo
  <2> QED BY <2>3, <2>4 DEF OnlyPaddingLost
<1>2. ASSUME NEW l \in ListLayouts, ListAlloc(l) PROVE ListInv' /\ OnlyPaddingLost
  BY <1>2, ListAllocInv, AllocLoses
<1>3. ASSUME NEW b \in blocks, ListDealloc(b) PROVE ListInv' /\ OnlyPaddingLost
  BY <1>3, ListDeallocInv, DeallocLosesNothing DEF OnlyPaddingLost
<1> QED BY <1>1, <1>2, <1>3 DEF ListNext, ListAllocNull

\* init gives the list one region, the heap.
LEMMA ListInitially == ListInit => ListInv
<1> SUFFICES ASSUME ListInit PROVE ListInv
  OBVIOUS
<1>1. ListLen \in Nat /\ ListLen >= 2
  BY ListAssumption
<1> DEFINE x == [start |-> 0, size |-> ListLen]
<1>2. x \in [start : Nat, size : Nat] /\ x.size >= NodeSize
  BY <1>1 DEF NodeSize
<1>3. regions = <<x>> /\ blocks = {} /\ misplaced = FALSE
  BY DEF ListInit
<1> HIDE DEF x
<1>4. /\ regions \in Seq([start : Nat, size : Nat])
      /\ \A i \in DOMAIN regions : i = 1 /\ regions[i] = x
  BY <1>2, <1>3
<1>5. RegionsSound
  BY <1>3, <1>4, ZenonT(30) DEF RegionsSound
<1>6. \A i \in DOMAIN regions : regions[i].size >= NodeSize
  BY <1>2, <1>4, ZenonT(30)
<1> QED BY <1>3, <1>4, <1>5, <1>6 DEF ListInv

\* Both invariants hold in every state, and every step loses memory in the known ways.
LEMMA HeapStep ==
  ASSUME HeapInv, [HeapNext]_heapRunVars
  PROVE  HeapInv' /\ OnlyRestsLost /\ OnlyPaddingLost
<1>1. [Next]_vars /\ [ListNext]_listVars
  BY DEF HeapNext, heapRunVars
<1>2. BlockInv /\ ListInv
  BY DEF HeapInv
<1> QED BY <1>1, <1>2, BlockStep, RestsStep, ListStep DEF HeapInv

\* HeapInv always holds.
THEOREM HeapInvariant == HeapSpec => []HeapInv
<1>1. HeapInit => HeapInv
  BY BlockInitially, ListInitially DEF HeapInit, HeapInv
<1>2. HeapInv /\ [HeapNext]_heapRunVars => HeapInv'
  BY HeapStep
<1> QED BY <1>1, <1>2, PTL DEF HeapSpec

\* The handler that allocates never finds the lock taken by the task it interrupted:
\* GlobalAlloc's without_interrupts masks interrupts for as long as the lock is held.
THEOREM HeapLockIsFree == HeapSpec => []HeapLockFree
<1>1. HeapInv => HeapLockFree
  BY DEF HeapInv, BlockInv, LockInv, HeapLockFree
<1> QED BY <1>1, HeapInvariant, PTL

\* No two owners of memory overlap and every pointer has its alignment, in both
\* allocators, for any classes, layouts and heap length.
THEOREM MemoryIsSound == HeapSpec => []MemorySound
<1>1. HeapInv => MemorySound
  BY BlockInvSound DEF HeapInv, BlockInv, ListInv, MemorySound
<1> QED BY <1>1, HeapInvariant, PTL

\* Each allocator loses memory in its one way, and never more than it says: the rest of
\* a block returned under a smaller layout, the padding before an aligned start.
THEOREM LossIsExplained == HeapSpec => LossExplained
<1>1. HeapInv /\ [HeapNext]_heapRunVars => [OnlyRestsLost /\ OnlyPaddingLost]_heapRunVars
  BY HeapStep
<1> QED BY <1>1, HeapInvariant, PTL DEF HeapSpec, LossExplained
=============================================================================
