--------------------------- MODULE FrameAllocator ---------------------------
(***************************************************************************)
(* The two stages of physical frame allocation (memory.rs): during boot    *)
(* BootInfoFrameAllocator walks the memory map for the heap's frames, then *)
(* SmartFrameAllocator takes over what is left and also takes frames back. *)
(* Addresses are counted in 4 KiB frames; the map is sorted and its regions*)
(* do not overlap, as the bootloader delivers it.                          *)
(***************************************************************************)
EXTENDS Naturals, Sequences, FiniteSets, Functions

CONSTANTS MemoryMaps,  \* memory maps: sequences of [start, end, usable]
          HeapFrames,  \* frames allocator::init asks for: heap pages and tables
          Sizes        \* the page sizes S asked of the second stage

ASSUME MapAssumption ==
  /\ \A m \in MemoryMaps :
       /\ m \in Seq([start : Nat, end : Nat, usable : BOOLEAN])
       /\ \A i \in DOMAIN m : m[i].start < m[i].end
       /\ \A i, j \in DOMAIN m : i < j => m[i].end <= m[j].start
  /\ HeapFrames \in Nat
  /\ Sizes \subseteq Nat \ {0}

VARIABLES
  memory_map,       \* the map the bootloader passed, one of MemoryMaps
  phase,            \* "boot", "smart", or "failed": allocator::init's unwrap
  memory_map_iter,  \* how much of the map the first stage has read
  current_region,   \* its region, as a sequence of at most one range
  memory_ranges,    \* the second stage's free ranges
  heap,             \* the frames the first stage handed out
  handed            \* the frames [start, size] handed out and not taken back

vars == <<memory_map, phase, memory_map_iter, current_region, memory_ranges, heap,
          handed>>

Span(r) == r.start .. r.end - 1
FrameSpan(f) == f.start .. f.start + f.size - 1
FreeFrames == UNION {Span(memory_ranges[i]) : i \in DOMAIN memory_ranges}
HandedFrames == UNION {FrameSpan(f) : f \in handed}
UsableFrames == UNION {Span(r) : r \in {q \in Range(memory_map) : q.usable}}

\* The elements of S, each at its place in the order before.
InOrder(S, before) ==
  [k \in 1 .. Cardinality(S) |->
     CHOOSE i \in S : Cardinality({j \in S : <<j, i>> \in before}) = k - 1]

Arranged(seq, S, before) ==
  LET order == InOrder(S, before) IN [k \in DOMAIN order |-> seq[order[k]]]

\* Iterator::filter: the elements at the indices in S.
Filtered(seq, S) == Arranged(seq, S, {p \in S \X S : p[1] < p[2]})

Range0(a, b) == [start |-> a, end |-> b]
Ranges == {r \in [start : Nat, end : Nat] : r.start <= r.end}

TypeOK == /\ memory_map \in MemoryMaps
          /\ phase \in {"boot", "smart", "failed"}
          /\ memory_map_iter \in 0 .. Len(memory_map)
          /\ current_region \in Seq(Ranges) /\ Len(current_region) <= 1
          /\ memory_ranges \in Seq(Ranges)
          /\ heap \subseteq Nat
          /\ handed \subseteq [start : Nat, size : Sizes]

\* BootInfoFrameAllocator::init.
Init == /\ memory_map \in MemoryMaps
        /\ phase = "boot" /\ memory_map_iter = 0 /\ current_region = <<>>
        /\ memory_ranges = <<>> /\ heap = {} /\ handed = {}
-----------------------------------------------------------------------------
(* BootInfoFrameAllocator::allocate_frame, the steps of its loop.          *)

BootFrame ==
  /\ phase = "boot" /\ Cardinality(heap) < HeapFrames
  /\ current_region # <<>>
  /\ current_region[1].start + 1 <= current_region[1].end
  /\ heap' = heap \cup {current_region[1].start}
  /\ current_region' = <<[current_region[1] EXCEPT !.start = @ + 1]>>
  /\ UNCHANGED <<memory_map, phase, memory_map_iter, memory_ranges, handed>>

BootRegionUsedUp ==
  /\ phase = "boot" /\ Cardinality(heap) < HeapFrames
  /\ current_region # <<>>
  /\ current_region[1].start + 1 > current_region[1].end
  /\ current_region' = <<>>
  /\ UNCHANGED <<memory_map, phase, memory_map_iter, memory_ranges, heap, handed>>

BootNextRegion ==
  /\ phase = "boot" /\ Cardinality(heap) < HeapFrames
  /\ current_region = <<>>
  /\ memory_map_iter < Len(memory_map)
  /\ memory_map_iter' = memory_map_iter + 1
  /\ current_region' = LET r == memory_map[memory_map_iter']
                       IN  IF r.usable THEN <<Range0(r.start, r.end)>> ELSE <<>>
  /\ UNCHANGED <<memory_map, phase, memory_ranges, heap, handed>>

\* No region is left, and allocator::init unwraps None.
BootExhausted ==
  /\ phase = "boot" /\ Cardinality(heap) < HeapFrames
  /\ current_region = <<>>
  /\ memory_map_iter = Len(memory_map)
  /\ phase' = "failed"
  /\ UNCHANGED <<memory_map, memory_map_iter, current_region, memory_ranges, heap, handed>>

\* SmartFrameAllocator::init after the heap is mapped: the regions not yet read
\* whose kind is not Usable, and what is left of the region being read.
SmartInit ==
  /\ phase = "boot" /\ Cardinality(heap) = HeapFrames
  /\ phase' = "smart"
  /\ memory_ranges' =
       LET rest == Filtered(memory_map,
                            {i \in memory_map_iter + 1 .. Len(memory_map) : ~memory_map[i].usable})
       IN  [i \in DOMAIN rest |-> Range0(rest[i].start, rest[i].end)] \o current_region
  /\ UNCHANGED <<memory_map, memory_map_iter, current_region, heap, handed>>
-----------------------------------------------------------------------------
(* SmartFrameAllocator *)

\* Mutation: the frame is returned but its range does not shrink.
AllocateFrameKept(S) ==
  /\ phase = "smart"
  /\ \E i \in DOMAIN memory_ranges :
       LET r == memory_ranges[i]
       IN  /\ r.start + S <= r.end
           /\ \A j \in 1 .. i - 1 : memory_ranges[j].start + S > memory_ranges[j].end
           /\ memory_ranges' = [memory_ranges EXCEPT ![i].start = @]
           /\ handed' = handed \cup {[start |-> r.start - (r.start % S), size |-> S]}
  /\ UNCHANGED <<memory_map, phase, memory_map_iter, current_region, heap>>

\* allocate_frame: the first range with room; the address is rounded down to S.
AllocateFrame(S) ==
  /\ phase = "smart"
  /\ \E i \in DOMAIN memory_ranges :
       LET r == memory_ranges[i]
       IN  /\ r.start + S <= r.end
           /\ \A j \in 1 .. i - 1 : memory_ranges[j].start + S > memory_ranges[j].end
           /\ memory_ranges' = [memory_ranges EXCEPT ![i].start = @ + S]
           /\ handed' = handed \cup {[start |-> r.start - (r.start % S), size |-> S]}
  /\ UNCHANGED <<memory_map, phase, memory_map_iter, current_region, heap>>

\* Mutation: joining keeps the end of the first range.
JoinKeepsEnd(x, y) ==
  IF x.end = y.start THEN <<Range0(x.start, x.end)>>
  ELSE IF y.end = x.start THEN <<Range0(y.start, x.end)>>
  ELSE <<x, y>>

\* The closure given to Itertools::coalesce.
Join(x, y) ==
  IF x.end = y.start THEN <<Range0(x.start, y.end)>>
  ELSE IF y.end = x.start THEN <<Range0(y.start, x.end)>>
  ELSE <<x, y>>

\* sort_by_key, which keeps the order of equal keys.
Sorted(ranges) ==
  Arranged(ranges, DOMAIN ranges,
           {p \in (DOMAIN ranges) \X (DOMAIN ranges) :
              LET a == ranges[p[1]].start
                  b == ranges[p[2]].start
              IN  a < b \/ (a = b /\ p[1] < p[2])})

\* Itertools::coalesce: the last range it holds meets the next one.
CoalesceStep(acc, y) ==
  IF acc = <<>> THEN <<y>>
  ELSE SubSeq(acc, 1, Len(acc) - 1) \o Join(acc[Len(acc)], y)

\* What it has made of the first k ranges.
Coalesced(ranges) ==
  LET acc[k \in 0 .. Len(ranges)] ==
        IF k = 0 THEN <<>> ELSE CoalesceStep(acc[k - 1], ranges[k])
  IN  acc

\* coallesce: sort by start, join neighbours, drop what is empty.
Coallesce(ranges) ==
  LET joined == Coalesced(Sorted(ranges))[Len(ranges)]
  IN  Filtered(joined, {i \in DOMAIN joined : joined[i].start # joined[i].end})

\* deallocate_frame of a frame that was handed out.
DeallocateFrame(f) ==
  /\ phase = "smart"
  /\ memory_ranges' = Coallesce(Append(memory_ranges, Range0(f.start, f.start + f.size)))
  /\ handed' = handed \ {f}
  /\ UNCHANGED <<memory_map, phase, memory_map_iter, current_region, heap>>

\* allocate_frame returns None.
AllocateNone(S) ==
  /\ phase = "smart"
  /\ \A i \in DOMAIN memory_ranges : memory_ranges[i].start + S > memory_ranges[i].end
  /\ UNCHANGED vars

\* allocator::init has panicked.
Panicked == phase = "failed" /\ UNCHANGED vars

Next == \/ BootFrame \/ BootRegionUsedUp \/ BootNextRegion \/ BootExhausted \/ SmartInit
        \/ \E S \in Sizes : AllocateFrame(S) \/ AllocateNone(S)
        \/ \E f \in handed : DeallocateFrame(f)
        \/ Panicked

Spec == Init /\ [][Next]_vars
-----------------------------------------------------------------------------
(* Properties *)

\* No frame has two owners: the heap's frames, the frames handed out and the free
\* ranges are apart, and no two free ranges and no two handed frames overlap.
FramesHaveOneOwner ==
  /\ heap \cap (HandedFrames \cup FreeFrames) = {}
  /\ HandedFrames \cap FreeFrames = {}
  /\ \A f, g \in handed : f # g => FrameSpan(f) \cap FrameSpan(g) = {}
  /\ \A i, j \in DOMAIN memory_ranges :
       i # j => Span(memory_ranges[i]) \cap Span(memory_ranges[j]) = {}

\* Allocation and deallocation neither lose nor invent a frame, through any
\* number of splits of ranges and of sorting and joining in coallesce.
FramesConserved ==
  [][phase = "smart" =>
       HandedFrames' \cup FreeFrames' = HandedFrames \cup FreeFrames]_vars

\* Only frames the memory map marks usable are handed out, to the heap or later.
OnlyUsableFrames == heap \cup HandedFrames \subseteq UsableFrames
=============================================================================
