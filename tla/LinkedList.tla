----------------------------- MODULE LinkedList -----------------------------
(***************************************************************************)
(* LinkedListAllocator (allocator/linked_list.rs), the allocator the       *)
(* kernel keeps beside the one it uses: a list of free regions, searched   *)
(* first fit, never merged. Counted in units of 8 bytes, the alignment of  *)
(* a ListNode, which is two units long. Every call runs under the lock.    *)
(***************************************************************************)
EXTENDS Naturals, Sequences, FiniteSetsExt

CONSTANTS ListLen,      \* units of the heap
          ListLayouts,  \* the requests [size, align]
          ListLive      \* bound: allocations alive at a time

ASSUME ListAssumption ==
  /\ ListLen \in Nat \ {0, 1} /\ ListLive \in Nat
  /\ ListLayouts \subseteq [size : Nat \ {0}, align : Nat \ {0}]

VARIABLES regions,    \* the free regions [start, size], from the head of the list on
          blocks,     \* the allocations [ptr, layout]
          misplaced   \* an assertion of add_free_region has failed

listVars == <<regions, blocks, misplaced>>

NodeSize == 2
UpTo(n, align) == ((n + align - 1) \div align) * align

\* size_align: padded to the alignment, and no shorter than a node.
PaddedSize(layout) == Max({UpTo(layout.size, layout.align), NodeSize})

\* init hands the whole heap to add_free_region.
ListInit == /\ regions = <<[start |-> 0, size |-> ListLen]>>
            /\ blocks = {} /\ misplaced = FALSE

\* add_free_region: at the head of the list, if its assertions hold.
Asserted(size) == misplaced' = (size < NodeSize)
WithRegion(list, start, size) == <<[start |-> start, size |-> size]>> \o list

RegionEnd(r) == r.start + r.size

\* alloc_from_region: room for the block, and for a node in what is left behind it.
AllocFromRegion(r, layout) ==
  LET alloc_end == UpTo(r.start, layout.align) + PaddedSize(layout)
      excess_size == RegionEnd(r) - alloc_end
  IN  alloc_end <= RegionEnd(r) /\ (excess_size = 0 \/ excess_size >= NodeSize)

Suitable(layout) == {i \in DOMAIN regions : AllocFromRegion(regions[i], layout)}

\* find_region takes a region out of the list.
Unlink(list, i) == SubSeq(list, 1, i - 1) \o SubSeq(list, i + 1, Len(list))

\* alloc: find_region unlinks the first region that serves; what is left behind the
\* block goes back to the list, what is left before it does not.
ListAlloc(layout) ==
  /\ Suitable(layout) # {}
  /\ LET i == Min(Suitable(layout))
         r == regions[i]
         alloc_start == UpTo(r.start, layout.align)
         alloc_end == alloc_start + PaddedSize(layout)
         excess_size == RegionEnd(r) - alloc_end
     IN  /\ blocks' = blocks \cup {[ptr |-> alloc_start, layout |-> layout]}
         /\ IF excess_size > 0
            THEN /\ regions' = WithRegion(Unlink(regions, i), alloc_end, excess_size)
                 /\ Asserted(excess_size)
            ELSE regions' = Unlink(regions, i) /\ UNCHANGED misplaced

\* The null pointer.
ListAllocNull(layout) == Suitable(layout) = {} /\ UNCHANGED listVars

\* Mutation: the block comes back with the size that was asked for.
ListDeallocUnpadded(b) ==
  /\ blocks' = blocks \ {b}
  /\ regions' = WithRegion(regions, b.ptr, b.layout.size)
  /\ Asserted(b.layout.size)

ListDealloc(b) ==
  /\ blocks' = blocks \ {b}
  /\ regions' = WithRegion(regions, b.ptr, PaddedSize(b.layout))
  /\ Asserted(PaddedSize(b.layout))

ListNext == \/ \E l \in ListLayouts : /\ Cardinality(blocks) < ListLive
                                      /\ ListAlloc(l) \/ ListAllocNull(l)
            \/ \E b \in blocks : ListDealloc(b)
-----------------------------------------------------------------------------
(* Properties *)

RegionUnits(r) == r.start .. RegionEnd(r) - 1
BlockUnits(b) == b.ptr .. b.ptr + PaddedSize(b.layout) - 1

\* No two regions of the list and no two blocks share memory, so that the node
\* add_free_region writes into a region never lands in a block, or in another node;
\* its assertions hold, and every block is aligned as it was asked for.
RegionsSound ==
  /\ \A i, j \in DOMAIN regions :
       i # j => RegionUnits(regions[i]) \cap RegionUnits(regions[j]) = {}
  /\ \A i \in DOMAIN regions, b \in blocks : RegionUnits(regions[i]) \cap BlockUnits(b) = {}
  /\ \A b, c \in blocks : b # c => BlockUnits(b) \cap BlockUnits(c) = {}
  /\ \A b \in blocks : b.ptr % b.layout.align = 0
  /\ ~misplaced

ListOwned == (UNION {RegionUnits(regions[i]) : i \in DOMAIN regions})
             \cup (UNION {BlockUnits(b) : b \in blocks})

\* Memory is lost in one way only: an allocation abandons what lies before its
\* aligned start, less than one alignment. A deallocation loses nothing.
OnlyPaddingLost ==
  ListOwned' # ListOwned =>
    \E b \in blocks' \ blocks :
      /\ ListOwned' \subseteq ListOwned
      /\ ListOwned \ ListOwned' \subseteq (b.ptr + 1 - b.layout.align) .. (b.ptr - 1)
=============================================================================
