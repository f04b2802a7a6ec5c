--------------------------- MODULE BlockAllocator ---------------------------
(***************************************************************************)
(* The global allocator (allocator/block.rs): lists of cached blocks, one  *)
(* per size class, in front of a linked-list heap.  A task, which may have *)
(* interrupts masked already, masks them and takes the lock, serves one    *)
(* request and restores the flag; a handler, which also allocates and      *)
(* frees, runs between any two of these steps when the flag is set, and    *)
(* serves its request in one.                                              *)
(* The heap is counted in units of 8 bytes, the size of a ListNode, to     *)
(* which the heap rounds every request up.                                 *)
(***************************************************************************)
EXTENDS Naturals, Sequences, FiniteSetsExt

CONSTANTS HeapLen,      \* units of the heap; KERNEL_HEAP_LEN
          BLOCK_SIZES,  \* the sizes of the classes, ascending
          MaxCached,    \* the length a list must exceed to get no more blocks
          Layouts,      \* the requests [size, align] made of it
          MaxLive       \* bound: allocations alive at a time

\* Sizes of classes and alignments are powers of two: the lesser divides the greater.
ASSUME BlockAssumption ==
  /\ HeapLen \in Nat /\ MaxCached \in Nat /\ MaxLive \in Nat
  /\ BLOCK_SIZES \in Seq(Nat \ {0})
  /\ Layouts \subseteq [size : Nat \ {0}, align : Nat \ {0}]
  /\ \A l \in Layouts, i \in DOMAIN BLOCK_SIZES :
       BLOCK_SIZES[i] >= l.align => BLOCK_SIZES[i] % l.align = 0

VARIABLES
  list_heads,  \* for each class the addresses of its cached blocks
  free,        \* the units that are free in fallback_allocator
  live,        \* the allocations [ptr, layout] not yet freed
  locked,      \* ALLOCATOR's lock
  interrupts,  \* the interrupt flag
  saved,       \* the flag as without_interrupts found it
  request      \* the request a task is making

vars == <<list_heads, free, live, locked, interrupts, saved, request>>
heapVars == <<list_heads, free, live>>

Classes == DOMAIN BLOCK_SIZES
Span(ptr, size) == ptr .. ptr + size - 1
Allocations == [ptr : 0 .. HeapLen - 1, layout : Layouts]

TypeOK == /\ list_heads \in [Classes -> Seq(0 .. HeapLen - 1)]
          /\ free \subseteq 0 .. HeapLen - 1
          /\ live \subseteq Allocations
          /\ {locked, interrupts, saved} \subseteq BOOLEAN
          /\ request \in {"none", "alloc", "dealloc", "done"}

\* FixedSizeBlockAllocator::new and init, once the heap is mapped.
Init == /\ list_heads = [i \in Classes |-> <<>>]
        /\ free = 0 .. HeapLen - 1
        /\ live = {}
        /\ locked = FALSE /\ interrupts = FALSE /\ saved = FALSE /\ request = "none"
-----------------------------------------------------------------------------
(* linked_list_allocator::Heap: a hole is at least two units long, and     *)
(* requests are rounded up to that.                                        *)

Rounded(size) == IF size < 2 THEN 2 ELSE size

Hole(from, to) == /\ from .. to - 1 \subseteq free
                  /\ from - 1 \notin free /\ to \notin free

\* The places allocate_first_fit may choose, Err when there is none: in each hole the
\* first aligned one that leaves nothing or a hole in front, if it also does behind.
Fits(layout) ==
  LET n == Rounded(layout.size)
      possible(from, a) == a % layout.align = 0 /\ a # from + 1
  IN  {a \in 0 .. HeapLen - 1 :
         \E from \in 0 .. a, to \in a + n .. HeapLen :
           /\ Hole(from, to)
           /\ possible(from, a) /\ \A b \in from .. a - 1 : ~possible(from, b)
           /\ to # a + n + 1}

FirstFit(layout) == CHOOSE a \in Fits(layout) : \A b \in Fits(layout) : a <= b
-----------------------------------------------------------------------------
\* The classes whose blocks can serve a layout; list_index is the smallest.
ListIndex(layout) ==
  {i \in Classes : BLOCK_SIZES[i] >= layout.size /\ BLOCK_SIZES[i] >= layout.align}

Index(layout) == CHOOSE i \in ListIndex(layout) : \A j \in ListIndex(layout) : i <= j

\* What the heap is asked for on behalf of a layout.
HeapLayout(layout) ==
  IF ListIndex(layout) = {} THEN layout
  ELSE [size |-> BLOCK_SIZES[Index(layout)], align |-> BLOCK_SIZES[Index(layout)]]

Cached(layout) == ListIndex(layout) # {} /\ list_heads[Index(layout)] # <<>>

\* Mutation: the block stays at the head of its list.
AllocCachedKept(layout) ==
  /\ Cached(layout)
  /\ live' = live \cup {[ptr |-> Head(list_heads[Index(layout)]), layout |-> layout]}
  /\ UNCHANGED <<list_heads, free>>

\* GlobalAlloc::alloc: a cached block of the class ...
AllocCached(layout) ==
  /\ Cached(layout)
  /\ live' = live \cup {[ptr |-> Head(list_heads[Index(layout)]), layout |-> layout]}
  /\ list_heads' = [list_heads EXCEPT ![Index(layout)] = Tail(@)]
  /\ UNCHANGED free

\* ... or a new one from the heap, or nothing of any class ...
AllocFallback(layout) ==
  /\ ~Cached(layout) /\ Fits(HeapLayout(layout)) # {}
  /\ LET a == FirstFit(HeapLayout(layout))
     IN  /\ free' = free \ Span(a, Rounded(HeapLayout(layout).size))
         /\ live' = live \cup {[ptr |-> a, layout |-> layout]}
  /\ UNCHANGED list_heads

\* ... or a null pointer.
AllocNull(layout) ==
  /\ ~Cached(layout) /\ Fits(HeapLayout(layout)) = {}
  /\ UNCHANGED heapVars

Alloc(layout) == AllocCached(layout) \/ AllocFallback(layout) \/ AllocNull(layout)

Keeps(layout) ==
  ListIndex(layout) # {} /\ Len(list_heads[Index(layout)]) <= MaxCached

\* GlobalAlloc::dealloc: the block goes to the head of its list ...
DeallocCache(b) ==
  /\ Keeps(b.layout)
  /\ list_heads' = [list_heads EXCEPT ![Index(b.layout)] = <<b.ptr>> \o @]
  /\ live' = live \ {b}
  /\ UNCHANGED free

\* ... or, if there are enough, to the heap, with the layout of the request.
DeallocFallback(b) ==
  /\ ~Keeps(b.layout)
  /\ free' = free \cup Span(b.ptr, Rounded(b.layout.size))
  /\ live' = live \ {b}
  /\ UNCHANGED list_heads

Dealloc(b) == DeallocCache(b) \/ DeallocFallback(b)

Serve(r) == \/ r = "alloc" /\ \E l \in Layouts : Alloc(l)
            \/ r = "dealloc" /\ \E b \in live : Dealloc(b)
-----------------------------------------------------------------------------
Requests == {"alloc", "dealloc"}

\* Bound: a request that can be served.
CanServe(r) == IF r = "alloc" THEN Cardinality(live) < MaxLive ELSE live # {}

\* Mutation: the task does not mask interrupts.
LockUnmasked(r) ==
  /\ request = "none" /\ ~locked /\ CanServe(r)
  /\ locked' = TRUE
  /\ request' = r
  /\ UNCHANGED <<heapVars, interrupts, saved>>

\* A task enters without_interrupts and takes the lock ...
Lock(r) ==
  /\ request = "none" /\ ~locked /\ CanServe(r)
  /\ saved' = interrupts
  /\ interrupts' = FALSE
  /\ locked' = TRUE
  /\ request' = r
  /\ UNCHANGED heapVars

\* ... is served ...
ServeTask ==
  /\ request \in Requests
  /\ Serve(request)
  /\ request' = "done"
  /\ UNCHANGED <<locked, interrupts, saved>>

\* ... and drops the guard and restores the flag.
Unlock ==
  /\ request = "done"
  /\ locked' = FALSE
  /\ interrupts' = saved
  /\ saved' = FALSE
  /\ request' = "none"
  /\ UNCHANGED heapVars

\* Between two requests the task's own code masks or enables interrupts.
SetFlag ==
  /\ request = "none"
  /\ interrupts' = ~interrupts
  /\ UNCHANGED <<heapVars, locked, saved, request>>

\* A request of an interrupt handler.
ServeHandler(r) ==
  /\ interrupts /\ ~locked /\ CanServe(r)
  /\ Serve(r)
  /\ UNCHANGED <<locked, interrupts, saved, request>>

Next == \/ \E r \in Requests : Lock(r) \/ ServeHandler(r)
        \/ ServeTask \/ Unlock \/ SetFlag

Spec == Init /\ [][Next]_vars
-----------------------------------------------------------------------------
(* Properties *)

\* The handler never finds the lock taken by the task it interrupted.
HeapLockFree == interrupts => ~locked

\* The unit ranges that are in use: of live allocations as whole blocks, and of
\* the blocks in the lists.
BlockOf(b) == Span(b.ptr, HeapLayout(b.layout).size)
CachedBlocks(i) == {Span(list_heads[i][n], BLOCK_SIZES[i]) : n \in DOMAIN list_heads[i]}

\* No two owners of memory overlap, though a block wanders through lists, is given
\* to requests of other layouts of its class and is returned to the heap in part.
BlocksDisjoint ==
  /\ \A b, c \in live : b # c => BlockOf(b) \cap BlockOf(c) = {}
  /\ \A b \in live : BlockOf(b) \cap free = {}
  /\ \A i \in Classes :
       /\ IsInjective(list_heads[i])
       /\ \A s \in CachedBlocks(i) :
            /\ s \cap free = {}
            /\ \A b \in live : s \cap BlockOf(b) = {}
            /\ \A j \in Classes : \A u \in CachedBlocks(j) : s # u => s \cap u = {}

\* Every pointer handed out has the alignment of its layout, also a pointer that
\* was first allocated for another layout of the class.
PointersAligned == \A b \in live : b.ptr % b.layout.align = 0

\* The units the heap gave away for a block.
Extent(b) == Span(b.ptr, Rounded(HeapLayout(b.layout).size))
CachedExtent(i, n) == Span(list_heads[i][n], Rounded(BLOCK_SIZES[i]))

Owned ==
  free \cup (UNION {Extent(b) : b \in live})
       \cup (UNION {UNION {CachedExtent(i, n) : n \in DOMAIN list_heads[i]} : i \in Classes})

\* Memory leaves the allocator's books only when a full list sends a block back
\* to the heap under a layout smaller than the block: dealloc's one leak.
OnlyRestsLost ==
  Owned' # Owned =>
    \E b \in live : /\ b \notin live' /\ Cardinality(free') > Cardinality(free)
                    /\ Rounded(b.layout.size) < Rounded(HeapLayout(b.layout).size)
                    /\ Owned' \subseteq Owned
                    /\ Owned \ Owned' \subseteq BlockOf(b)
=============================================================================
