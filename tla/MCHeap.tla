-------------------------------- MODULE MCHeap --------------------------------
(***************************************************************************)
(* Both allocators of the kernel, one at a time: layouts that fill their   *)
(* class, that are smaller than it, that need it for their alignment only, *)
(* and one too large for every class.                                      *)
(***************************************************************************)
EXTENDS BlockAllocator, LinkedList

VARIABLE allocator  \* which one this is

heapRunVars == <<vars, listVars, allocator>>

HeapInit == /\ Init /\ ListInit
            /\ allocator \in {"block", "linked_list"}

HeapNext == \/ allocator = "block" /\ Next /\ UNCHANGED <<listVars, allocator>>
            \/ allocator = "linked_list" /\ ListNext /\ UNCHANGED <<vars, allocator>>

HeapSpec == HeapInit /\ [][HeapNext]_heapRunVars

\* In either allocator no two owners of memory overlap and every pointer handed out
\* has the alignment of its layout, through every sequence of alloc and dealloc.
MemorySound == TypeOK /\ BlocksDisjoint /\ PointersAligned /\ RegionsSound

\* Memory leaves an allocator's books in one way each: a full list of the one in use
\* sends a block back under a smaller layout, the other abandons alignment padding.
LossExplained == [][OnlyRestsLost /\ OnlyPaddingLost]_heapRunVars

MCBlockSizes == <<1, 4>>

MCLayouts == { [size |-> 1, align |-> 1], [size |-> 4, align |-> 1],
               [size |-> 2, align |-> 1], [size |-> 1, align |-> 4],
               [size |-> 5, align |-> 1] }
=============================================================================
