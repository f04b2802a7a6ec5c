----------------------------- MODULE AcpiWindow -----------------------------
(***************************************************************************)
(* The virtual address ranges of the kernel (lib.rs) and the window in     *)
(* which the acpi crate sees physical memory (acpi.rs): regions are mapped *)
(* at its end, page by page, and give their pages back when dropped, in    *)
(* whichever order the crate drops them. Boot runs with interrupts masked, *)
(* so only the order of calls matters. Page tables are one function from   *)
(* pages to frames.                                                        *)
(***************************************************************************)
EXTENDS Naturals, Sequences

CONSTANTS CodeAddr, CodeLen,  \* the kernel image
          HeapLen, AcpiLen,   \* KERNEL_HEAP_LEN, KERNEL_ACPI_LEN
          Regions,            \* the physical regions [phys, size] the crate asks for
          MaxRegions          \* bound: regions mapped at a time

ASSUME SpaceAssumption ==
  /\ CodeAddr \in Nat /\ CodeLen \in Nat
  /\ HeapLen \in Nat \ {0} /\ AcpiLen \in Nat \ {0}
  /\ Regions \subseteq [phys : Nat, size : Nat \ {0}]
  /\ MaxRegions \in Nat

PageSize == 4096
PageOf(a) == a \div PageSize

AlignUp(a) == ((a + PageSize - 1) \div PageSize) * PageSize

\* kernel::init: each range begins at the page after the one before it.
KernelHeapAddr == AlignUp(CodeAddr + CodeLen)
KernelAcpiAddr == AlignUp(KernelHeapAddr + HeapLen)
KernelApicAddr == AlignUp(KernelAcpiAddr + AcpiLen)

\* allocator::init's page_range.
HeapPages == PageOf(KernelHeapAddr) .. PageOf(KernelHeapAddr + HeapLen - 1)

VARIABLES
  start_addr,  \* KernelAcpi::start_addr
  pages,       \* the window's page table: a function from pages to frames
  regions,     \* the live PhysicalMappings, oldest first
  reordered,   \* history: a region was dropped before a younger one, since the
               \* window was last empty
  call,        \* map_physical_region in progress, as a sequence of at most one
  fault        \* the panic that has stopped the kernel, or "none"

acpiVars == <<start_addr, pages, regions, reordered, call, fault>>

Faults == {"none", "exhausted", "already_mapped", "not_mapped", "no_frame",
           "lapic", "io_apic"}
Mappings == [virtual_start : Nat, phys : Nat, size : Nat \ {0}]
Calls == [phys : Nat, size : Nat \ {0}, first : Nat, next : Nat, last : Nat]

AcpiTypeOK == /\ start_addr \in Nat
              /\ DOMAIN pages \subseteq Nat /\ pages \in [DOMAIN pages -> Nat]
              /\ regions \in Seq(Mappings) /\ reordered \in BOOLEAN
              /\ call \in Seq(Calls) /\ Len(call) <= 1
              /\ fault \in Faults

\* KernelAcpi::new.
AcpiInit == /\ start_addr = KernelAcpiAddr
            /\ pages = [p \in {} |-> 0]
            /\ regions = <<>> /\ reordered = FALSE
            /\ call = <<>> /\ fault = "none"

Idle == fault = "none" /\ call = <<>>
-----------------------------------------------------------------------------
(* map_physical_region *)

EndAddrExclusive == KernelAcpiAddr + AcpiLen - 1

\* Mutation: the last page is that of the region's last byte, for mapping only.
MapBeginEndExclusive(r) ==
  /\ Idle /\ Len(regions) < MaxRegions
  /\ start_addr + r.size < EndAddrExclusive
  /\ call' = <<[phys |-> r.phys, size |-> r.size, first |-> PageOf(start_addr),
                next |-> PageOf(start_addr), last |-> PageOf(start_addr + r.size - 1)]>>
  /\ UNCHANGED <<start_addr, pages, regions, reordered, fault>>

MapBegin(r) ==
  /\ Idle /\ Len(regions) < MaxRegions
  /\ start_addr + r.size < EndAddrExclusive
  /\ call' = <<[phys |-> r.phys, size |-> r.size, first |-> PageOf(start_addr),
                next |-> PageOf(start_addr), last |-> PageOf(start_addr + r.size)]>>
  /\ UNCHANGED <<start_addr, pages, regions, reordered, fault>>

\* panic!("acpi memory exhausted")
MapExhausted(r) ==
  /\ Idle /\ Len(regions) < MaxRegions
  /\ start_addr + r.size >= EndAddrExclusive
  /\ fault' = "exhausted"
  /\ UNCHANGED <<start_addr, pages, regions, reordered, call>>

Mapping == fault = "none" /\ call # <<>> /\ call[1].next <= call[1].last
NextPage == call[1].next

\* Mutation: the page is mapped to the frame of its own number.
MapPageIdentity ==
  /\ Mapping /\ NextPage \notin DOMAIN pages
  /\ pages' = [p \in DOMAIN pages \cup {NextPage} |->
                 IF p = NextPage THEN NextPage ELSE pages[p]]
  /\ start_addr' = start_addr + PageSize
  /\ call' = <<[call[1] EXCEPT !.next = @ + 1]>>
  /\ UNCHANGED <<regions, reordered, fault>>

\* One page of the loop: every page gets the frame that holds physical_address.
\* The error of a page already mapped is unwrapped.
MapPage ==
  /\ Mapping
  /\ IF NextPage \in DOMAIN pages
     THEN /\ fault' = "already_mapped"
          /\ UNCHANGED <<start_addr, pages, call>>
     ELSE /\ pages' = [p \in DOMAIN pages \cup {NextPage} |->
                         IF p = NextPage THEN PageOf(call[1].phys) ELSE pages[p]]
          /\ start_addr' = start_addr + PageSize
          /\ call' = <<[call[1] EXCEPT !.next = @ + 1]>>
          /\ UNCHANGED fault
  /\ UNCHANGED <<regions, reordered>>

\* map_to finds no frame for a page table.
MapNoFrame == /\ Mapping
              /\ fault' = "no_frame"
              /\ UNCHANGED <<start_addr, pages, regions, reordered, call>>

MapEnd ==
  /\ fault = "none" /\ call # <<>> /\ call[1].next > call[1].last
  /\ regions' = Append(regions, [virtual_start |-> call[1].first * PageSize,
                                 phys |-> call[1].phys, size |-> call[1].size])
  /\ call' = <<>>
  /\ UNCHANGED <<start_addr, pages, reordered, fault>>
-----------------------------------------------------------------------------
(* unmap_physical_region, when the i-th of the live regions is dropped *)

RegionPages(m) == PageOf(m.virtual_start) .. PageOf(m.virtual_start + m.size)
PageCount(m) == PageOf(m.virtual_start + m.size) - PageOf(m.virtual_start) + 1
Others(i) == [j \in 1 .. Len(regions) - 1 |-> regions[IF j < i THEN j ELSE j + 1]]

\* The error of a page not mapped is unwrapped.
Unmap(i) ==
  /\ Idle
  /\ IF RegionPages(regions[i]) \subseteq DOMAIN pages
     THEN /\ pages' = [p \in DOMAIN pages \ RegionPages(regions[i]) |-> pages[p]]
          /\ start_addr' = start_addr - PageSize * PageCount(regions[i])
          /\ regions' = Others(i)
          /\ reordered' = (Len(regions) > 1 /\ (reordered \/ i # Len(regions)))
          /\ UNCHANGED fault
     ELSE fault' = "not_mapped" /\ UNCHANGED <<start_addr, pages, regions, reordered>>
  /\ UNCHANGED call

\* acpi::init's second KernelAcpi::new, once the first tables are dropped.
NewHandler == /\ Idle /\ regions = <<>>
              /\ start_addr' = KernelAcpiAddr
              /\ UNCHANGED <<pages, regions, reordered, call, fault>>
-----------------------------------------------------------------------------
AcpiNext == \/ \E r \in Regions : MapBegin(r) \/ MapExhausted(r)
            \/ MapPage \/ MapNoFrame \/ MapEnd \/ NewHandler
            \/ \E i \in DOMAIN regions : Unmap(i)

AcpiSpec == AcpiInit /\ [][AcpiNext]_acpiVars
-----------------------------------------------------------------------------
(* Properties *)

\* unmap_physical_region never finds a page unmapped, whatever order regions are
\* dropped in; and map_physical_region finds one mapped only after a region was
\* dropped before a younger one, which leaves start_addr, kept by additions and
\* subtractions page by page, below the end of the window.
MapperNeverRefuses == /\ fault # "not_mapped"
                      /\ fault = "already_mapped" => reordered

\* The window's pages are the window's own: neither the heap's nor the page that
\* apic::init maps next to it, though the check on the window's end is made on
\* addresses and the mapping in pages.
WindowApart ==
  /\ \A p \in DOMAIN pages : p \notin HeapPages /\ p < PageOf(KernelApicAddr)
  /\ PageOf(KernelApicAddr) \notin HeapPages

\* Live regions do not share pages, and all their pages are mapped.
RegionsApart ==
  /\ \A i \in DOMAIN regions : RegionPages(regions[i]) \subseteq DOMAIN pages
  /\ \A i, j \in DOMAIN regions :
       i < j => RegionPages(regions[i]) \cap RegionPages(regions[j]) = {}

\* The processor's translation of an address in the window, empty where it faults.
Translate(a) == IF PageOf(a) \in DOMAIN pages
                THEN <<pages[PageOf(a)] * PageSize + (a % PageSize)>> ELSE <<>>

\* The bytes of a region at the offsets K that are seen through its mapping are those
\* of its first frame, if it begins on one: as every page is mapped to the frame of
\* physical_address and the offset in that frame is dropped, no byte of a region that
\* begins inside a frame is seen, nor any beyond the first page.
SeenRight(m, K) ==
  \A k \in K : Translate(m.virtual_start + k) = <<m.phys + k>>
                <=> m.phys % PageSize = 0 /\ k < PageSize

\* The bytes at the ends of the region and of its first page.
Probes(m) == {0, PageSize - 1, PageSize, m.size - 1} \cap (0 .. m.size - 1)

\* What the crate reads through a live mapping is what it asked for exactly where the
\* two shortcuts of map_physical_region do not matter, however regions come and go.
RegionShown == \A i \in DOMAIN regions : SeenRight(regions[i], Probes(regions[i]))
=============================================================================
