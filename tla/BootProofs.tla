----------------------------- MODULE BootProofs -----------------------------
(***************************************************************************)
(* The whole of boot, for every size and place of the kernel's ranges,     *)
(* every set of regions, every memory map and every interrupt model.       *)
(* SpaceInv: the ACPI window has as many pages as start_addr says, each of *)
(* one live region, in whatever order regions are dropped. WindowInv: as   *)
(* long as the youngest goes first, they are one run from the window's     *)
(* base to start_addr, filled by the live regions in order, without gaps.  *)
(* DeliveryInv: what the interrupt controllers have been told at each      *)
(* stage. The frames are those of FrameProofs.                             *)
(***************************************************************************)
EXTENDS Boot, FrameProofs

\* What a leaf may take of each prover: seconds of wall time, which a busy machine
\* stretches.
USE SMTT(30), ZenonT(30)

ApicPage == PageOf(KernelApicAddr)
Base == PageOf(KernelAcpiAddr)
Top == PageOf(start_addr)
First(i) == PageOf(regions[i].virtual_start)
LastOf(i) == PageOf(regions[i].virtual_start + regions[i].size)
EndOf(i) == IF i = 0 THEN Base ELSE LastOf(i) + 1

\* The live regions lie one behind the other.
Stacked ==
  \A i \in 1 .. Len(regions) :
    /\ regions[i].virtual_start = PageSize * First(i)
    /\ First(i) = EndOf(i - 1) /\ Base <= First(i) /\ First(i) <= LastOf(i)
    /\ \A j \in 1 .. i - 1 : LastOf(j) < First(i)

\* The call in progress extends the run.
Growing ==
  call # <<>> =>
    /\ call[1].first = EndOf(Len(regions)) /\ call[1].first <= Top
    /\ call[1].next = Top /\ Top <= call[1].last + 1
    /\ call[1].last = PageOf(PageSize * call[1].first + call[1].size)
    /\ call[1].last < ApicPage

WindowInv ==
  /\ AcpiTypeOK
  /\ start_addr = PageSize * Top /\ Base <= Top /\ Top <= ApicPage
  /\ DOMAIN pages = Base .. Top - 1
  /\ Stacked /\ Growing
  /\ call = <<>> => Top = EndOf(Len(regions))
-----------------------------------------------------------------------------
(* The layout *)

\* AlignUp gives the first multiple of the page size that is not smaller.
LEMMA AlignUpFacts ==
  ASSUME NEW a \in Nat
  PROVE  /\ AlignUp(a) \in Nat /\ PageOf(AlignUp(a)) \in Nat
         /\ AlignUp(a) = PageSize * PageOf(AlignUp(a))
         /\ a <= AlignUp(a) /\ AlignUp(a) < a + PageSize
BY DEF AlignUp, PageOf, PageSize

\* PageOf is monotone and undoes the multiplication by the page size.
LEMMA PageOfFacts ==
  /\ \A a \in Nat : PageOf(a) \in Nat /\ PageSize * PageOf(a) <= a
                    /\ a < PageSize * (PageOf(a) + 1)
  /\ \A p \in Nat : PageOf(PageSize * p) = p
  /\ \A a, b \in Nat : a <= b => PageOf(a) <= PageOf(b)
BY DEF PageOf, PageSize

\* The heap, the window and the local APIC's page follow each other.
LEMMA Layout ==
  /\ KernelHeapAddr \in Nat /\ KernelAcpiAddr \in Nat /\ KernelApicAddr \in Nat
  /\ Base \in Nat /\ ApicPage \in Nat
  /\ KernelAcpiAddr = PageSize * Base /\ KernelApicAddr = PageSize * ApicPage
  /\ KernelAcpiAddr + AcpiLen <= KernelApicAddr /\ Base < ApicPage
  /\ \A p \in HeapPages : p < Base
<1>1. KernelHeapAddr \in Nat
  BY AlignUpFacts, SpaceAssumption DEF KernelHeapAddr
<1>2. /\ KernelAcpiAddr \in Nat /\ Base \in Nat /\ KernelAcpiAddr = PageSize * Base
      /\ KernelHeapAddr + HeapLen <= KernelAcpiAddr
  BY <1>1, AlignUpFacts, SpaceAssumption DEF KernelAcpiAddr, Base
<1>3. /\ KernelApicAddr \in Nat /\ ApicPage \in Nat /\ KernelApicAddr = PageSize * ApicPage
      /\ KernelAcpiAddr + AcpiLen <= KernelApicAddr
  BY <1>2, AlignUpFacts, SpaceAssumption DEF KernelApicAddr, ApicPage
<1>4. Base < ApicPage
  BY <1>2, <1>3, SpaceAssumption DEF PageSize
<1>5. PageOf(KernelHeapAddr + HeapLen - 1) < Base
  BY <1>1, <1>2, SpaceAssumption DEF PageOf, PageSize
<1>6. \A p \in HeapPages : p < Base
  BY <1>1, <1>2, <1>5, PageOfFacts, SpaceAssumption DEF HeapPages
<1> QED BY <1>1, <1>2, <1>3, <1>4, <1>6
-----------------------------------------------------------------------------
(* The window *)

\* The pages and regions of the window are numbers of pages.
LEMMA SpaceTypes ==
  ASSUME AcpiTypeOK
  PROVE  /\ Top \in Nat /\ Base \in Nat /\ ApicPage \in Nat
         /\ Len(regions) \in Nat
         /\ \A i \in 1 .. Len(regions) :
              /\ regions[i] \in Mappings /\ First(i) \in Nat /\ LastOf(i) \in Nat
         /\ \A i \in 0 .. Len(regions) : EndOf(i) \in Nat
         /\ call # <<>> => call[1] \in Calls
<1>1. Top \in Nat
  BY PageOfFacts DEF AcpiTypeOK, Top
<1>2. Len(regions) \in Nat /\ \A i \in 1 .. Len(regions) : regions[i] \in Mappings
  BY LenProperties, ElementOfSeq DEF AcpiTypeOK
<1>3. \A i \in 1 .. Len(regions) : First(i) \in Nat /\ LastOf(i) \in Nat
  <2> SUFFICES ASSUME NEW i \in 1 .. Len(regions) PROVE First(i) \in Nat /\ LastOf(i) \in Nat
    OBVIOUS
  <2>1. regions[i].virtual_start \in Nat /\ regions[i].size \in Nat
    BY <1>2 DEF Mappings
  <2>2. regions[i].virtual_start + regions[i].size \in Nat
    BY <2>1
  <2> QED BY <2>1, <2>2, PageOfFacts, ZenonT(30) DEF First, LastOf
<1>4. \A i \in 0 .. Len(regions) : EndOf(i) \in Nat
  BY <1>2, <1>3, Layout DEF EndOf
<1>5. call # <<>> => call[1] \in Calls
  BY DEF AcpiTypeOK
<1> QED BY <1>1, <1>2, <1>3, <1>4, <1>5, Layout

\* The same, for a window that is one run.
LEMMA WindowTypes ==
  ASSUME WindowInv
  PROVE  /\ Top \in Nat /\ Base \in Nat /\ ApicPage \in Nat
         /\ Len(regions) \in Nat
         /\ \A i \in 1 .. Len(regions) :
              /\ regions[i] \in Mappings /\ First(i) \in Nat /\ LastOf(i) \in Nat
         /\ \A i \in 0 .. Len(regions) : EndOf(i) \in Nat
         /\ call # <<>> => call[1] \in Calls
BY SpaceTypes DEF WindowInv

\* A call of map_physical_region begins where the window ends.
LEMMA MapBeginInv ==
  ASSUME WindowInv, NEW r \in Regions, MapBegin(r)
  PROVE  WindowInv'
<1> DEFINE c == [phys |-> r.phys, size |-> r.size, first |-> PageOf(start_addr),
                 next |-> PageOf(start_addr), last |-> PageOf(start_addr + r.size)]
<1>1. r.phys \in Nat /\ r.size \in Nat \ {0} /\ start_addr \in Nat
  BY SpaceAssumption DEF WindowInv, AcpiTypeOK
<1>2. c \in Calls
  BY <1>1, PageOfFacts DEF Calls
<1>3. call' = <<c>> /\ call'[1] = c /\ call' # <<>>
  BY DEF MapBegin
<1> HIDE DEF c
<1>4. call' \in Seq(Calls) /\ Len(call') <= 1
  BY <1>2, <1>3
<1>5. c.first = Top /\ c.next = Top /\ c.last = PageOf(start_addr + r.size)
      /\ c.size = r.size /\ c.phys = r.phys
  BY DEF c, Top
<1>6. UNCHANGED <<start_addr, pages, regions, reordered, fault>> /\ call = <<>>
  BY DEF MapBegin, Idle
<1>7. c.last < ApicPage
  <2>1. start_addr + r.size < KernelAcpiAddr + AcpiLen - 1
    BY DEF MapBegin, EndAddrExclusive
  <2>2. start_addr + r.size < PageSize * ApicPage
    BY <2>1, <1>1, Layout, SpaceAssumption
  <2> QED BY <2>2, <1>1, <1>5, Layout DEF PageOf, PageSize
<1>8. Top <= c.last + 1
  BY <1>1, <1>5, PageOfFacts DEF Top
<1>9. Growing'
  BY <1>3, <1>5, <1>6, <1>7, <1>8, WindowTypes
     DEF Growing, WindowInv, Top, EndOf, LastOf
<1>10. AcpiTypeOK'
  BY <1>4, <1>6 DEF WindowInv, AcpiTypeOK
<1>11. Stacked'
  BY <1>6 DEF WindowInv, Stacked, First, LastOf, EndOf
<1> QED BY <1>3, <1>6, <1>9, <1>10, <1>11 DEF WindowInv, Top

\* A panic leaves the window as it is.
LEMMA FaultInv ==
  ASSUME WindowInv, fault' \in Faults, UNCHANGED <<start_addr, pages, regions, reordered, call>>
  PROVE  WindowInv'
BY DEF WindowInv, AcpiTypeOK, Stacked, Growing, Top, First, LastOf, EndOf

\* One page is added at the end; it cannot be mapped already.
LEMMA MapPageInv ==
  ASSUME WindowInv, MapPage
  PROVE  WindowInv' /\ UNCHANGED fault
<1> DEFINE c == call[1]
<1>1. c \in Calls /\ c.next = Top /\ c.next <= c.last /\ call # <<>>
  BY WindowTypes DEF MapPage, Mapping, WindowInv, Growing
<1>2. /\ c.phys \in Nat /\ c.size \in Nat \ {0} /\ c.first \in Nat
      /\ c.next \in Nat /\ c.last \in Nat /\ Top \in Nat /\ Base \in Nat
      /\ ApicPage \in Nat
  BY <1>1, WindowTypes DEF Calls
<1>3. NextPage = Top /\ DOMAIN pages = Base .. Top - 1 /\ Top \notin DOMAIN pages
  BY <1>1, <1>2 DEF WindowInv, NextPage
<1>4. /\ pages' = [p \in DOMAIN pages \cup {Top} |->
                     IF p = Top THEN PageOf(c.phys) ELSE pages[p]]
      /\ start_addr' = start_addr + PageSize
      /\ call' = <<[c EXCEPT !.next = @ + 1]>>
      /\ UNCHANGED <<fault, regions, reordered>>
  BY <1>3 DEF MapPage, NextPage
<1>5. Top' = Top + 1 /\ start_addr' = PageSize * Top'
  <2>1. start_addr' = PageSize * (Top + 1)
    BY <1>2, <1>4 DEF WindowInv, PageSize
  <2>2. PageOf(start_addr') = Top + 1
    BY <2>1, <1>2, PageOfFacts
  <2> QED BY <2>1, <2>2 DEF Top
<1>6. DOMAIN pages' = Base .. Top' - 1
  BY <1>2, <1>3, <1>4, <1>5 DEF WindowInv
<1>7. /\ call'[1] \in Calls /\ call' # <<>> /\ call' \in Seq(Calls) /\ Len(call') <= 1
      /\ call'[1].phys = c.phys /\ call'[1].size = c.size
      /\ call'[1].first = c.first /\ call'[1].last = c.last
      /\ call'[1].next = c.next + 1
  <2> DEFINE d == [c EXCEPT !.next = @ + 1]
  <2>1. /\ d \in Calls /\ d.phys = c.phys /\ d.size = c.size /\ d.first = c.first
        /\ d.last = c.last /\ d.next = c.next + 1
    BY <1>1, <1>2 DEF Calls
  <2> HIDE DEF d
  <2>2. call' = <<d>>
    BY <1>4 DEF d
  <2> QED BY <2>1, <2>2
<1> HIDE DEF c
<1>8. c.last < ApicPage /\ c.first <= Top /\ c.first = EndOf(Len(regions))
      /\ c.last = PageOf(PageSize * c.first + c.size)
  BY <1>1 DEF WindowInv, Growing, c
<1>9. AcpiTypeOK'
  <2>1. PageOf(c.phys) \in Nat
    BY <1>2, PageOfFacts
  <2>2. pages' \in [DOMAIN pages' -> Nat]
    BY <1>4, <2>1 DEF WindowInv, AcpiTypeOK
  <2>3. DOMAIN pages' \subseteq Nat
    BY <1>2, <1>5, <1>6
  <2>4. start_addr' \in Nat
    BY <1>4 DEF WindowInv, AcpiTypeOK, PageSize
  <2> QED BY <2>2, <2>3, <2>4, <1>4, <1>7 DEF WindowInv, AcpiTypeOK
<1>10. Stacked' /\ EndOf(Len(regions))' = EndOf(Len(regions))
  BY <1>4 DEF WindowInv, Stacked, First, LastOf, EndOf
<1>13. Growing'
  <2>2. call'[1].first <= Top' /\ call'[1].next = Top' /\ Top' <= call'[1].last + 1
    BY <1>1, <1>2, <1>5, <1>7, <1>8 DEF c
  <2>3. ApicPage' = ApicPage
    BY DEF ApicPage
  <2> QED BY <2>2, <2>3, <1>7, <1>8, <1>10, <1>4, ZenonT(30) DEF Growing
<1>14. Base <= Top' /\ Top' <= ApicPage
  BY <1>1, <1>2, <1>5, <1>8 DEF WindowInv, c
<1> QED BY <1>4, <1>5, <1>6, <1>7, <1>9, <1>10, <1>13, <1>14 DEF WindowInv

\* The region that has been mapped becomes the youngest.
LEMMA MapEndInv ==
  ASSUME WindowInv, MapEnd
  PROVE  WindowInv'
<1>0. PICK n \in Nat : n = Len(regions)
  BY WindowTypes
<1> DEFINE c == call[1]
           m == [virtual_start |-> c.first * PageSize, phys |-> c.phys, size |-> c.size]
<1>1. /\ c \in Calls /\ call # <<>> /\ c.next = Top /\ c.next > c.last /\ Top <= c.last + 1
      /\ c.first = EndOf(n) /\ c.first <= Top
      /\ c.last = PageOf(PageSize * c.first + c.size)
  BY <1>0, WindowTypes DEF MapEnd, WindowInv, Growing
<1>2. /\ c.phys \in Nat /\ c.size \in Nat \ {0} /\ c.first \in Nat /\ c.last \in Nat
      /\ Top \in Nat /\ Base \in Nat /\ n \in Nat
  BY <1>0, <1>1, WindowTypes DEF Calls
<1>3. Top = c.last + 1
  BY <1>1, <1>2
<1>4. /\ m \in Mappings /\ m.virtual_start = PageSize * c.first
      /\ m.phys = c.phys /\ m.size = c.size
  BY <1>2 DEF Mappings, PageSize
<1>5. /\ regions' = Append(regions, m)
      /\ UNCHANGED <<start_addr, pages, reordered, fault>> /\ call' = <<>>
  BY DEF MapEnd
<1> HIDE DEF m, c
<1>6. /\ regions' \in Seq(Mappings) /\ Len(regions') = n + 1 /\ regions'[n + 1] = m
      /\ \A i \in 1 .. n : regions'[i] = regions[i]
  BY <1>0, <1>4, <1>5, AppendProperties DEF WindowInv, AcpiTypeOK
<1>7. /\ \A i \in 1 .. n : First(i)' = First(i) /\ LastOf(i)' = LastOf(i)
      /\ \A i \in 0 .. n : EndOf(i)' = EndOf(i)
  <2>1. \A i \in 1 .. n : First(i)' = First(i) /\ LastOf(i)' = LastOf(i)
    BY <1>6 DEF First, LastOf
  <2>2. Base' = Base
    BY DEF Base
  <2> QED BY <2>1, <2>2, <1>2 DEF EndOf
<1>8. First(n + 1)' = c.first /\ LastOf(n + 1)' = c.last
  <2>1. PageOf(m.virtual_start) = c.first
    BY <1>2, <1>4, PageOfFacts
  <2>2. PageOf(m.virtual_start + m.size) = c.last
    BY <1>1, <1>4
  <2> QED BY <2>1, <2>2, <1>6 DEF First, LastOf
<1>9. c.first <= c.last
  <2>1. PageSize * c.first \in Nat /\ PageSize * c.first + c.size \in Nat
        /\ PageSize * c.first <= PageSize * c.first + c.size
    BY <1>2 DEF PageSize
  <2> QED BY <2>1, <1>1, <1>2, PageOfFacts
<1>10. /\ \A i \in 1 .. n : First(i) \in Nat /\ LastOf(i) \in Nat /\ LastOf(i) < c.first
       /\ Base <= c.first
  <2>1. \A i \in 1 .. n : First(i) \in Nat /\ LastOf(i) \in Nat
    BY <1>0, WindowTypes
  <2>2. CASE n = 0
    BY <2>2, <1>1, <1>2 DEF EndOf
  <2>3. CASE n # 0
    <3>1. n \in 1 .. n
      BY <2>3, <1>2
    <3>2. EndOf(n) = LastOf(n) + 1
      BY <2>3 DEF EndOf
    <3>3. /\ Base <= First(n) /\ First(n) <= LastOf(n)
          /\ \A j \in 1 .. n - 1 : LastOf(j) < First(n)
      BY <1>0, <3>1 DEF WindowInv, Stacked
    <3>4. ASSUME NEW i \in 1 .. n PROVE LastOf(i) < c.first
      <4>1. CASE i = n
        BY <4>1, <3>2, <2>1, <3>1, <1>1
      <4>2. CASE i # n
        <5>1. i \in 1 .. n - 1
          BY <4>2, <1>2
        <5> QED BY <5>1, <3>1, <3>2, <3>3, <2>1, <1>1
      <4> QED BY <4>1, <4>2
    <3>5. Base <= c.first
      BY <3>1, <3>2, <3>3, <2>1, <1>1, <1>2
    <3> QED BY <3>4, <3>5, <2>1
  <2> QED BY <2>2, <2>3
<1>11. Stacked'
  <2> SUFFICES ASSUME NEW i \in 1 .. n + 1
               PROVE  /\ regions'[i].virtual_start = PageSize * First(i)'
                      /\ First(i)' = EndOf(i - 1)' /\ Base <= First(i)'
                      /\ First(i)' <= LastOf(i)'
                      /\ \A j \in 1 .. i - 1 : LastOf(j)' < First(i)'
    BY <1>6 DEF Stacked, Base
  <2>1. CASE i = n + 1
    <3>1. i - 1 = n /\ n \in 0 .. n
      BY <2>1, <1>2
    <3>2. First(i)' = EndOf(i - 1)'
      BY <3>1, <2>1, <1>7, <1>8, <1>1
    <3>3. \A j \in 1 .. i - 1 : LastOf(j)' < First(i)'
      BY <3>1, <2>1, <1>7, <1>8, <1>10
    <3> QED BY <3>2, <3>3, <2>1, <1>4, <1>6, <1>8, <1>9, <1>10
  <2>2. CASE i # n + 1
    <3>1. i \in 1 .. n /\ i - 1 \in 0 .. n
      BY <2>2, <1>2
    <3>2. \A j \in 1 .. i - 1 : j \in 1 .. n
      BY <3>1, <1>2
    <3>3. /\ regions[i].virtual_start = PageSize * First(i)
          /\ First(i) = EndOf(i - 1) /\ Base <= First(i) /\ First(i) <= LastOf(i)
          /\ \A j \in 1 .. i - 1 : LastOf(j) < First(i)
      BY <1>0, <3>1 DEF WindowInv, Stacked
    <3> QED BY <3>1, <3>2, <3>3, <1>6, <1>7
  <2> QED BY <2>1, <2>2
<1>13. AcpiTypeOK'
  BY <1>5, <1>6, EmptySeq DEF WindowInv, AcpiTypeOK
<1>14. Growing'
  BY <1>5 DEF Growing
<1>15. Top' = Top /\ EndOf(n + 1)' = Top /\ Base' = Base /\ ApicPage' = ApicPage
  <2>1. EndOf(n + 1)' = LastOf(n + 1)' + 1
    BY <1>2 DEF EndOf
  <2> QED BY <2>1, <1>3, <1>5, <1>8 DEF Top, Base, ApicPage
<1> QED BY <1>5, <1>6, <1>11, <1>13, <1>14, <1>15 DEF WindowInv

\* The youngest region is the end of the run; its pages are all mapped.
LEMMA UnmapInv ==
  ASSUME WindowInv, regions # <<>>, Unmap(Len(regions))
  PROVE  WindowInv' /\ UNCHANGED fault
<1>0. PICK n \in Nat : n = Len(regions)
  BY WindowTypes
<1> DEFINE Youngest == regions[n]
<1>1. n # 0 /\ n \in 1 .. n /\ n - 1 \in Nat /\ call = <<>> /\ call' = <<>>
  <2>1. regions # <<>> /\ regions \in Seq(Mappings) /\ call = <<>> /\ call' = <<>>
    BY DEF Unmap, Idle, WindowInv, AcpiTypeOK
  <2>2. n # 0
    BY <2>1, <1>0, EmptySeq
  <2> QED BY <2>1, <2>2, <1>0
<1>2. /\ First(n) \in Nat /\ LastOf(n) \in Nat /\ Top \in Nat /\ Base \in Nat
      /\ ApicPage \in Nat
  BY <1>0, <1>1, WindowTypes
<1>3. /\ Base <= First(n) /\ First(n) <= LastOf(n) /\ First(n) = EndOf(n - 1)
      /\ Top = LastOf(n) + 1 /\ DOMAIN pages = Base .. Top - 1
      /\ start_addr = PageSize * Top /\ Top <= ApicPage
  <2>1. Top = EndOf(n)
    BY <1>0, <1>1 DEF WindowInv
  <2> QED BY <2>1, <1>0, <1>1 DEF WindowInv, Stacked, EndOf
<1>4. RegionPages(Youngest) = First(n) .. LastOf(n)
  BY <1>2 DEF RegionPages, First, LastOf
<1>5. RegionPages(Youngest) \subseteq DOMAIN pages
  BY <1>2, <1>3, <1>4
<1>6. /\ pages' = [p \in DOMAIN pages \ RegionPages(Youngest) |-> pages[p]]
      /\ start_addr' = start_addr - PageSize * PageCount(Youngest)
      /\ regions' = Others(n) /\ reordered' \in BOOLEAN /\ UNCHANGED fault
  BY <1>0, <1>5 DEF Unmap
<1>7. PageCount(Youngest) = LastOf(n) - First(n) + 1
  BY <1>2 DEF PageCount, First, LastOf
<1>8. start_addr' = PageSize * First(n)
  <2>1. PageCount(Youngest) = Top - First(n)
    BY <1>2, <1>3, <1>7
  <2>2. start_addr' = PageSize * Top - PageSize * (Top - First(n))
    BY <2>1, <1>3, <1>6
  <2>3. \A t, f \in Nat : PageSize * t - PageSize * (t - f) = PageSize * f
    BY DEF PageSize
  <2> QED BY <2>2, <2>3, <1>2
<1>9. Top' = First(n)
  BY <1>2, <1>8, PageOfFacts DEF Top
<1>10. DOMAIN pages' = Base .. First(n) - 1 /\ \A p \in Base .. First(n) - 1 : pages'[p] = pages[p]
  BY <1>2, <1>3, <1>4, <1>6
<1>11. /\ regions' \in Seq(Mappings) /\ Len(regions') = n - 1
       /\ \A i \in 1 .. n - 1 : regions'[i] = regions[i]
  <2>1. regions' = [j \in 1 .. n - 1 |-> regions[IF j < n THEN j ELSE j + 1]]
    BY <1>0, <1>6 DEF Others
  <2>2. \A j \in 1 .. n - 1 : regions'[j] = regions[j] /\ regions[j] \in Mappings
    BY <1>0, <1>1, <2>1, WindowTypes
  <2>3. regions' = [j \in 1 .. n - 1 |-> regions[j]]
    BY <1>1, <2>1
  <2> QED BY <1>1, <2>2, <2>3
<1>12. /\ \A i \in 1 .. n - 1 : First(i)' = First(i) /\ LastOf(i)' = LastOf(i)
       /\ \A i \in 0 .. n - 1 : EndOf(i)' = EndOf(i)
  <2>1. \A i \in 1 .. n - 1 : First(i)' = First(i) /\ LastOf(i)' = LastOf(i)
    BY <1>11 DEF First, LastOf
  <2>2. Base' = Base
    BY DEF Base
  <2> QED BY <2>1, <2>2, <1>1 DEF EndOf
<1>13. Stacked'
  <2> SUFFICES ASSUME NEW i \in 1 .. n - 1
               PROVE  /\ regions'[i].virtual_start = PageSize * First(i)'
                      /\ First(i)' = EndOf(i - 1)' /\ Base <= First(i)'
                      /\ First(i)' <= LastOf(i)'
                      /\ \A j \in 1 .. i - 1 : LastOf(j)' < First(i)'
    BY <1>11 DEF Stacked, Base
  <2>1. i \in 1 .. n /\ i - 1 \in 0 .. n - 1 /\ \A j \in 1 .. i - 1 : j \in 1 .. n - 1
    BY <1>1
  <2>2. /\ regions[i].virtual_start = PageSize * First(i)
        /\ First(i) = EndOf(i - 1) /\ Base <= First(i) /\ First(i) <= LastOf(i)
        /\ \A j \in 1 .. i - 1 : LastOf(j) < First(i)
    BY <2>1, <1>0 DEF WindowInv, Stacked
  <2> QED BY <2>1, <2>2, <1>11, <1>12
<1>15. AcpiTypeOK'
  <2>1. start_addr' \in Nat
    BY <1>2, <1>8 DEF PageSize
  <2>2. pages' \in [DOMAIN pages' -> Nat] /\ DOMAIN pages' \subseteq Nat
    BY <1>6 DEF WindowInv, AcpiTypeOK
  <2> QED BY <2>1, <2>2, <1>1, <1>6, <1>11, EmptySeq DEF WindowInv, AcpiTypeOK
<1>16. Growing' /\ Base' = Base /\ ApicPage' = ApicPage
  BY <1>1 DEF Growing, Base, ApicPage
<1>17. Top' = EndOf(n - 1)'
  <2>1. n - 1 \in 0 .. n - 1
    BY <1>1
  <2> QED BY <2>1, <1>3, <1>9, <1>12
<1>18. Base <= Top' /\ Top' <= ApicPage
  BY <1>2, <1>3, <1>9
<1> QED BY <1>6, <1>8, <1>9, <1>10, <1>11, <1>13, <1>15, <1>16, <1>17, <1>18
        DEF WindowInv
-----------------------------------------------------------------------------
(* The window, in whatever order regions are dropped *)

\* The live regions as the run has them, and the part of the call made so far.
Pages(i) == RegionPages(regions[i])
CallPages == IF call = <<>> THEN {} ELSE call[1].first .. call[1].next - 1

\* The call in progress maps pages up to the local APIC's.
CallInv ==
  call # <<>> =>
    /\ Base <= call[1].first /\ call[1].first <= call[1].next
    /\ call[1].next <= call[1].last + 1 /\ call[1].last < ApicPage
    /\ call[1].last = PageOf(PageSize * call[1].first + call[1].size)
    /\ CallPages \subseteq DOMAIN pages
    /\ \A p \in CallPages : pages[p] = PageOf(call[1].phys)

\* Each region has pages of its own, which show its first frame.
RegionsInv ==
  /\ \A i \in 1 .. Len(regions) :
       /\ regions[i].virtual_start = PageSize * First(i)
       /\ Pages(i) \subseteq DOMAIN pages /\ Pages(i) \cap CallPages = {}
       /\ \A p \in Pages(i) : pages[p] = PageOf(regions[i].phys)
  /\ \A i, j \in 1 .. Len(regions) : i # j => Pages(i) \cap Pages(j) = {}

\* start_addr counts the pages.
CountInv ==
  /\ IsFiniteSet(DOMAIN pages)
  /\ start_addr = PageSize * (Base + Cardinality(DOMAIN pages))
  /\ \A p \in DOMAIN pages : Base <= p /\ p < ApicPage

SpaceInv ==
  /\ AcpiTypeOK /\ CountInv /\ CallInv /\ RegionsInv
  /\ \A p \in DOMAIN pages : p \in CallPages \/ \E i \in 1 .. Len(regions) : p \in Pages(i)

\* start_addr is the address of a page not below the window's base.
LEMMA CountFacts ==
  ASSUME CountInv
  PROVE  /\ Cardinality(DOMAIN pages) \in Nat /\ Top = Base + Cardinality(DOMAIN pages)
         /\ Top \in Nat /\ start_addr = PageSize * Top /\ Base <= Top
<1>1. Cardinality(DOMAIN pages) \in Nat
  BY FS_CardinalityType DEF CountInv
<1>2. PageOf(PageSize * (Base + Cardinality(DOMAIN pages))) = Base + Cardinality(DOMAIN pages)
  BY <1>1, Layout, PageOfFacts
<1> QED BY <1>1, <1>2, Layout DEF CountInv, Top

\* With no region and no call the window is empty, and so one run.
LEMMA EmptyRun == SpaceInv /\ call = <<>> /\ regions = <<>> => DOMAIN pages = {} /\ WindowInv
<1> SUFFICES ASSUME SpaceInv, call = <<>>, regions = <<>>
             PROVE  DOMAIN pages = {} /\ WindowInv
  OBVIOUS
<1>1. Len(regions) = 0
  BY EmptySeq
<1>2. DOMAIN pages = {}
  <2>1. CallPages = {} /\ 1 .. Len(regions) = {}
    BY <1>1 DEF CallPages
  <2> QED BY <2>1, Zenon DEF SpaceInv
<1>3. Top = Base /\ start_addr = PageSize * Top
  BY <1>2, CountFacts, FS_EmptySet, Layout DEF SpaceInv
<1>4. Stacked /\ Growing
  BY <1>1 DEF Stacked, Growing
<1> QED BY <1>1, <1>2, <1>3, <1>4, Layout DEF WindowInv, SpaceInv, EndOf

\* The window begins empty.
LEMMA WindowInit == AcpiInit => SpaceInv /\ WindowInv
<1> SUFFICES ASSUME AcpiInit PROVE SpaceInv /\ WindowInv
  OBVIOUS
<1>1. AcpiTypeOK
  <2>1. regions \in Seq(Mappings) /\ call \in Seq(Calls) /\ Len(call) <= 1
    BY EmptySeq DEF AcpiInit
  <2> QED BY <2>1, Layout DEF AcpiInit, AcpiTypeOK, Faults
<1>2. DOMAIN pages = {} /\ Len(regions) = 0
  BY EmptySeq DEF AcpiInit
<1>3. CountInv
  BY <1>2, FS_EmptySet, Layout DEF AcpiInit, CountInv
<1>4. SpaceInv
  BY <1>1, <1>2, <1>3 DEF AcpiInit, SpaceInv, CallInv, RegionsInv
<1> QED BY <1>4, EmptyRun DEF AcpiInit

\* A panic leaves the window as it is.
LEMMA SpaceFault ==
  ASSUME SpaceInv, fault' \in Faults, UNCHANGED <<start_addr, pages, regions, reordered, call>>
  PROVE  SpaceInv'
BY DEF SpaceInv, AcpiTypeOK, CountInv, CallInv, RegionsInv, CallPages, Pages, First

\* A call has mapped nothing when it begins.
LEMMA SpaceMapBegin ==
  ASSUME SpaceInv, NEW r \in Regions, MapBegin(r)
  PROVE  SpaceInv'
<1> DEFINE c == [phys |-> r.phys, size |-> r.size, first |-> PageOf(start_addr),
                 next |-> PageOf(start_addr), last |-> PageOf(start_addr + r.size)]
<1>1. /\ r.phys \in Nat /\ r.size \in Nat \ {0} /\ start_addr \in Nat /\ Top \in Nat
      /\ Base <= Top /\ start_addr = PageSize * Top
  BY SpaceAssumption, CountFacts DEF SpaceInv, AcpiTypeOK
<1>2. c \in Calls
  BY <1>1, PageOfFacts DEF Calls
<1>3. call' = <<c>> /\ call'[1] = c /\ call' # <<>>
  BY DEF MapBegin
<1>4. c.first = Top /\ c.next = Top /\ c.last = PageOf(start_addr + r.size)
      /\ c.size = r.size /\ c.phys = r.phys
  BY DEF Top
<1> HIDE DEF c
<1>5. UNCHANGED <<start_addr, pages, regions, reordered, fault>> /\ call = <<>>
  BY DEF MapBegin, Idle
<1>6. c.last < ApicPage
  <2>1. start_addr + r.size < KernelAcpiAddr + AcpiLen - 1
    BY DEF MapBegin, EndAddrExclusive
  <2>2. start_addr + r.size < PageSize * ApicPage
    BY <2>1, <1>1, Layout, SpaceAssumption
  <2> QED BY <2>2, <1>1, <1>4, Layout DEF PageOf, PageSize
<1>7. Top <= c.last /\ c.last \in Nat
  BY <1>1, <1>4, PageOfFacts DEF Top
<1>8. CallPages = {} /\ CallPages' = {}
  BY <1>1, <1>3, <1>4, <1>5 DEF CallPages
<1>9. CallInv'
  BY <1>1, <1>3, <1>4, <1>6, <1>7, <1>8 DEF CallInv, Base, ApicPage
<1>10. AcpiTypeOK'
  <2>1. call' \in Seq(Calls) /\ Len(call') <= 1
    BY <1>2, <1>3
  <2> QED BY <2>1, <1>5 DEF SpaceInv, AcpiTypeOK
<1> QED BY <1>5, <1>8, <1>9, <1>10 DEF SpaceInv, CountInv, RegionsInv, Pages, First

\* A page is added that no region has, or the call stops at one that is mapped.
LEMMA SpaceMapPage ==
  ASSUME SpaceInv, MapPage
  PROVE  SpaceInv'
<1> DEFINE c == call[1]
<1>1. c \in Calls /\ call # <<>> /\ c.next <= c.last
  BY SpaceTypes DEF MapPage, Mapping, SpaceInv
<1>2. /\ c.phys \in Nat /\ c.first \in Nat /\ c.next \in Nat /\ c.last \in Nat
      /\ Base \in Nat /\ ApicPage \in Nat /\ NextPage = c.next
  BY <1>1, Layout DEF Calls, NextPage
<1>3. CASE NextPage \in DOMAIN pages
  BY <1>3, SpaceFault DEF MapPage, Faults
<1>4. CASE NextPage \notin DOMAIN pages
  <2> DEFINE d == [c EXCEPT !.next = @ + 1]
  <2>1. /\ d \in Calls /\ d.phys = c.phys /\ d.size = c.size /\ d.first = c.first
        /\ d.last = c.last /\ d.next = c.next + 1
    BY <1>1, <1>2 DEF Calls
  <2>2. /\ pages' = [p \in DOMAIN pages \cup {c.next} |->
                       IF p = c.next THEN PageOf(c.phys) ELSE pages[p]]
        /\ start_addr' = start_addr + PageSize /\ call' = <<d>>
        /\ UNCHANGED <<fault, regions, reordered>>
    BY <1>2, <1>4 DEF MapPage, NextPage
  <2> HIDE DEF d
  <2>3. call' # <<>> /\ call'[1] = d /\ call' \in Seq(Calls) /\ Len(call') <= 1
    BY <2>1, <2>2
  <2>4. /\ Base <= c.first /\ c.first <= c.next /\ c.last < ApicPage
        /\ c.last = PageOf(PageSize * c.first + c.size)
        /\ CallPages = c.first .. c.next - 1 /\ CallPages \subseteq DOMAIN pages
        /\ \A p \in CallPages : pages[p] = PageOf(c.phys)
    BY <1>1 DEF SpaceInv, CallInv, CallPages
  <2> HIDE DEF c
  <2>5. CallPages' = CallPages \cup {c.next}
    <3>1. CallPages' = c.first .. (c.next + 1) - 1
      BY <2>1, <2>3 DEF CallPages
    <3> QED BY <3>1, <1>2, <2>4
  <2>6. /\ DOMAIN pages' = DOMAIN pages \cup {c.next} /\ c.next \notin DOMAIN pages
        /\ \A p \in DOMAIN pages : pages'[p] = pages[p]
        /\ pages'[c.next] = PageOf(c.phys)
    BY <1>2, <1>4, <2>2
  <2>7. CountInv'
    <3>1. /\ IsFiniteSet(DOMAIN pages')
          /\ Cardinality(DOMAIN pages') = Cardinality(DOMAIN pages) + 1
      BY <2>6, FS_AddElement DEF SpaceInv, CountInv
    <3>2. start_addr' = PageSize * (Base + Cardinality(DOMAIN pages'))
      <4>1. /\ start_addr = PageSize * (Base + Cardinality(DOMAIN pages))
            /\ Cardinality(DOMAIN pages) \in Nat
        BY CountFacts DEF SpaceInv, CountInv
      <4> QED BY <4>1, <3>1, <2>2, <1>2 DEF PageSize
    <3>3. Base <= c.next /\ c.next < ApicPage
      BY <1>1, <1>2, <2>4 DEF c
    <3> QED BY <3>1, <3>2, <3>3, <2>6 DEF SpaceInv, CountInv, Base, ApicPage
  <2>8. CallInv'
    <3>1. \A p \in CallPages' : p \in DOMAIN pages' /\ pages'[p] = PageOf(c.phys)
      BY <2>4, <2>5, <2>6
    <3>2. c.next + 1 <= c.last + 1 /\ c.first <= c.next + 1
      BY <1>1, <1>2, <2>4 DEF c
    <3> QED BY <3>1, <3>2, <2>1, <2>3, <2>4, Zenon DEF CallInv, Base, ApicPage
  <2>9. RegionsInv'
    <3>1. \A i \in 1 .. Len(regions) : Pages(i)' = Pages(i) /\ First(i)' = First(i)
      BY <2>2 DEF Pages, First
    <3>2. ASSUME NEW i \in 1 .. Len(regions)
          PROVE  /\ regions[i].virtual_start = PageSize * First(i)
                 /\ Pages(i) \subseteq DOMAIN pages' /\ Pages(i) \cap CallPages' = {}
                 /\ \A p \in Pages(i) : pages'[p] = PageOf(regions[i].phys)
      BY <2>5, <2>6 DEF SpaceInv, RegionsInv
    <3>3. \A i, j \in 1 .. Len(regions) : i # j => Pages(i)' \cap Pages(j)' = {}
      BY <3>1 DEF SpaceInv, RegionsInv
    <3>4. regions' = regions
      BY <2>2
    <3> QED BY <3>1, <3>2, <3>3, <3>4, Zenon DEF RegionsInv
  <2>10. AcpiTypeOK'
    <3>1. pages' \in [DOMAIN pages' -> Nat] /\ DOMAIN pages' \subseteq Nat
      BY <1>2, <2>2, PageOfFacts DEF SpaceInv, AcpiTypeOK
    <3>2. start_addr' \in Nat
      BY <2>2 DEF SpaceInv, AcpiTypeOK, PageSize
    <3> QED BY <3>1, <3>2, <2>2, <2>3 DEF SpaceInv, AcpiTypeOK
  <2>11. \A p \in DOMAIN pages' : \/ p \in CallPages'
                                  \/ \E i \in 1 .. Len(regions') : p \in Pages(i)'
    BY <2>2, <2>5, <2>6 DEF SpaceInv, Pages
  <2> QED BY <2>7, <2>8, <2>9, <2>10, <2>11 DEF SpaceInv
<1> QED BY <1>3, <1>4

\* The call's pages become the new region's.
LEMMA SpaceMapEnd ==
  ASSUME SpaceInv, MapEnd
  PROVE  SpaceInv'
<1>0. PICK n \in Nat : n = Len(regions)
  BY SpaceTypes DEF SpaceInv
<1> DEFINE c == call[1]
           m == [virtual_start |-> c.first * PageSize, phys |-> c.phys, size |-> c.size]
<1>1. /\ c \in Calls /\ call # <<>> /\ c.next > c.last /\ c.next <= c.last + 1
      /\ c.last = PageOf(PageSize * c.first + c.size)
      /\ CallPages = c.first .. c.next - 1 /\ CallPages \subseteq DOMAIN pages
      /\ \A p \in CallPages : pages[p] = PageOf(c.phys)
  BY SpaceTypes DEF MapEnd, SpaceInv, CallInv, CallPages
<1>2. /\ c.phys \in Nat /\ c.size \in Nat \ {0} /\ c.first \in Nat /\ c.next \in Nat
      /\ c.last \in Nat
  BY <1>1 DEF Calls
<1>3. /\ m \in Mappings /\ m.virtual_start = PageSize * c.first
      /\ m.phys = c.phys /\ m.size = c.size
  BY <1>2 DEF Mappings, PageSize
<1>4. /\ regions' = Append(regions, m) /\ call' = <<>>
      /\ UNCHANGED <<start_addr, pages, reordered, fault>>
  BY DEF MapEnd
<1> HIDE DEF m, c
<1>5. /\ regions' \in Seq(Mappings) /\ Len(regions') = n + 1 /\ regions'[n + 1] = m
      /\ \A i \in 1 .. n : regions'[i] = regions[i]
  BY <1>0, <1>3, <1>4, AppendProperties DEF SpaceInv, AcpiTypeOK
<1>6. PageOf(m.virtual_start) = c.first /\ RegionPages(m) = CallPages
  <2>1. PageOf(m.virtual_start) = c.first
    BY <1>2, <1>3, PageOfFacts
  <2>2. PageOf(m.virtual_start + m.size) = c.last /\ c.last = c.next - 1
    BY <1>1, <1>2, <1>3
  <2> QED BY <2>1, <2>2, <1>1 DEF RegionPages
<1>7. /\ \A i \in 1 .. n : Pages(i)' = Pages(i) /\ First(i)' = First(i)
      /\ Pages(n + 1)' = CallPages /\ First(n + 1)' = c.first
  BY <1>5, <1>6 DEF Pages, First
<1>8. CallPages' = {}
  BY <1>4 DEF CallPages
<1>9. RegionsInv'
  <2>1. ASSUME NEW i \in 1 .. n + 1
        PROVE  /\ regions'[i].virtual_start = PageSize * First(i)'
               /\ Pages(i)' \subseteq DOMAIN pages' /\ Pages(i)' \cap CallPages' = {}
               /\ \A p \in Pages(i)' : pages'[p] = PageOf(regions'[i].phys)
    <3>1. CASE i = n + 1
      BY <3>1, <1>1, <1>3, <1>4, <1>5, <1>7, <1>8
    <3>2. CASE i # n + 1
      <4>1. i \in 1 .. n
        BY <3>2
      <4> QED BY <4>1, <1>0, <1>4, <1>5, <1>7, <1>8 DEF SpaceInv, RegionsInv
    <3> QED BY <3>1, <3>2
  <2>2. ASSUME NEW i \in 1 .. n + 1, NEW j \in 1 .. n + 1, i # j
        PROVE  Pages(i)' \cap Pages(j)' = {}
    <3>1. \A k \in 1 .. n : Pages(k) \cap CallPages = {}
      BY <1>0 DEF SpaceInv, RegionsInv
    <3>2. \A k, l \in 1 .. n : k # l => Pages(k) \cap Pages(l) = {}
      BY <1>0 DEF SpaceInv, RegionsInv
    <3>3. (i \in 1 .. n \/ i = n + 1) /\ (j \in 1 .. n \/ j = n + 1)
      OBVIOUS
    <3> QED BY <3>1, <3>2, <3>3, <2>2, <1>7, Zenon
  <2> QED BY <2>1, <2>2, <1>5 DEF RegionsInv
<1>10. AcpiTypeOK'
  BY <1>4, <1>5, EmptySeq DEF SpaceInv, AcpiTypeOK
<1>11. \A p \in DOMAIN pages' : \E i \in 1 .. Len(regions') : p \in Pages(i)'
  <2> SUFFICES ASSUME NEW p \in DOMAIN pages PROVE \E i \in 1 .. n + 1 : p \in Pages(i)'
    BY <1>4, <1>5
  <2>1. CASE p \in CallPages
    BY <2>1, <1>7
  <2>2. CASE p \notin CallPages
    BY <2>2, <1>0, <1>7 DEF SpaceInv
  <2> QED BY <2>1, <2>2
<1>12. CountInv' /\ CallInv'
  BY <1>4 DEF SpaceInv, CountInv, CallInv
<1> QED BY <1>9, <1>10, <1>11, <1>12 DEF SpaceInv

\* Dropping any region gives back its pages and no other.
LEMMA SpaceUnmap ==
  ASSUME SpaceInv, NEW i \in DOMAIN regions, Unmap(i)
  PROVE  SpaceInv' /\ UNCHANGED fault
<1>0. PICK n \in Nat : n = Len(regions)
  BY SpaceTypes DEF SpaceInv
<1>1. i \in 1 .. n /\ n - 1 \in Nat
  BY <1>0 DEF SpaceInv, AcpiTypeOK
<1>2. Pages(i) \subseteq DOMAIN pages
  BY <1>0, <1>1 DEF SpaceInv, RegionsInv
<1>3. /\ pages' = [p \in DOMAIN pages \ Pages(i) |-> pages[p]]
      /\ start_addr' = start_addr - PageSize * PageCount(regions[i])
      /\ regions' = Others(i) /\ reordered' \in BOOLEAN /\ UNCHANGED <<fault, call>> /\ call = <<>>
  BY <1>2 DEF Unmap, Pages, Idle
<1> DEFINE Was(j) == IF j < i THEN j ELSE j + 1
<1>4. \A j \in 1 .. n - 1 : Was(j) \in 1 .. n /\ Was(j) # i
  BY <1>1
<1>5. \A j, k \in 1 .. n - 1 : j # k => Was(j) # Was(k)
  BY <1>1
<1>6. \A k \in 1 .. n : k # i => \E j \in 1 .. n - 1 : Was(j) = k
  <2> SUFFICES ASSUME NEW k \in 1 .. n, k # i PROVE \E j \in 1 .. n - 1 : Was(j) = k
    OBVIOUS
  <2>1. CASE k < i
    BY <2>1, <1>1
  <2>2. CASE k > i
    <3>1. k - 1 \in 1 .. n - 1 /\ Was(k - 1) = k
      BY <2>2, <1>1
    <3> HIDE DEF Was
    <3> QED BY <3>1
  <2>3. k < i \/ k > i
    BY <1>1
  <2> QED BY <2>1, <2>2, <2>3
<1>7. regions' = [j \in 1 .. n - 1 |-> regions[Was(j)]]
  BY <1>0, <1>3 DEF Others
<1> HIDE DEF Was
<1>8. /\ regions' \in Seq(Mappings) /\ Len(regions') = n - 1
      /\ \A j \in 1 .. n - 1 : regions'[j] = regions[Was(j)]
  <2>1. \A j \in 1 .. n - 1 : regions[Was(j)] \in Mappings
    BY <1>0, <1>4, SpaceTypes DEF SpaceInv
  <2> QED BY <2>1, <1>1, <1>7
<1>9. \A j \in 1 .. n - 1 : Pages(j)' = Pages(Was(j)) /\ First(j)' = First(Was(j))
  BY <1>8 DEF Pages, First
<1>10. CallPages = {} /\ CallPages' = {}
  BY <1>3 DEF CallPages
<1>11. DOMAIN pages' = DOMAIN pages \ Pages(i) /\ \A p \in DOMAIN pages' : pages'[p] = pages[p]
  BY <1>3
<1>12. /\ \A j \in 1 .. n : j # i => Pages(j) \cap Pages(i) = {}
       /\ \A j, k \in 1 .. n : j # k => Pages(j) \cap Pages(k) = {}
       /\ \A j \in 1 .. n : /\ regions[j].virtual_start = PageSize * First(j)
                            /\ Pages(j) \subseteq DOMAIN pages
                            /\ \A p \in Pages(j) : pages[p] = PageOf(regions[j].phys)
  BY <1>0, <1>1 DEF SpaceInv, RegionsInv
<1>13. RegionsInv'
  <2>1. ASSUME NEW j \in 1 .. n - 1
        PROVE  /\ regions'[j].virtual_start = PageSize * First(j)'
               /\ Pages(j)' \subseteq DOMAIN pages' /\ Pages(j)' \cap CallPages' = {}
               /\ \A p \in Pages(j)' : pages'[p] = PageOf(regions'[j].phys)
    <3>1. PICK k \in 1 .. n : k = Was(j) /\ k # i
      BY <1>4
    <3>2. Pages(k) \subseteq DOMAIN pages'
      BY <3>1, <1>11, <1>12
    <3> QED BY <3>1, <3>2, <1>8, <1>9, <1>10, <1>11, <1>12
  <2>2. ASSUME NEW j \in 1 .. n - 1, NEW k \in 1 .. n - 1, j # k
        PROVE  Pages(j)' \cap Pages(k)' = {}
    BY <2>2, <1>4, <1>5, <1>9, <1>12
  <2> QED BY <2>1, <2>2, <1>8 DEF RegionsInv
<1>14. CountInv'
  <2>1. PICK f \in Nat, l \in Nat : /\ f = PageOf(regions[i].virtual_start)
                                   /\ l = PageOf(regions[i].virtual_start + regions[i].size)
    BY <1>0, <1>1, SpaceTypes DEF SpaceInv, First, LastOf
  <2>2. f <= l
    <3>1. regions[i] \in Mappings
      BY <1>0, <1>1, SpaceTypes DEF SpaceInv
    <3>2. /\ regions[i].virtual_start \in Nat
          /\ regions[i].virtual_start + regions[i].size \in Nat
          /\ regions[i].virtual_start <= regions[i].virtual_start + regions[i].size
      BY <3>1 DEF Mappings
    <3> QED BY <2>1, <3>2, PageOfFacts
  <2>3. Pages(i) = f .. l /\ PageCount(regions[i]) = l - f + 1
    BY <2>1 DEF Pages, RegionPages, PageCount
  <2>4. Cardinality(Pages(i)) = l - f + 1
    BY <2>2, <2>3, FS_Interval
  <2>5. DOMAIN pages \cap Pages(i) = Pages(i)
    BY <1>2
  <2>6. /\ IsFiniteSet(DOMAIN pages')
        /\ Cardinality(DOMAIN pages') = Cardinality(DOMAIN pages) - (l - f + 1)
    <3>1. PICK D : D = DOMAIN pages
      OBVIOUS
    <3>2. IsFiniteSet(D)
      BY <3>1 DEF SpaceInv, CountInv
    <3>3. /\ IsFiniteSet(D \ Pages(i))
          /\ Cardinality(D \ Pages(i)) = Cardinality(D) - Cardinality(D \cap Pages(i))
      BY ONLY <3>2, FS_Difference, ZenonT(30)
    <3> QED BY <3>1, <3>3, <1>11, <2>4, <2>5
  <2>7. start_addr' = PageSize * (Base + Cardinality(DOMAIN pages'))
    <3>1. /\ start_addr = PageSize * (Base + Cardinality(DOMAIN pages))
          /\ Cardinality(DOMAIN pages) \in Nat /\ Base \in Nat
      BY CountFacts, Layout DEF SpaceInv, CountInv
    <3> QED BY <3>1, <2>3, <2>6, <1>3 DEF PageSize
  <2> QED BY <2>6, <2>7, <1>11 DEF SpaceInv, CountInv, Base, ApicPage
<1>15. AcpiTypeOK'
  <2>1. pages' \in [DOMAIN pages' -> Nat] /\ DOMAIN pages' \subseteq Nat
    BY <1>3 DEF SpaceInv, AcpiTypeOK
  <2>2. start_addr' \in Nat
    <3>1. Cardinality(DOMAIN pages') \in Nat
      BY <1>14, FS_CardinalityType DEF CountInv
    <3> QED BY <3>1, <1>14, Layout DEF CountInv, Base, PageSize
  <2> QED BY <2>1, <2>2, <1>3, <1>8 DEF SpaceInv, AcpiTypeOK
<1>16. \A p \in DOMAIN pages' : \E j \in 1 .. Len(regions') : p \in Pages(j)'
  <2> SUFFICES ASSUME NEW p \in DOMAIN pages, p \notin Pages(i)
               PROVE  \E j \in 1 .. n - 1 : p \in Pages(j)'
    BY <1>8, <1>11
  <2>1. PICK k \in 1 .. n : p \in Pages(k) /\ k # i
    BY <1>0, <1>10 DEF SpaceInv
  <2>2. PICK j \in 1 .. n - 1 : Was(j) = k
    BY <2>1, <1>6
  <2> QED BY <2>1, <2>2, <1>9
<1>17. CallInv'
  BY <1>3 DEF CallInv
<1> QED BY <1>3, <1>13, <1>14, <1>15, <1>16, <1>17 DEF SpaceInv

\* A new handler is made when the window is empty, and begins where it begins.
LEMMA SpaceNewHandler ==
  ASSUME SpaceInv, NewHandler
  PROVE  SpaceInv'
<1>1. /\ call = <<>> /\ regions = <<>> /\ start_addr' = KernelAcpiAddr
      /\ UNCHANGED <<pages, regions, reordered, call, fault>>
  BY DEF NewHandler, Idle
<1>2. start_addr' = start_addr
  BY <1>1, EmptyRun, CountFacts, FS_EmptySet, Layout DEF SpaceInv, CountInv
<1> QED BY <1>1, <1>2
        DEF SpaceInv, AcpiTypeOK, CountInv, CallInv, RegionsInv, CallPages, Pages, First

\* What boot relies on of the window: one run unless regions were reordered.
RunInv == SpaceInv /\ (~reordered => WindowInv)

\* Every step of the window keeps it; a page is refused only after a reordering.
LEMMA WindowStep ==
  ASSUME RunInv, [AcpiNext]_acpiVars
  PROVE  /\ RunInv'
         /\ \/ fault' = fault \/ fault' \in {"exhausted", "no_frame"}
            \/ fault' = "already_mapped" /\ reordered' /\ MapPage
<1>0. SpaceInv /\ (~reordered => WindowInv)
  BY DEF RunInv
<1>1. ASSUME NEW r \in Regions, MapBegin(r) PROVE RunInv' /\ fault' = fault
  BY <1>0, <1>1, MapBeginInv, SpaceMapBegin DEF MapBegin, RunInv
<1>2. ASSUME fault' \in Faults, UNCHANGED <<start_addr, pages, regions, reordered, call>>
      PROVE  RunInv'
  BY <1>0, <1>2, FaultInv, SpaceFault DEF RunInv
<1>3. ASSUME NEW r \in Regions, MapExhausted(r) PROVE RunInv' /\ fault' = "exhausted"
  BY <1>2, <1>3 DEF MapExhausted, Faults
<1>4. ASSUME MapNoFrame PROVE RunInv' /\ fault' = "no_frame"
  BY <1>2, <1>4 DEF MapNoFrame, Faults
<1>5. ASSUME MapPage
      PROVE  RunInv' /\ (fault' = fault \/ (fault' = "already_mapped" /\ reordered'))
  <2>1. SpaceInv' /\ reordered' = reordered /\ (fault' = fault \/ fault' = "already_mapped")
    BY <1>0, <1>5, SpaceMapPage DEF MapPage
  <2>2. reordered \in BOOLEAN
    BY <1>0 DEF SpaceInv, AcpiTypeOK
  <2>3. CASE ~reordered
    <3>1. WindowInv' /\ fault' = fault
      BY <2>3, <1>0, <1>5, MapPageInv
    <3>2. RunInv'
      BY <2>1, <3>1 DEF RunInv
    <3> QED BY <3>1, <3>2
  <2>4. CASE reordered
    BY <2>1, <2>4 DEF RunInv
  <2> QED BY <2>2, <2>3, <2>4
<1>6. ASSUME MapEnd PROVE RunInv' /\ fault' = fault
  BY <1>0, <1>6, MapEndInv, SpaceMapEnd DEF MapEnd, RunInv
<1>7. ASSUME NEW i \in DOMAIN regions, Unmap(i) PROVE RunInv' /\ fault' = fault
  <2>1. SpaceInv' /\ fault' = fault
    BY <1>0, <1>7, SpaceUnmap
  <2>2. ASSUME ~reordered' PROVE WindowInv'
    <3>1. /\ i \in 1 .. Len(regions) /\ Len(regions) \in Nat
          /\ RegionPages(regions[i]) \subseteq DOMAIN pages
      BY <1>0, SpaceTypes DEF SpaceInv, AcpiTypeOK, RegionsInv, Pages
    <3>2. /\ reordered' = (Len(regions) > 1 /\ (reordered \/ i # Len(regions)))
          /\ regions' = Others(i) /\ call' = <<>>
      BY <1>7, <3>1 DEF Unmap, Idle
    <3>3. CASE Len(regions) > 1
      <4>1. ~reordered /\ i = Len(regions) /\ regions # <<>>
        <5>1. regions # <<>>
          BY <3>3, EmptySeq
        <5> QED BY <5>1, <2>2, <3>2, <3>3, Zenon
      <4> QED BY <4>1, <1>0, <1>7, UnmapInv
    <3>4. CASE ~(Len(regions) > 1)
      <4>1. regions' = <<>>
        BY <3>1, <3>2, <3>4 DEF Others
      <4>2. (SpaceInv /\ call = <<>> /\ regions = <<>> => DOMAIN pages = {} /\ WindowInv)'
        BY EmptyRun, PTL
      <4> QED BY <4>1, <4>2, <3>2, <2>1
    <3> QED BY <3>3, <3>4
  <2> QED BY <2>1, <2>2 DEF RunInv
<1>8. ASSUME NewHandler PROVE RunInv' /\ fault' = fault
  <2>1. SpaceInv' /\ call' = <<>> /\ regions' = <<>> /\ fault' = fault
    BY <1>0, <1>8, SpaceNewHandler DEF NewHandler, Idle
  <2>2. (SpaceInv /\ call = <<>> /\ regions = <<>> => DOMAIN pages = {} /\ WindowInv)'
    BY EmptyRun, PTL
  <2> QED BY <2>1, <2>2 DEF RunInv
<1>9. ASSUME UNCHANGED acpiVars PROVE RunInv' /\ fault' = fault
  <2>1. fault' \in Faults /\ fault' = fault
    BY <1>0, <1>9 DEF acpiVars, SpaceInv, AcpiTypeOK
  <2> QED BY <2>1, <1>2, <1>9 DEF acpiVars
<1> QED BY <1>1, <1>3, <1>4, <1>5, <1>6, <1>7, <1>8, <1>9 DEF AcpiNext
-----------------------------------------------------------------------------
(* Boot *)

\* What the steps around the window rely on: it is empty when they begin.
BootInv ==
  /\ RunInv /\ MapperNeverRefuses
  /\ fault = "already_mapped" => stage = "acpi"
  /\ stage \notin {"memory", "acpi"} => call = <<>> /\ regions = <<>>
  /\ stage \in {"memory", "acpi", "apic", "lapic"} => devices = {}

\* With no region and no call the page table of the window is empty.
LEMMA WindowEmpty ==
  ASSUME SpaceInv, call = <<>>, regions = <<>>
  PROVE  DOMAIN pages = {} /\ pages = [p \in {} |-> 0]
<1>1. DOMAIN pages = {}
  BY EmptyRun
<1>2. pages = [p \in DOMAIN pages |-> pages[p]]
  BY DEF SpaceInv, AcpiTypeOK
<1> QED BY <1>1, <1>2

\* Steps that leave the window to itself, or are steps of it.
LEMMA AroundWindow ==
  ASSUME BootInv, [AcpiNext]_acpiVars,
         stage = "acpi" => stage' = "acpi" \/ UNCHANGED acpiVars,
         MapPage => stage = "acpi",
         fault = "already_mapped" => UNCHANGED <<fault, stage, reordered>>,
         stage' \notin {"memory", "acpi"} => call' = <<>> /\ regions' = <<>>,
         stage' \in {"memory", "acpi", "apic", "lapic"} => devices' = {}
  PROVE  BootInv'
<1>1. /\ RunInv'
      /\ \/ fault' = fault \/ fault' \in {"exhausted", "no_frame"}
         \/ fault' = "already_mapped" /\ reordered' /\ MapPage
  BY WindowStep DEF BootInv
<1>2. MapPage /\ fault' = "already_mapped" => stage' = "acpi"
  BY DEF MapPage, acpiVars, Mapping
<1> QED BY <1>1, <1>2 DEF BootInv, MapperNeverRefuses

\* Steps that may stop the kernel, and leave the window alone.
LEMMA StopsAround ==
  ASSUME BootInv, fault' \in {fault, "no_frame", "lapic", "io_apic"},
         fault # "already_mapped" \/ UNCHANGED <<fault, stage>>,
         UNCHANGED <<start_addr, pages, regions, reordered, call>>,
         stage' \notin {"memory", "acpi"} => call = <<>> /\ regions = <<>>,
         stage' \in {"memory", "acpi", "apic", "lapic"} => devices' = {}
  PROVE  BootInv'
<1>1. fault' \in Faults
  BY DEF BootInv, RunInv, SpaceInv, AcpiTypeOK, Faults
<1>2. RunInv'
  BY <1>1, FaultInv, SpaceFault DEF BootInv, RunInv
<1> QED BY <1>2 DEF BootInv, MapperNeverRefuses

\* Every step of boot keeps the invariant.
LEMMA BootStep ==
  ASSUME BootInv, [BootNext]_allVars
  PROVE  BootInv'
<1>1. CASE MemoryStep
  <2>1. /\ UNCHANGED acpiVars /\ stage = "memory" /\ stage' \in {"memory", "acpi"}
        /\ UNCHANGED devices
    BY <1>1 DEF MemoryStep, bootVars
  <2>2. fault # "already_mapped"
    BY <2>1 DEF BootInv
  <2> QED BY <2>1, <2>2, StopsAround DEF BootInv, acpiVars
<1>2. CASE NewTable
  <2>1. fault = "none" /\ UNCHANGED acpiVars /\ UNCHANGED <<stage, devices>>
    BY <1>2 DEF NewTable, Running
  <2> QED BY <2>1, StopsAround DEF BootInv, acpiVars
<1>3. CASE NoFrame
  <2>1. /\ fault = "none" /\ fault' = "no_frame"
        /\ UNCHANGED <<start_addr, pages, regions, reordered, call, stage, devices>>
    BY <1>3 DEF NoFrame, bootVars, Running
  <2> QED BY <2>1, StopsAround DEF BootInv
<1>4. CASE AcpiStep
  <2>1. AcpiNext /\ stage = "acpi" /\ fault = "none" /\ UNCHANGED <<stage, devices>>
    BY <1>4 DEF AcpiStep, AcpiNext, bootVars, Running
  <2> QED BY <2>1, AroundWindow DEF BootInv
<1>5. CASE SearchBios
  <2>1. AcpiNext /\ stage = "acpi" /\ fault = "none" /\ UNCHANGED <<stage, devices>>
    BY <1>5 DEF SearchBios, AcpiNext, Running
  <2> QED BY <2>1, AroundWindow DEF BootInv
<1>6. CASE AcpiDone
  <2>1. /\ fault = "none" /\ UNCHANGED acpiVars /\ UNCHANGED devices
        /\ call = <<>> /\ regions = <<>> /\ stage = "acpi"
    BY <1>6 DEF AcpiDone, Idle
  <2> QED BY <2>1, StopsAround DEF BootInv, acpiVars
<1>7. CASE CheckLapic
  <2>1. /\ fault = "none" /\ fault' \in {fault, "lapic"} /\ stage = "apic"
        /\ stage' \in {"apic", "lapic"}
        /\ UNCHANGED <<start_addr, pages, regions, reordered, call, devices>>
    BY <1>7 DEF CheckLapic, Running
  <2> QED BY <2>1, StopsAround DEF BootInv
<1>8. CASE MapLapic
  <2>1. Target = {ApicPage} /\ stage = "lapic" /\ fault = "none"
    BY <1>8 DEF MapLapic, Target, ApicPage, Running
  <2>2. call = <<>> /\ regions = <<>> /\ devices = {} /\ DOMAIN pages = {}
    BY <2>1, WindowEmpty DEF BootInv, RunInv
  <2>3. ~Present(ApicPage)
    BY <2>2, Layout DEF Present
  <2>4. /\ stage' = "io" /\ fault' \in {fault, "lapic"}
        /\ UNCHANGED <<start_addr, pages, regions, reordered, call>>
    BY <1>8, <2>1, <2>3 DEF MapLapic
  <2> QED BY <2>1, <2>2, <2>4, StopsAround
<1>9. CASE MapIoApic
  <2>1. /\ stage = "io" /\ stage' = "io" /\ fault = "none" /\ fault' \in {fault, "io_apic"}
        /\ UNCHANGED <<start_addr, pages, regions, reordered, call>>
    BY <1>9 DEF MapIoApic, Running
  <2> QED BY <2>1, StopsAround DEF BootInv
<1>10. CASE ControllersDone
  <2>1. fault = "none" /\ stage \in {"io", "pic"} /\ stage' = "done" /\ UNCHANGED acpiVars
    BY <1>10 DEF ControllersDone, Running
  <2> QED BY <2>1, StopsAround DEF BootInv, acpiVars
<1>11. CASE UNCHANGED <<acpiVars, stage, devices>>
  BY <1>11, StopsAround DEF BootInv, acpiVars
<1>12. CASE LaterFrames
  BY <1>12, <1>11 DEF LaterFrames, bootVars
<1>13. CASE Halted \/ UNCHANGED allVars
  BY <1>13, <1>11 DEF Halted, allVars, bootVars
<1> QED BY <1>1, <1>2, <1>3, <1>4, <1>5, <1>6, <1>7, <1>8, <1>9, <1>10, <1>12, <1>13
        DEF BootNext
-----------------------------------------------------------------------------
(* The properties *)

\* All pages of the window lie between the heap and the local APIC's page.
LEMMA InvApart == BootInv => WindowApart
<1> SUFFICES ASSUME BootInv PROVE WindowApart
  OBVIOUS
<1>1. \A p \in DOMAIN pages : p \in Nat /\ p >= Base /\ p < ApicPage
  BY DEF BootInv, RunInv, SpaceInv, CountInv, AcpiTypeOK
<1>2. \A p \in HeapPages : p < Base
  BY Layout
<1>3. \A p \in DOMAIN pages : p \notin HeapPages
  BY <1>1, <1>2, Layout
<1>4. ApicPage \notin HeapPages
  BY <1>2, Layout
<1> QED BY <1>1, <1>3, <1>4 DEF WindowApart, ApicPage

\* Every region has pages of its own.
LEMMA InvRegions == BootInv => RegionsApart
<1> SUFFICES ASSUME BootInv PROVE RegionsApart
  OBVIOUS
<1>1. DOMAIN regions = 1 .. Len(regions) /\ Len(regions) \in Nat
  BY LenProperties DEF BootInv, RunInv, SpaceInv, AcpiTypeOK
<1> QED BY <1>1 DEF RegionsApart, BootInv, RunInv, SpaceInv, RegionsInv, Pages

\* Where a page begins, and the rest of a division by the page size.
LEMMA Offsets ==
  /\ \A p, k \in Nat : /\ PageOf(PageSize * p + k) = p + PageOf(k)
                       /\ (PageSize * p + k) % PageSize = k % PageSize
  /\ \A a \in Nat : a = PageOf(a) * PageSize + (a % PageSize)
  /\ \A a \in Nat : a % PageSize \in Nat /\ a % PageSize <= a /\ (a % PageSize = a <=> a < PageSize)
BY DEF PageOf, PageSize

\* A byte of a region is seen through its mapping if the region begins on a frame and
\* the byte lies in that frame, and only then.
LEMMA ByteSeen ==
  ASSUME BootInv, NEW i \in DOMAIN regions
  PROVE  SeenRight(regions[i], 0 .. regions[i].size - 1)
<1> SUFFICES ASSUME NEW k \in 0 .. regions[i].size - 1
             PROVE  Translate(regions[i].virtual_start + k) = <<regions[i].phys + k>>
                      <=> regions[i].phys % PageSize = 0 /\ k < PageSize
  BY DEF SeenRight
<1>1. AcpiTypeOK /\ RegionsInv /\ i \in 1 .. Len(regions)
  BY LenProperties DEF BootInv, RunInv, SpaceInv, AcpiTypeOK
<1>2. PICK a \in Nat, s \in Nat, f \in Nat :
        a = regions[i].phys /\ s = regions[i].size /\ f = First(i)
  BY <1>1, SpaceTypes DEF Mappings
<1>3. regions[i].virtual_start = PageSize * f /\ k \in Nat /\ k < s
  BY <1>1, <1>2 DEF RegionsInv
<1>4. f + PageOf(k) \in Pages(i)
  <2>1. Pages(i) = f .. f + PageOf(s)
    <3>1. PageOf(PageSize * f) = f /\ PageOf(PageSize * f + s) = f + PageOf(s)
      BY Offsets, PageOfFacts
    <3> QED BY <3>1, <1>2, <1>3 DEF Pages, RegionPages
  <2>2. PageOf(k) \in Nat /\ PageOf(s) \in Nat /\ PageOf(k) <= PageOf(s)
    BY <1>3, PageOfFacts
  <2> QED BY <2>1, <2>2
<1>5. f + PageOf(k) \in DOMAIN pages /\ pages[f + PageOf(k)] = PageOf(a)
  BY <1>1, <1>2, <1>4 DEF RegionsInv
<1>6. Translate(regions[i].virtual_start + k) = <<PageOf(a) * PageSize + (k % PageSize)>>
  BY <1>3, <1>5, Offsets DEF Translate
<1>7. \A x, y : <<x>> = <<y>> <=> x = y
  OBVIOUS
<1>8. PageOf(a) * PageSize + (k % PageSize) = a + k <=> a % PageSize = 0 /\ k < PageSize
  <2>1. /\ a = PageOf(a) * PageSize + (a % PageSize) /\ a % PageSize \in Nat
        /\ k % PageSize \in Nat /\ k % PageSize <= k
        /\ (k % PageSize = k <=> k < PageSize)
    BY <1>3, Offsets, Zenon
  <2>4. PageOf(a) * PageSize \in Nat
    <3>1. PageOf(a) \in Nat
      BY PageOfFacts
    <3> QED BY <3>1 DEF PageSize
  <2>2. ASSUME NEW q \in Nat, NEW x \in Nat, NEW y \in Nat, y <= k, a = q + x
        PROVE  q + y = a + k <=> x = 0 /\ y = k
    BY <1>3, <2>2
  <2>3. PageOf(a) * PageSize + (k % PageSize) = a + k <=> a % PageSize = 0 /\ k % PageSize = k
    BY <2>1, <2>2, <2>4, Zenon
  <2> QED BY <2>1, <2>3, Zenon
<1> QED BY <1>2, <1>6, <1>7, <1>8

\* The probes are among the region's bytes.
LEMMA InvShown == BootInv => RegionShown
BY ByteSeen DEF RegionShown, SeenRight, Probes

\* After acpi::init the window is empty.
LEMMA InvReturned ==
  BootInv => (stage \notin {"memory", "acpi"} => pages = [p \in {} |-> 0])
BY WindowEmpty DEF BootInv, RunInv

\* The invariant holds throughout boot and after it.
LEMMA BootInvariant == BootSpec => []BootInv
<1>1. BootInit => BootInv
  BY WindowInit DEF BootInit, BootInv, RunInv, AcpiInit, MapperNeverRefuses
<1> QED BY <1>1, BootStep, PTL DEF BootSpec

-----------------------------------------------------------------------------
(* The controllers *)

\* The pages of devices are that of the local APIC and those of the I/O APICs set up.
ControllersInv ==
  /\ tables \in Seq({IoTable(m) : m \in Madts})
  /\ stage \in {"apic", "lapic", "io"} => model[1] \in Madts
  /\ \A d \in devices :
       \/ d[1] = ApicPage
       \/ \E i \in 1 .. Len(tables) : d[1] = PageOf(model[1].io_apics[i])
  /\ IoApicExplained

\* A step that leaves controllers and devices alone explains no new refusal.
LEMMA AroundControllers ==
  ASSUME ControllersInv, UNCHANGED <<model, tables, devices>>,
         fault' = fault \/ fault' # "io_apic",
         stage' \in {"apic", "lapic", "io"} => stage \in {"apic", "lapic", "io"}
  PROVE  ControllersInv'
BY DEF ControllersInv, IoApicExplained

\* One I/O APIC: refused because its page is present, or added with its page.
LEMMA IoApicStep ==
  ASSUME BootInv, ControllersInv, MapIoApic
  PROVE  ControllersInv'
<1>1. PICK p \in Target :
        IF Present(p)
        THEN fault' = "io_apic" /\ UNCHANGED <<devices, controllerVars>>
        ELSE devices' = devices \cup {<<p, p>>} /\ SetUpIoApic /\ UNCHANGED fault
  BY DEF MapIoApic
<1>2. stage = "io" /\ UNCHANGED stage /\ fault = "none" /\ model[1] \in Madts
  BY DEF MapIoApic, Running, ControllersInv
<1>3. p = PageOf(model[1].io_apics[Len(tables) + 1])
  BY <1>1, <1>2 DEF Target, NextIoApic
<1>4. Len(tables) \in Nat /\ (Len(tables) + 1) - 1 = Len(tables)
  BY DEF ControllersInv
<1>5. CASE Present(p)
  <2>1. p \in {d[1] : d \in devices} \cup HeapPages
    BY <1>2, <1>5, WindowEmpty DEF Present, BootInv, RunInv
  <2>2. \/ p \in HeapPages \cup {ApicPage}
        \/ \E i \in 1 .. Len(tables) : p = PageOf(model[1].io_apics[i])
    BY <2>1 DEF ControllersInv
  <2>3. UNCHANGED <<devices, model, tables>>
    BY <1>1, <1>5 DEF controllerVars
  <2>4. IoApicExplained'
    BY <2>2, <2>3, <1>3, <1>4 DEF IoApicExplained, ApicPage
  <2> QED BY <2>3, <2>4, <1>2 DEF ControllersInv
<1>6. CASE ~Present(p)
  <2>1. /\ devices' = devices \cup {<<p, p>>} /\ UNCHANGED <<model, fault>>
        /\ tables' = Append(tables, IoTable(model[1]))
    BY <1>1, <1>6 DEF SetUpIoApic
  <2>2. tables' \in Seq({IoTable(m) : m \in Madts}) /\ Len(tables') = Len(tables) + 1
    BY <2>1, <1>2 DEF ControllersInv
  <2>3. ASSUME NEW d \in devices'
        PROVE  \/ d[1] = ApicPage
               \/ \E i \in 1 .. Len(tables') : d[1] = PageOf(model[1].io_apics[i])
    <3>1. CASE d \in devices
      BY <3>1, <2>2, <1>4 DEF ControllersInv
    <3>2. CASE d = <<p, p>>
      BY <3>2, <2>2, <1>3, <1>4
    <3> QED BY <3>1, <3>2, <2>1, <2>3
  <2>4. IoApicExplained'
    BY <2>1, <1>2 DEF IoApicExplained
  <2> QED BY <2>1, <2>2, <2>3, <2>4, <1>2 DEF ControllersInv
<1> QED BY <1>5, <1>6

\* No step maps a device other than these, or meets another refusal.
LEMMA ControllersStep ==
  ASSUME BootInv, ControllersInv, [BootNext]_allVars
  PROVE  ControllersInv'
<1>1. CASE MemoryStep
  BY <1>1, AroundControllers DEF MemoryStep, bootVars, acpiVars, controllerVars
<1>2. CASE NewTable
  BY <1>2, AroundControllers DEF NewTable, acpiVars, controllerVars
<1>3. CASE NoFrame
  BY <1>3, AroundControllers DEF NoFrame, bootVars, controllerVars
<1>4. CASE AcpiStep
  <2>1. UNCHANGED <<model, tables, devices, stage>>
    BY <1>4 DEF AcpiStep, bootVars, controllerVars
  <2>2. fault' = fault \/ fault' # "io_apic"
    BY <1>4 DEF AcpiStep, MapBegin, MapExhausted, MapPage, MapEnd, Unmap
  <2> QED BY <2>1, <2>2, AroundControllers
<1>5. CASE SearchBios
  BY <1>5, AroundControllers DEF SearchBios, NewHandler, controllerVars
<1>6. CASE AcpiDone
  <2>1. CASE \E m \in Madts : UseApic(m) /\ stage' = "apic"
    BY <2>1, <1>6 DEF AcpiDone, UseApic, acpiVars, Running, BootInv, ControllersInv,
                      IoApicExplained
  <2>2. CASE stage' = "pic" /\ UNCHANGED controllerVars
    BY <2>2, <1>6, AroundControllers DEF AcpiDone, acpiVars, controllerVars
  <2> QED BY <2>1, <2>2, <1>6 DEF AcpiDone
<1>12. CASE CheckLapic
  BY <1>12, AroundControllers DEF CheckLapic, controllerVars
<1>7. CASE MapLapic
  <2>1. stage = "lapic" /\ devices = {} /\ UNCHANGED <<model, tables>>
    BY <1>7 DEF MapLapic, BootInv, controllerVars
  <2>2. devices' \subseteq {<<ApicPage, 0>>}
    BY <2>1, <1>7 DEF MapLapic, Target, ApicPage
  <2>3. fault' # "io_apic"
    BY <1>7 DEF MapLapic, Running
  <2> QED BY <2>1, <2>2, <2>3 DEF ControllersInv, IoApicExplained
<1>8. CASE MapIoApic
  BY <1>8, IoApicStep
<1>9. CASE ControllersDone
  BY <1>9, AroundControllers DEF ControllersDone, LapicReady, UsePics, acpiVars
<1>10. CASE LaterFrames
  BY <1>10, AroundControllers DEF LaterFrames, bootVars, acpiVars, controllerVars
<1>11. CASE UNCHANGED allVars
  BY <1>11, AroundControllers DEF allVars, bootVars, acpiVars, controllerVars
<1> QED BY <1>1, <1>2, <1>3, <1>4, <1>5, <1>6, <1>7, <1>8, <1>9, <1>10, <1>11, <1>12
        DEF BootNext, Halted

-----------------------------------------------------------------------------
(* Boot as a user of the frame allocator *)

\* Boot changes the frame allocator's state only by its own operations: allocator::init,
\* map_to and the kernel's later calls.
LEMMA BootUsesFrames ==
  ASSUME 1 \in Sizes, [BootNext]_allVars
  PROVE  [Next]_vars
<1>1. CASE MemoryStep
  BY <1>1 DEF MemoryStep, Next
<1>2. CASE NewTable
  BY <1>2 DEF NewTable, Next
<1>3. CASE NoFrame
  BY <1>3 DEF NoFrame, AllocateNone
<1>4. CASE LaterFrames
  <2>1. CASE \E S \in Sizes : AllocateFrame(S) \/ AllocateNone(S)
    BY <2>1 DEF Next
  <2>2. CASE \E f \in handed \ table_frames : DeallocateFrame(f)
    BY <2>2 DEF Next
  <2> QED BY <1>4, <2>1, <2>2 DEF LaterFrames
<1>5. CASE UNCHANGED vars
  BY <1>5
<1> QED BY <1>1, <1>2, <1>3, <1>4, <1>5
        DEF BootNext, AcpiStep, SearchBios, AcpiDone, CheckLapic, MapLapic, MapIoApic, ControllersDone,
            Halted, allVars
-----------------------------------------------------------------------------
(* What the interrupt controllers deliver *)

Entries == [vector : Nat, flags : SUBSET IrqFlags]
Overrides == [isa_source : 0 .. 15, gsi : Lines, polarity : {"bus", "high", "low"},
              trigger : {"bus", "edge", "level"}]

\* enable_irq changes flags only.
LEMMA EnableIrqFacts ==
  ASSUME NEW table \in [Lines -> Entries], NEW l
  PROVE  /\ EnableIrq(table, l) \in [Lines -> Entries]
         /\ \A k \in Lines : k # l => EnableIrq(table, l)[k] = table[k]
         /\ l \in Lines => /\ EnableIrq(table, l)[l].vector = table[l].vector
                           /\ EnableIrq(table, l)[l].flags = table[l].flags \ {"MASKED"}
BY ZenonT(30) DEF EnableIrq, Entries

\* An override changes entries of the table, whichever lines it names.
LEMMA RedirectFacts ==
  ASSUME NEW table \in [Lines -> Entries], NEW o \in Overrides
  PROVE  Redirect(table, o) \in [Lines -> Entries]
<1>1. PICK e : e = Entry(o.isa_source, TriggerFlags(o.trigger) \cup PolarityFlags(o.polarity))
  OBVIOUS
<1>2. TriggerFlags(o.trigger) \in SUBSET IrqFlags /\ PolarityFlags(o.polarity) \in SUBSET IrqFlags
  BY DEF TriggerFlags, PolarityFlags, IrqFlags
<1>3. o.isa_source \in Nat /\ o.gsi \in Lines
  BY DEF Overrides
<1>4. e \in Entries
  BY <1>1, <1>2, <1>3, ZenonT(30) DEF Entry, Entries
<1>5. [table EXCEPT ![o.gsi] = e] \in [Lines -> Entries]
  BY <1>3, <1>4
<1> QED BY <1>1, <1>5, EnableIrqFacts, ZenonT(30) DEF Redirect

\* The loop over the overrides ends with a table.
LEMMA RedirectedFacts ==
  ASSUME NEW table \in [Lines -> Entries], NEW overrides \in Seq(Overrides)
  PROVE  Redirected(table, overrides)[Len(overrides)] \in [Lines -> Entries]
<1>1. PICK n \in Nat : n = Len(overrides)
  BY LenProperties
<1>2. PICK S : S = [Lines -> Entries]
  BY ZenonT(30)
<1>3. \A k \in 1 .. n : \A t \in S : Redirect(t, overrides[k]) \in S
  BY <1>1, <1>2, ElementOfSeq, RedirectFacts
<1>4. PICK step : step = [x \in (1 .. n) \X S |-> Redirect(x[2], overrides[x[1]])]
  BY ZenonT(30)
<1>5. step \in [(1 .. n) \X S -> S]
  BY <1>3, <1>4
<1>6. \A k \in 1 .. n : \A t \in S : step[<<k, t>>] = Redirect(t, overrides[k])
  BY <1>4
<1>7. PICK f \in [0 .. n -> S] :
        f[0] = table /\ \A k \in 1 .. n : f[k] = step[<<k, f[k - 1]>>]
  <2>1. Computable(n, S, table, step)
    BY <1>2, <1>5, RecursionUpTo, ZenonT(30)
  <2> QED BY <2>1 DEF Computable
<1> DEFINE Def(g) == g = [k \in 0 .. n |-> IF k = 0 THEN table
                                           ELSE Redirect(g[k - 1], overrides[k])]
<1>8. ASSUME NEW k \in 1 .. n PROVE f[k] = Redirect(f[k - 1], overrides[k])
  <2>1. k - 1 \in 0 .. n /\ f[k - 1] \in S
    OBVIOUS
  <2> QED BY <2>1, <1>6, <1>7, ZenonT(30)
<1>9. Def(f)
  BY <1>7, <1>8
<1>10. PICK after : after = Redirected(table, overrides)
  OBVIOUS
<1>11. after = CHOOSE g : Def(g)
  BY <1>1, <1>10 DEF Redirected
<1>12. Def(after)
  <2> HIDE DEF Def
  <2> QED BY <1>9, <1>11, ZenonT(30)
<1>13. after[0] = table /\ \A k \in 1 .. n : after[k] = Redirect(after[k - 1], overrides[k])
  BY <1>12
<1> DEFINE T == {k \in 0 .. n : after[k] \in S}
<1>14. 0 \in T
  BY <1>2, <1>13
<1>15. ASSUME NEW k \in 1 .. n, k - 1 \in T PROVE k \in T
  BY <1>3, <1>13, <1>15
<1>16. T = 0 .. n
  <2>1. T \in SUBSET (0 .. n)
    OBVIOUS
  <2> HIDE DEF T
  <2> QED BY ONLY <2>1, <1>14, <1>15, InductionUpTo, n \in Nat, SMTT(30)
<1> QED BY <1>1, <1>2, <1>10, <1>16

\* The entries of the two devices are as apic::init writes them last.
LEMMA DeviceFacts ==
  ASSUME NEW table \in [Lines -> Entries], NEW v \in {Keyboard, Clock}
  PROVE  /\ Device(table, v) \in [Lines -> Entries]
         /\ v - Offset \in Lines
         /\ Device(table, v)[v - Offset].vector = v
         /\ Device(table, v)[v - Offset].flags = {"LEVEL_TRIGGERED"}
         /\ \A k \in Lines : k # v - Offset => Device(table, v)[k] = table[k]
<1>1. v \in Nat /\ v - Offset \in Lines
  BY MadtAssumption DEF Keyboard, Clock, Offset
<1>2. PICK l : l = v - Offset
  OBVIOUS
<1>3. PICK e : e = Entry(v, {"LEVEL_TRIGGERED"})
  OBVIOUS
<1>4. e \in Entries /\ e.vector = v /\ e.flags = {"LEVEL_TRIGGERED"}
  BY <1>1, <1>3 DEF Entry, Entries, IrqFlags
<1>5. PICK t : t = [table EXCEPT ![l] = e]
  BY ZenonT(30)
<1>6. t \in [Lines -> Entries] /\ t[l] = e /\ \A k \in Lines : k # l => t[k] = table[k]
  BY <1>1, <1>2, <1>4, <1>5
<1>7. Device(table, v) = EnableIrq(t, l)
  BY <1>2, <1>3, <1>5 DEF Device
<1>8. {"LEVEL_TRIGGERED"} \ {"MASKED"} = {"LEVEL_TRIGGERED"}
  OBVIOUS
<1>9. PICK d : d = EnableIrq(t, l)
  OBVIOUS
<1>10. /\ d \in [Lines -> Entries]
       /\ \A k \in Lines : k # l => d[k] = t[k]
       /\ d[l].vector = t[l].vector /\ d[l].flags = t[l].flags \ {"MASKED"}
  BY <1>1, <1>2, <1>6, <1>9, EnableIrqFacts
<1>11. d[l].vector = v /\ d[l].flags = {"LEVEL_TRIGGERED"}
  BY <1>4, <1>6, <1>8, <1>10
<1> QED BY <1>1, <1>2, <1>6, <1>7, <1>9, <1>10, <1>11

\* Every table apic::init writes sends the keyboard and the clock to their vectors,
\* whatever overrides came before.
LEMMA IoTableFacts ==
  ASSUME NEW m \in Madts
  PROVE  /\ IoTable(m) \in [Lines -> Entries]
         /\ \A v \in {Keyboard, Clock} :
              /\ IoTable(m)[v - Offset].vector = v
              /\ IoTable(m)[v - Offset].flags = {"LEVEL_TRIGGERED"}
<1>1. IoInit \in [Lines -> Entries]
  BY MadtAssumption DEF IoInit, Entry, Entries, IrqFlags, Offset
<1>2. m.overrides \in Seq(Overrides)
  BY MadtAssumption, ZenonT(30) DEF Overrides
<1>3. PICK t : t = Redirected(IoInit, m.overrides)[Len(m.overrides)]
  OBVIOUS
<1>4. t \in [Lines -> Entries]
  BY <1>1, <1>2, <1>3, RedirectedFacts
<1>5. PICK u : u = Device(t, Keyboard)
  OBVIOUS
<1>6. /\ u \in [Lines -> Entries] /\ Keyboard - Offset \in Lines
      /\ u[Keyboard - Offset].vector = Keyboard
      /\ u[Keyboard - Offset].flags = {"LEVEL_TRIGGERED"}
  BY <1>4, <1>5, DeviceFacts
<1>7. PICK w : w = Device(u, Clock)
  OBVIOUS
<1>8. /\ w \in [Lines -> Entries]
      /\ w[Clock - Offset].vector = Clock
      /\ w[Clock - Offset].flags = {"LEVEL_TRIGGERED"}
      /\ \A k \in Lines : k # Clock - Offset => w[k] = u[k]
  BY <1>6, <1>7, DeviceFacts
<1>9. Keyboard - Offset # Clock - Offset
  BY DEF Keyboard, Clock, Offset
<1>10. w = IoTable(m)
  BY <1>3, <1>5, <1>7 DEF IoTable
<1> QED BY <1>6, <1>8, <1>9, <1>10

\* A page table covers at least one page.
LEMMA CoveredFacts == \A l \in 0 .. Levels : Covered[l] \in Nat \ {0}
<1> DEFINE S == Nat \ {0}
           Def(g) == g = [l \in 0 .. Levels |-> IF l = 0 THEN 1 ELSE TableSpan * g[l - 1]]
<1>1. \A x \in S : TableSpan * x \in S
  BY PagingAssumption
<1>2. PICK step : step = [x \in (1 .. Levels) \X S |-> TableSpan * x[2]]
  BY ZenonT(30)
<1>3. step \in [(1 .. Levels) \X S -> S]
  BY <1>1, <1>2
<1>4. PICK f \in [0 .. Levels -> S] :
        f[0] = 1 /\ \A l \in 1 .. Levels : f[l] = step[<<l, f[l - 1]>>]
  <2>1. Levels \in Nat /\ 1 \in S
    BY PagingAssumption
  <2> HIDE DEF S
  <2>2. Computable(Levels, S, 1, step)
    BY ONLY <2>1, <1>3, RecursionUpTo, SMTT(30)
  <2> QED BY <2>2, ZenonT(30) DEF Computable
<1>5. ASSUME NEW l \in 1 .. Levels PROVE f[l] = TableSpan * f[l - 1]
  <2>1. l - 1 \in 0 .. Levels /\ f[l - 1] \in S
    BY PagingAssumption
  <2> QED BY <2>1, <1>2, <1>4, ZenonT(30)
<1>6. Def(f)
  BY <1>4, <1>5
<1>7. Covered = CHOOSE g : Def(g)
  BY DEF Covered
<1>8. Def(Covered)
  <2> HIDE DEF Def
  <2> QED BY <1>6, <1>7, ZenonT(30)
<1>9. PICK c : c = Covered
  OBVIOUS
<1>10. c[0] = 1 /\ \A l \in 1 .. Levels : c[l] = TableSpan * c[l - 1]
  BY <1>8, <1>9, PagingAssumption
<1> DEFINE T == {l \in 0 .. Levels : c[l] \in S}
<1>11. 0 \in T
  BY <1>10, PagingAssumption
<1>12. ASSUME NEW l \in 1 .. Levels, l - 1 \in T PROVE l \in T
  BY <1>1, <1>10, <1>12
<1>13. T = 0 .. Levels
  <2>1. T \in SUBSET (0 .. Levels) /\ Levels \in Nat
    BY PagingAssumption
  <2> HIDE DEF T
  <2> QED BY ONLY <2>1, <1>11, <1>12, InductionUpTo, SMTT(30)
<1> QED BY <1>9, <1>13

\* The page tables on the way to a page are identified by level and index.
LEMMA TablesForFacts ==
  ASSUME NEW p \in Nat PROVE TablesFor(p) \subseteq (1 .. Levels) \X Nat
<1>1. ASSUME NEW l \in 1 .. Levels PROVE p \div Covered[l] \in Nat
  <2>1. PICK c : c = Covered[l]
    OBVIOUS
  <2>2. c \in Nat \ {0}
    BY <2>1, CoveredFacts, PagingAssumption
  <2> QED BY <2>1, <2>2
<1> QED BY <1>1 DEF TablesFor

\* What the controllers have been told at each stage of kernel::init.
DeliveryInv ==
  /\ BootTypeOK
  /\ tables \in Seq({IoTable(m) : m \in Madts})
  /\ stage \in {"memory", "acpi", "pic"} =>
       model = <<>> /\ tables = <<>> /\ masks = firmware.masks /\ ~lapic
  /\ stage \in {"apic", "lapic", "io"} => model # <<>> /\ masks = Lines /\ ~lapic
  /\ stage = "done" =>
       \/ model # <<>> /\ tables # <<>> /\ masks = Lines /\ lapic
       \/ /\ model = <<>> /\ tables = <<>> /\ masks = firmware.masks /\ pics = "kernel"
          /\ ~lapic

\* The page map_to is called for.
LEMMA TargetFacts ==
  ASSUME BootInv, ControllersInv
  PROVE  Target \subseteq Nat
<1>1. ASSUME Mapping PROVE NextPage \in Nat
  <2>1. call \in Seq(Calls) /\ call # <<>>
    BY <1>1 DEF Mapping, BootInv, RunInv, SpaceInv, AcpiTypeOK
  <2>2. call[1] \in Calls
    BY <2>1
  <2> QED BY <2>2 DEF NextPage, Calls
<1>2. ApicPage \in Nat
  BY Layout
<1>3. ASSUME stage = "io", Len(tables) < Len(model[1].io_apics)
      PROVE  PageOf(NextIoApic) \in Nat
  <2>1. PICK a : a = model[1].io_apics
    OBVIOUS
  <2>2. a \in Seq(Nat)
    BY <1>3, <2>1, MadtAssumption DEF ControllersInv
  <2>3. PICK n : n = Len(tables) + 1
    OBVIOUS
  <2>4. n \in 1 .. Len(a)
    BY <1>3, <2>1, <2>2, <2>3, LenProperties DEF ControllersInv
  <2>5. a[n] \in Nat
    BY <2>2, <2>4, ElementOfSeq
  <2> QED BY <2>1, <2>3, <2>5, PageOfFacts, ZenonT(30) DEF NextIoApic
<1> QED BY <1>1, <1>2, <1>3 DEF Target, ApicPage

\* allocator::init's page tables, and those map_to adds.
LEMMA TablesStep ==
  ASSUME BootInv, ControllersInv, [BootNext]_allVars, page_tables \subseteq (1 .. Levels) \X Nat
  PROVE  page_tables' \subseteq (1 .. Levels) \X Nat
<1>1. CASE MemoryStep
  <2>1. page_tables' = page_tables \/ page_tables' = HeapTables
    BY <1>1 DEF MemoryStep, bootVars
  <2>2. \A p \in HeapPages : p \in Nat
    BY Layout, PageOfFacts DEF HeapPages
  <2> QED BY <2>1, <2>2, TablesForFacts DEF HeapTables
<1>2. CASE NewTable
  BY <1>2, TargetFacts, TablesForFacts DEF NewTable, MissingTables
<1>3. CASE UNCHANGED page_tables
  BY <1>3
<1> QED BY <1>1, <1>2, <1>3, ZenonT(30)
        DEF BootNext, NoFrame, AcpiStep, SearchBios, AcpiDone, CheckLapic, MapLapic, MapIoApic,
            ControllersDone, LaterFrames, Halted, allVars, bootVars

\* The running kernel frees no frame of a page table.
LEMMA TableFramesStep ==
  ASSUME [BootNext]_allVars, table_frames \subseteq handed
  PROVE  table_frames' \subseteq handed'
<1>1. CASE MemoryStep
  BY <1>1, ZenonT(30) DEF MemoryStep, BootFrame, BootRegionUsedUp, BootNextRegion, BootExhausted, SmartInit,
              bootVars
<1>2. CASE NewTable
  <2>1. handed \subseteq handed'
    BY <1>2 DEF NewTable, AllocateFrame
  <2> QED BY <1>2, <2>1 DEF NewTable
<1>3. CASE LaterFrames
  <2>1. UNCHANGED table_frames
    BY <1>3 DEF LaterFrames, bootVars
  <2>2. CASE \E S \in Sizes : AllocateFrame(S) \/ AllocateNone(S)
    <3>1. handed \subseteq handed'
      BY <2>2 DEF AllocateFrame, AllocateNone, vars
    <3> QED BY <3>1, <2>1
  <2>3. CASE \E f \in handed \ table_frames : DeallocateFrame(f)
    BY <2>1, <2>3 DEF DeallocateFrame
  <2> QED BY <1>3, <2>2, <2>3 DEF LaterFrames
<1>4. CASE UNCHANGED <<table_frames, handed>>
  BY <1>4
<1> QED BY <1>1, <1>2, <1>3, <1>4, ZenonT(30)
        DEF BootNext, NoFrame, AllocateNone, AcpiStep, SearchBios, AcpiDone, CheckLapic, MapLapic, MapIoApic,
            ControllersDone, Halted, allVars, bootVars, vars

\* Devices are mapped with the frames of their physical addresses.
LEMMA DevicesStep ==
  ASSUME BootInv, ControllersInv, [BootNext]_allVars, devices \subseteq Nat \X Nat
  PROVE  devices' \subseteq Nat \X Nat
<1>1. CASE MapLapic
  BY <1>1, TargetFacts DEF MapLapic
<1>2. CASE MapIoApic
  BY <1>2, TargetFacts DEF MapIoApic
<1>3. CASE UNCHANGED devices
  BY <1>3
<1> QED BY <1>1, <1>2, <1>3, ZenonT(30)
        DEF BootNext, MemoryStep, NewTable, NoFrame, AcpiStep, SearchBios, AcpiDone, CheckLapic,
            ControllersDone, LaterFrames, Halted, allVars, bootVars

\* A step that tells the controllers nothing and stays in its stage.
LEMMA AroundDelivery ==
  ASSUME DeliveryInv, BootTypeOK', UNCHANGED controllerVars, UNCHANGED stage
  PROVE  DeliveryInv'
BY DEF DeliveryInv, controllerVars

\* The controllers' part of the types.
LEMMA ControllersTypes ==
  ASSUME BootInv, ControllersInv, DeliveryInv, [BootNext]_allVars
  PROVE  ControllersTypeOK'
<1>1. ASSUME NEW t \in Seq({IoTable(m) : m \in Madts})
      PROVE  t \in Seq([Lines -> [vector : Nat, flags : SUBSET IrqFlags]])
  <2>1. {IoTable(m) : m \in Madts} \subseteq [Lines -> Entries]
    BY IoTableFacts, ZenonT(30)
  <2>2. t \in Seq([Lines -> Entries])
    BY <2>1
  <2> QED BY <2>2 DEF Entries
<1>2. tables' \in Seq([Lines -> [vector : Nat, flags : SUBSET IrqFlags]])
  BY <1>1, ControllersStep, ZenonT(30) DEF ControllersInv
<1>3. ControllersTypeOK
  BY DEF DeliveryInv, BootTypeOK
<1>4. CASE AcpiDone
  <2>1. CASE \E m \in Madts : UseApic(m)
    <3>1. PICK m \in Madts : UseApic(m)
      BY <2>1
    <3>2. model' = <<m>>
      BY <3>1 DEF UseApic
    <3>3. model' \in Seq(Madts) /\ Len(model') <= 1
      BY ONLY <3>2, m \in Madts, SMTT(30)
    <3> QED BY <3>1, <3>3, <1>2, <1>3 DEF UseApic, ControllersTypeOK
  <2> QED BY <1>4, <2>1, <1>2, <1>3 DEF AcpiDone, ControllersTypeOK, controllerVars
<1>5. CASE MapIoApic
  BY <1>5, <1>2, <1>3 DEF MapIoApic, SetUpIoApic, ControllersTypeOK, controllerVars
<1>6. CASE ControllersDone
  BY <1>6, <1>2, <1>3, ZenonT(30) DEF ControllersDone, LapicReady, UsePics, ControllersTypeOK
<1>7. CASE UNCHANGED controllerVars
  BY <1>7, <1>2, <1>3 DEF ControllersTypeOK, controllerVars
<1> QED BY <1>4, <1>5, <1>6, <1>7
        DEF BootNext, MemoryStep, NewTable, NoFrame, AcpiStep, SearchBios, CheckLapic, MapLapic, LaterFrames,
            Halted, allVars

\* Every variable of boot keeps its type.
LEMMA BootTypes ==
  ASSUME 1 \in Sizes, BootInv, ControllersInv, DeliveryInv, [BootNext]_allVars
  PROVE  BootTypeOK'
<1>1. TypeOK'
  BY BootUsesFrames, FrameTypes DEF DeliveryInv, BootTypeOK
<1>2. AcpiTypeOK'
  BY BootStep DEF BootInv, RunInv, SpaceInv
<1>3. stage' \in {"memory", "acpi", "apic", "lapic", "io", "pic", "done"} /\ handler' \in {1, 2}
  BY ZenonT(30) DEF DeliveryInv, BootTypeOK, BootNext, MemoryStep, NewTable, NoFrame, AcpiStep, SearchBios,
         AcpiDone, CheckLapic, MapLapic, MapIoApic, ControllersDone, LaterFrames, Halted, allVars, bootVars
<1> QED BY <1>1, <1>2, <1>3, ControllersTypes, TablesStep, TableFramesStep, DevicesStep
        DEF DeliveryInv, BootTypeOK

\* Every step of boot keeps what the controllers have been told in order.
LEMMA DeliveryStep ==
  ASSUME 1 \in Sizes, BootInv, ControllersInv, DeliveryInv, [BootNext]_allVars
  PROVE  DeliveryInv'
<1>1. BootTypeOK'
  BY BootTypes
<1>2. tables' \in Seq({IoTable(m) : m \in Madts})
  BY ControllersStep, ZenonT(30) DEF ControllersInv
<1>3. CASE MemoryStep
  BY <1>1, <1>2, <1>3 DEF MemoryStep, DeliveryInv, bootVars, controllerVars
<1>4. CASE AcpiDone
  <2>1. CASE \E m \in Madts : UseApic(m) /\ stage' = "apic"
    <3>1. PICK m \in Madts : UseApic(m) /\ stage' = "apic"
      BY <2>1
    <3>2. model' # <<>>
      BY <3>1 DEF UseApic
    <3> QED BY <3>1, <3>2, <1>1, <1>2, <1>4 DEF AcpiDone, UseApic, DeliveryInv
  <2>2. CASE stage' = "pic" /\ UNCHANGED controllerVars
    BY <2>2, <1>1, <1>2, <1>4 DEF AcpiDone, DeliveryInv, controllerVars
  <2> QED BY <1>4, <2>1, <2>2 DEF AcpiDone
<1>9. CASE CheckLapic
  BY <1>1, <1>2, <1>9 DEF CheckLapic, DeliveryInv, controllerVars
<1>5. CASE MapLapic
  BY <1>1, <1>2, <1>5 DEF MapLapic, DeliveryInv, controllerVars
<1>6. CASE MapIoApic
  BY <1>1, <1>2, <1>6 DEF MapIoApic, SetUpIoApic, DeliveryInv, controllerVars
<1>7. CASE ControllersDone
  <2>1. CASE stage = "io" /\ Len(tables) = Len(model[1].io_apics) /\ LapicReady
    <3>1. PICK a : a = model[1].io_apics
      OBVIOUS
    <3>2. a \in Seq(Nat) \ {<<>>}
      BY <2>1, <3>1, MadtAssumption DEF ControllersInv
    <3>3. Len(a) # 0
      BY <3>2, EmptySeq
    <3>4. tables # <<>>
      BY <2>1, <3>1, <3>3, EmptySeq
    <3> QED BY <2>1, <3>4, <1>1, <1>2, <1>7 DEF ControllersDone, LapicReady, DeliveryInv
  <2>2. CASE stage = "pic" /\ UsePics
    BY <2>2, <1>1, <1>2, <1>7 DEF ControllersDone, UsePics, DeliveryInv
  <2> QED BY <1>7, <2>1, <2>2 DEF ControllersDone
<1>8. CASE UNCHANGED controllerVars /\ UNCHANGED stage
  BY <1>1, <1>8, AroundDelivery
<1> QED BY <1>3, <1>4, <1>5, <1>6, <1>7, <1>8, <1>9
        DEF BootNext, NewTable, NoFrame, AcpiStep, SearchBios, LaterFrames, Halted, allVars,
            bootVars

\* With one table or more, and all of them as apic::init writes them, a device's line
\* reaches its vector through the APIC alone, if enabled; with none, through the PIC
\* alone, if unmasked.
LEMMA Delivered == DeliveryInv => DevicesReachHandlers
<1> SUFFICES ASSUME DeliveryInv, stage = "done", NEW v \in {Keyboard, Clock}
             PROVE  Delivers(v - Offset) = IF LeftOpen(v - Offset)
                                           THEN {<<EndOfInterruptTo, v>>} ELSE {}
  BY DEF DevicesReachHandlers, DeliveryInv
<1>1. PICK l : l = v - Offset
  OBVIOUS
<1>2. \A i \in DOMAIN tables : tables[i][l].vector = v /\ tables[i][l].flags = {"LEVEL_TRIGGERED"}
  <2> SUFFICES ASSUME NEW i \in DOMAIN tables
               PROVE  tables[i][l].vector = v /\ tables[i][l].flags = {"LEVEL_TRIGGERED"}
    OBVIOUS
  <2>1. tables[i] \in {IoTable(m) : m \in Madts}
    BY DEF DeliveryInv
  <2>2. PICK m \in Madts : tables[i] = IoTable(m)
    BY <2>1
  <2> QED BY <2>2, <1>1, IoTableFacts
<1>3. l \in Lines
  BY <1>1, MadtAssumption
<1>4. \A j \in DOMAIN tables : "MASKED" \notin tables[j][l].flags
  <2>1. "MASKED" \notin {"LEVEL_TRIGGERED"}
    OBVIOUS
  <2> QED BY <2>1, <1>2, ZenonT(30)
<1>5. CASE model # <<>> /\ tables # <<>> /\ masks = Lines /\ lapic
  <2>1. DOMAIN tables # {}
    BY <1>5 DEF DeliveryInv
  <2>2. ~Unmasked(l, masks)
    BY <1>3, <1>5 DEF Unmasked
  <2>3. CASE firmware.lapic_enabled
    <3>1. {j \in DOMAIN tables : firmware.lapic_enabled /\ "MASKED" \notin tables[j][l].flags}
            = DOMAIN tables
      BY <2>3, <1>4, ZenonT(30)
    <3>2. {<<"apic", tables[i][l].vector>> : i \in DOMAIN tables} = {<<"apic", v>>}
      BY <2>1, <1>2
    <3>3. Delivers(l) = {<<"apic", v>>}
      BY <3>1, <3>2, <2>2 DEF Delivers
    <3> QED BY <3>3, <2>3, <1>1, <1>5 DEF EndOfInterruptTo, LeftOpen
  <2>4. CASE ~firmware.lapic_enabled
    <3>1. {j \in DOMAIN tables : firmware.lapic_enabled /\ "MASKED" \notin tables[j][l].flags} = {}
      BY <2>4, ZenonT(30)
    <3>2. Delivers(l) = {}
      BY <3>1, <2>2 DEF Delivers
    <3> QED BY <3>2, <2>4, <1>1, <1>5 DEF LeftOpen
  <2> QED BY <2>3, <2>4
<1>6. CASE /\ model = <<>> /\ tables = <<>> /\ masks = firmware.masks /\ pics = "kernel"
           /\ ~lapic
  <2>1. {j \in DOMAIN tables : firmware.lapic_enabled /\ "MASKED" \notin tables[j][l].flags} = {}
    BY <1>6
  <2>2. Offset + l = v
    BY <1>1 DEF Offset, Keyboard, Clock
  <2>3. LeftOpen(l) <=> Unmasked(l, masks)
    BY <1>6 DEF LeftOpen
  <2>4. CASE Unmasked(l, masks)
    BY <2>1, <2>2, <2>3, <2>4, <1>1, <1>6 DEF Delivers, EndOfInterruptTo
  <2>5. CASE ~Unmasked(l, masks)
    BY <2>1, <2>3, <2>5, <1>1 DEF Delivers
  <2> QED BY <2>4, <2>5
<1> QED BY <1>5, <1>6 DEF DeliveryInv
-----------------------------------------------------------------------------
(* Theorems *)

\* For every layout, and in whatever order regions are dropped, the window stays
\* between the heap and the local APIC's page, live regions share no page and have all
\* of theirs mapped, and the window is empty when the interrupt controllers are mapped.
THEOREM WindowIsSound == BootSpec => []WindowSound
<1>1. BootInv => WindowSound
  BY InvApart, InvRegions, InvReturned DEF WindowSound
<1> QED BY <1>1, BootInvariant, PTL

\* For every region and every byte of it: the byte is seen through the mapping if the
\* region begins on a frame and the byte lies in that first frame, and only then. The
\* rest is what map_physical_region's two shortcuts lose.
THEOREM RegionsAreShown ==
  BootSpec => [](/\ RegionShown
                 /\ \A i \in DOMAIN regions :
                      SeenRight(regions[i], 0 .. regions[i].size - 1))
<1>1. BootInv => /\ RegionShown
                 /\ \A i \in DOMAIN regions :
                      SeenRight(regions[i], 0 .. regions[i].size - 1)
  BY InvShown, ByteSeen
<1> QED BY <1>1, BootInvariant, PTL

\* Regions of any size may come and go in any order: unmap never meets an unmapped page,
\* map_to meets a mapped page of the window only after a region was dropped before a
\* younger one, the local APIC's page is free, and an I/O APIC is refused only for a
\* page of the heap, the local APIC or an earlier one.
THEOREM RefusalsAreExplained == BootSpec => []RefusalsExplained
<1>1. BootInit => ControllersInv
  BY DEF BootInit, AcpiInit, ControllersInit, ControllersInv, IoApicExplained
<1>2. BootInv /\ ControllersInv => RefusalsExplained
  BY DEF BootInv, ControllersInv, RefusalsExplained
<1>3. BootSpec => []ControllersInv
  BY <1>1, ControllersStep, BootInvariant, PTL DEF BootSpec
<1> QED BY <1>2, <1>3, BootInvariant, PTL

\* Boot uses the frame allocator by its operations only: seen from the frame allocator,
\* kernel::init is one of its behaviours.
THEOREM BootImplementsFrames ==
  ASSUME 1 \in Sizes
  PROVE  BootSpec => Spec
<1>1. BootInit => Init
  BY DEF BootInit
<1>2. [BootNext]_allVars => [Next]_vars
  BY BootUsesFrames
<1> QED BY <1>1, <1>2, PTL DEF BootSpec, Spec

\* Through the whole of boot and after, no frame has two owners among the heap, the
\* page tables, the running kernel and the free ranges, and none is lost.
THEOREM BootKeepsFrames ==
  ASSUME Sizes = {1}
  PROVE  BootSpec => []FramesHaveOneOwner /\ FramesConserved
<1>1. BootSpec => Spec
  BY BootImplementsFrames
<1>2. Spec => []FramesHaveOneOwner
  BY FramesOwnedOnce
<1>3. Spec => FramesConserved
  BY FramesAreConserved
<1> QED BY <1>1, <1>2, <1>3

\* Whatever interrupt model the tables give, however many I/O APICs and overrides, as
\* long as none of them rewires the two devices' lines: once boot is done the keyboard
\* and the clock reach their own handlers, and the end of the interrupt goes to the one
\* controller that delivered it, if the firmware left the way open, and are silent if
\* it did not.
THEOREM DevicesAreReached ==
  ASSUME 1 \in Sizes
  PROVE  BootSpec => []DevicesReachHandlers
<1>1. ASSUME BootInit PROVE ControllersInv
  BY <1>1 DEF BootInit, AcpiInit, ControllersInit, ControllersInv, IoApicExplained
<1>2. BootSpec => []ControllersInv
  BY <1>1, ControllersStep, BootInvariant, PTL DEF BootSpec
<1>3. ASSUME BootInit PROVE DeliveryInv
  <2>1. memory_map \in MemoryMaps /\ Len(memory_map) \in Nat
    BY <1>3, MapAssumption, LenProperties DEF BootInit, Init
  <2>2. TypeOK
    BY <1>3, <2>1, EmptySeq DEF BootInit, Init, TypeOK
  <2>3. AcpiTypeOK
    BY <1>3, WindowInit DEF BootInit, SpaceInv
  <2>4. ControllersTypeOK
    <3>1. /\ model = <<>> /\ tables = <<>> /\ pics = "firmware" /\ lapic = FALSE
          /\ firmware \in [lapic_enabled : BOOLEAN, masks : FirmwareMasks]
          /\ masks \subseteq Lines
      BY <1>3, MadtAssumption DEF BootInit, ControllersInit
    <3>2. <<>> \in Seq(Madts) /\ Len(<<>>) <= 1
      BY EmptySeq
    <3>3. tables \in Seq([Lines -> [vector : Nat, flags : SUBSET IrqFlags]])
      BY <3>1, EmptySeq, ZenonT(30)
    <3> QED BY <3>1, <3>2, <3>3, ZenonT(30) DEF ControllersTypeOK
  <2> QED BY <1>3, <2>2, <2>3, <2>4, EmptySeq
          DEF BootInit, ControllersInit, DeliveryInv, BootTypeOK
<1>4. BootInv /\ ControllersInv /\ DeliveryInv /\ [BootNext]_allVars => DeliveryInv'
  BY DeliveryStep
<1>5. BootSpec => []DeliveryInv
  BY <1>2, <1>3, <1>4, BootInvariant, PTL DEF BootSpec
<1> QED BY <1>5, Delivered, PTL
=============================================================================
