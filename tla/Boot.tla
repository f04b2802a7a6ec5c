-------------------------------- MODULE Boot --------------------------------
(***************************************************************************)
(* kernel::init (lib.rs) from memory::init to the interrupt controllers:   *)
(* the frame allocator, the ACPI window and the controllers share the page *)
(* tables, whose own frames map_to takes from the frame allocator. Boot is *)
(* sequential and runs with interrupts masked. The steps of logging, GDT,  *)
(* IDT, display and RTC touch none of this state and are left out.         *)
(***************************************************************************)
EXTENDS FrameAllocator, AcpiWindow, InterruptControllers

CONSTANTS TableSpan,  \* entries of a page table (512 on x86_64)
          Levels      \* levels of tables below the root (3 on x86_64)

ASSUME PagingAssumption == TableSpan \in Nat \ {0, 1} /\ Levels \in Nat \ {0}

VARIABLES
  stage,        \* "memory", "acpi", "apic", "lapic", "io", "pic", or "done"
  handler,      \* which KernelAcpi is in use: the first, or that of the BIOS search
  page_tables,  \* the page tables present: pairs of a level and an index
  table_frames, \* the frames they took from SmartFrameAllocator
  devices       \* the pages apic::init has mapped, with their frames

bootVars == <<stage, handler, page_tables, table_frames, devices>>
allVars == <<vars, acpiVars, controllerVars, bootVars>>

\* The pages one table covers, by its level.
Covered[l \in 0 .. Levels] == IF l = 0 THEN 1 ELSE TableSpan * Covered[l - 1]

TablesFor(p) == {<<l, p \div Covered[l]>> : l \in 1 .. Levels}
HeapTables == UNION {TablesFor(p) : p \in HeapPages}

\* allocator::init takes a frame for each page of the heap and for each table.
ASSUME HeapFramesAssumption ==
  HeapFrames = Cardinality(HeapPages) + Cardinality(HeapTables)

BootTypeOK ==
  /\ TypeOK /\ AcpiTypeOK /\ ControllersTypeOK
  /\ stage \in {"memory", "acpi", "apic", "lapic", "io", "pic", "done"}
  /\ handler \in {1, 2}
  /\ page_tables \subseteq (1 .. Levels) \X Nat
  /\ table_frames \subseteq handed
  /\ devices \subseteq Nat \X Nat

BootInit == /\ Init /\ AcpiInit /\ ControllersInit
            /\ stage = "memory" /\ handler = 1
            /\ page_tables = {} /\ table_frames = {} /\ devices = {}
-----------------------------------------------------------------------------
(* memory::init *)

MemoryStep ==
  /\ stage = "memory"
  /\ \/ BootFrame /\ UNCHANGED bootVars
     \/ BootRegionUsedUp /\ UNCHANGED bootVars
     \/ BootNextRegion /\ UNCHANGED bootVars
     \/ BootExhausted /\ UNCHANGED bootVars
     \/ /\ SmartInit
        /\ stage' = "acpi" /\ page_tables' = HeapTables
        /\ UNCHANGED <<handler, table_frames, devices>>
  /\ UNCHANGED <<acpiVars, controllerVars>>
-----------------------------------------------------------------------------
(* map_to *)

NextIoApic == model[1].io_apics[Len(tables) + 1]

\* Mutation: the I/O APICs too are mapped in the page of the local APIC.
TargetOnePage ==
  IF stage = "acpi" /\ Mapping THEN {NextPage}
  ELSE IF stage = "lapic" THEN {PageOf(KernelApicAddr)}
  ELSE IF stage = "io" /\ Len(tables) < Len(model[1].io_apics) THEN {PageOf(KernelApicAddr)}
  ELSE {}

\* The page being mapped, if any, as a set of at most one.
Target ==
  IF stage = "acpi" /\ Mapping THEN {NextPage}
  ELSE IF stage = "lapic" THEN {PageOf(KernelApicAddr)}
  ELSE IF stage = "io" /\ Len(tables) < Len(model[1].io_apics) THEN {PageOf(NextIoApic)}
  ELSE {}

MissingTables == UNION {TablesFor(p) : p \in Target} \ page_tables
Present(p) == p \in DOMAIN pages \cup {d[1] : d \in devices} \cup HeapPages
Running == fault = "none" /\ phase = "smart"

\* map_to adds the missing tables from the root down, each in a frame of its own.
NewTable ==
  /\ Running /\ MissingTables # {}
  /\ \E t \in MissingTables :
       /\ \A u \in MissingTables : u[1] <= t[1]
       /\ page_tables' = page_tables \cup {t}
  /\ AllocateFrame(1)
  /\ table_frames' = table_frames \cup (handed' \ handed)
  /\ UNCHANGED <<acpiVars, controllerVars, stage, handler, devices>>

\* FrameAllocationFailed, unwrapped by its caller.
NoFrame ==
  /\ Running /\ MissingTables # {}
  /\ AllocateNone(1)
  /\ fault' = "no_frame"
  /\ UNCHANGED <<start_addr, pages, regions, reordered, call, controllerVars, bootVars>>
-----------------------------------------------------------------------------
(* acpi::init *)

\* acpi::init returns: with an interrupt model, or with another one or an error.
AcpiDone ==
  /\ stage = "acpi" /\ Running /\ Idle /\ regions = <<>>
  /\ \/ \E m \in Madts : UseApic(m) /\ stage' = "apic"
     \/ stage' = "pic" /\ UNCHANGED controllerVars
  /\ UNCHANGED <<vars, acpiVars, handler, page_tables, table_frames, devices>>

AcpiStep ==
  /\ stage = "acpi" /\ Running
  /\ \/ \E r \in Regions : MapBegin(r) \/ MapExhausted(r)
     \/ MissingTables = {} /\ MapPage
     \/ MapEnd
     \/ \E i \in DOMAIN regions : Unmap(i)
  /\ UNCHANGED <<vars, controllerVars, bootVars>>

\* The first RSDP is bad: the BIOS area is searched with a new handler.
SearchBios ==
  /\ stage = "acpi" /\ Running /\ handler = 1
  /\ NewHandler
  /\ handler' = 2
  /\ UNCHANGED <<vars, controllerVars, stage, page_tables, table_frames, devices>>
-----------------------------------------------------------------------------
(* apic::init, pic::init *)

\* The local APIC's address is compared with that of the tables and must be valid:
\* the debug_assert and BadLapicAddress stop the kernel.
CheckLapic ==
  /\ stage = "apic" /\ Running
  /\ \/ stage' = "lapic" /\ UNCHANGED fault
     \/ fault' = "lapic" /\ UNCHANGED stage
  /\ UNCHANGED <<vars, start_addr, pages, regions, reordered, call, controllerVars, handler,
                 page_tables, table_frames, devices>>

\* The page of the local APIC, whose physical address is left abstract; then
\* LocalApicBuilder::build, which may fail.
MapLapic ==
  /\ stage = "lapic" /\ Running /\ MissingTables = {}
  /\ \E p \in Target :
       IF Present(p)
       THEN fault' = "already_mapped" /\ UNCHANGED <<stage, devices>>
       ELSE /\ devices' = devices \cup {<<p, 0>>} /\ stage' = "io"
            /\ fault' \in {"none", "lapic"}
  /\ UNCHANGED <<vars, start_addr, pages, regions, reordered, call, controllerVars, handler,
                 page_tables, table_frames>>

\* An I/O APIC is mapped at the virtual address equal to its physical one.
MapIoApic ==
  /\ stage = "io" /\ Running /\ MissingTables = {}
  /\ \E p \in Target :
       IF Present(p)
       THEN fault' = "io_apic" /\ UNCHANGED <<devices, controllerVars>>
       ELSE devices' = devices \cup {<<p, p>>} /\ SetUpIoApic /\ UNCHANGED fault
  /\ UNCHANGED <<vars, start_addr, pages, regions, reordered, call, stage, handler,
                 page_tables, table_frames>>

ControllersDone ==
  /\ Running
  /\ \/ stage = "io" /\ Len(tables) = Len(model[1].io_apics) /\ LapicReady
     \/ stage = "pic" /\ UsePics
  /\ stage' = "done"
  /\ UNCHANGED <<vars, acpiVars, handler, page_tables, table_frames, devices>>
-----------------------------------------------------------------------------
\* The running kernel's calls of the frame allocator; page tables are never freed.
LaterFrames ==
  /\ stage = "done"
  /\ \/ \E S \in Sizes : AllocateFrame(S) \/ AllocateNone(S)
     \/ \E f \in handed \ table_frames : DeallocateFrame(f)
  /\ UNCHANGED <<acpiVars, controllerVars, bootVars>>

\* panic = "abort".
Halted == (fault # "none" \/ phase = "failed") /\ UNCHANGED allVars

BootNext == \/ MemoryStep \/ NewTable \/ NoFrame \/ AcpiStep \/ SearchBios \/ AcpiDone
            \/ CheckLapic \/ MapLapic \/ MapIoApic \/ ControllersDone \/ LaterFrames \/ Halted

BootSpec == BootInit /\ [][BootNext]_allVars
-----------------------------------------------------------------------------
(* Properties *)

\* The window keeps to itself, also towards heap and controllers, and is given back
\* before these are mapped, whichever handler and however many regions acpi::init
\* went through and in whichever order they were dropped.
WindowSound ==
  /\ WindowApart /\ RegionsApart
  /\ stage \notin {"memory", "acpi"} => pages = [p \in {} |-> 0]

IoApicExplained ==
  fault = "io_apic" =>
    LET a == model[1].io_apics
        n == Len(tables) + 1
    IN  \/ \E i \in 1 .. n - 1 : PageOf(a[i]) = PageOf(a[n])
        \/ PageOf(a[n]) \in HeapPages \cup {PageOf(KernelApicAddr)}

\* map_to refuses the kernel two things only: an I/O APIC in a page of an earlier one,
\* of the local APIC or of the heap; and a page of the window after a region was
\* dropped before a younger one. Never does it refuse the local APIC's page, and
\* unmap refuses none.
RefusalsExplained == /\ MapperNeverRefuses /\ IoApicExplained
                     /\ fault = "already_mapped" => stage = "acpi"

\* When interrupts are first enabled, the keyboard's and the clock's lines reach
\* their own handlers, and the end of the interrupt is told to the controller that
\* delivers it and to no other, whatever overrides the tables hold for other lines:
\* provided that the firmware has enabled the local APIC or, without one, has left the
\* lines unmasked. Otherwise the devices are silent, as the kernel sets neither.
DevicesReachHandlers ==
  /\ BootTypeOK
  /\ stage = "done" =>
       \A v \in {Keyboard, Clock} :
         \/ Rewired(v - Offset)
         \/ Delivers(v - Offset) = IF LeftOpen(v - Offset) THEN {<<EndOfInterruptTo, v>>}
                                   ELSE {}
=============================================================================
