------------------------ MODULE InterruptControllers ------------------------
(***************************************************************************)
(* Which interrupt controller delivers the keyboard and the clock, to      *)
(* which vector, and where end-of-interrupt goes: apic.rs, pic.rs and      *)
(* notify_end_of_interrupt of interrupts.rs. A redirection entry is its    *)
(* vector and its flags; the destination is always the one processor. What *)
(* the firmware leaves behind and the kernel never sets, the enable bit of *)
(* the local APIC and the masks of the 8259 pair, is part of the state.    *)
(***************************************************************************)
EXTENDS Naturals, Sequences, Functions

CONSTANTS Lines,   \* input lines of an I/O APIC
          Madts,   \* interrupt models [io_apics, overrides] the ACPI tables give
          FirmwareMasks  \* sets of lines of the 8259 pair the firmware may leave masked

Keyboard == 33
Clock == 40
Offset == 32   \* PIC_1_OFFSET, and the offset of apic::init
Cascade == 2   \* the line of the first 8259 that the second one drives

ASSUME MadtAssumption ==
  /\ Lines \subseteq Nat /\ {Keyboard - Offset, Clock - Offset} \subseteq Lines
  /\ Madts \subseteq
       [io_apics : Seq(Nat) \ {<<>>},
        overrides : Seq([isa_source : 0 .. 15, gsi : Lines,
                         polarity : {"bus", "high", "low"},
                         trigger : {"bus", "edge", "level"}])]
  /\ FirmwareMasks \subseteq SUBSET Lines

VARIABLES
  model,   \* the interrupt model in use, as a sequence of at most one of Madts
  tables,  \* the redirection tables set up so far, one per I/O APIC
  firmware, \* what it left: the local APIC's enable bit, and the 8259 pair's masks
  pics,    \* whose vectors the 8259 pair has: "firmware" or "kernel"
  masks,   \* the lines masked in the 8259 pair
  lapic    \* whether LAPIC is initialised

controllerVars == <<model, tables, firmware, pics, masks, lapic>>

IrqFlags == {"LEVEL_TRIGGERED", "LOW_ACTIVE", "LOGICAL_DEST", "MASKED"}
Entry(v, f) == [vector |-> v, flags |-> f]

ControllersTypeOK ==
  /\ model \in Seq(Madts) /\ Len(model) <= 1
  /\ tables \in Seq([Lines -> [vector : Nat, flags : SUBSET IrqFlags]])
  /\ firmware \in [lapic_enabled : BOOLEAN, masks : FirmwareMasks]
  /\ pics \in {"firmware", "kernel"} /\ masks \subseteq Lines
  /\ lapic \in BOOLEAN

ControllersInit ==
  /\ firmware \in [lapic_enabled : BOOLEAN, masks : FirmwareMasks]
  /\ model = <<>> /\ tables = <<>>
  /\ pics = "firmware" /\ masks = firmware.masks /\ lapic = FALSE
-----------------------------------------------------------------------------
(* The redirection table of one I/O APIC *)

\* IoApic::init: every line to the vector at its offset, masked.
IoInit == [l \in Lines |-> Entry(Offset + l, {"MASKED"})]

\* IoApic::enable_irq.
EnableIrq(table, l) == [table EXCEPT ![l].flags = @ \ {"MASKED"}]

\* The complement of a flag is every other flag.
PolarityFlags(p) == IF p = "high" THEN IrqFlags \ {"LOW_ACTIVE"} ELSE {"LOW_ACTIVE"}
TriggerFlags(t) == IF t = "edge" THEN IrqFlags \ {"LEVEL_TRIGGERED"}
                   ELSE {"LEVEL_TRIGGERED"}

\* One pass of the loop over interrupt_source_overrides: the entry is written at
\* the override's line, the line enabled is that of its source.
Redirect(table, o) ==
  IF o.polarity = "bus" \/ o.trigger = "bus" THEN table
  ELSE EnableIrq([table EXCEPT ![o.gsi] =
                    Entry(o.isa_source, TriggerFlags(o.trigger) \cup PolarityFlags(o.polarity))],
                 o.isa_source)

\* The table after k of the overrides.
Redirected(table, overrides) ==
  LET after[k \in 0 .. Len(overrides)] ==
        IF k = 0 THEN table ELSE Redirect(after[k - 1], overrides[k])
  IN  after

\* The keyboard's and the clock's entries.
Device(table, v) ==
  EnableIrq([table EXCEPT ![v - Offset] = Entry(v, {"LEVEL_TRIGGERED"})], v - Offset)

\* Mutation: the devices' entries are written before the overrides.
IoTableDevicesFirst(m) ==
  Redirected(Device(Device(IoInit, Keyboard), Clock), m.overrides)[Len(m.overrides)]

IoTable(m) ==
  Device(Device(Redirected(IoInit, m.overrides)[Len(m.overrides)], Keyboard), Clock)
-----------------------------------------------------------------------------
(* apic::init, between its calls of map_to, and pic::init *)

\* disable_8259 masks every line.
UseApic(m) == /\ model' = <<m>> /\ masks' = Lines
              /\ UNCHANGED <<tables, firmware, pics, lapic>>

\* An I/O APIC, once its page is mapped.
SetUpIoApic == /\ tables' = Append(tables, IoTable(model[1]))
               /\ UNCHANGED <<model, firmware, pics, masks, lapic>>

\* LAPIC.try_init_once, after the last I/O APIC. The call of lapic.enable() is
\* commented out.
LapicReady == /\ lapic' = TRUE
              /\ UNCHANGED <<model, tables, firmware, pics, masks>>

\* ChainedPics::initialize saves the masks and writes them back at its end.
UsePics == /\ pics' = "kernel"
           /\ UNCHANGED <<model, tables, firmware, masks, lapic>>
-----------------------------------------------------------------------------
(* Delivery, once interrupts are enabled *)

\* The lines of the second 8259 reach the processor through the first.
Unmasked(l, m) == l \notin m /\ (l >= 8 => Cascade \notin m)

\* The vectors the PC's firmware gives the 8259 pair.
FirmwareVector(l) == IF l < 8 THEN 8 + l ELSE 112 + (l - 8)

\* The vectors a device's line is delivered to, each with its controller. The local
\* APIC takes messages of the I/O APICs when enabled only.
Delivers(l) ==
  {<<"apic", tables[i][l].vector>> :
      i \in {j \in DOMAIN tables : firmware.lapic_enabled /\ "MASKED" \notin tables[j][l].flags}}
    \cup {<<"pic", v>> : v \in IF ~Unmasked(l, masks) THEN {}
                               ELSE IF pics = "kernel" THEN {Offset + l}
                               ELSE {FirmwareVector(l)}}

\* notify_end_of_interrupt.
EndOfInterruptTo == IF lapic THEN "apic" ELSE "pic"

\* The line a device is wired to: its own unless an override says otherwise.
Rewired(irq) == model # <<>> /\ \E o \in Range(model[1].overrides) :
                                  (o.isa_source = irq) # (o.gsi = irq)

\* Whether the firmware left the way of a line to the processor open.
LeftOpen(l) == IF model # <<>> THEN firmware.lapic_enabled ELSE Unmasked(l, firmware.masks)
=============================================================================
