-------------------------------- MODULE Rtc --------------------------------
(***************************************************************************)
(* The real-time clock (rtc.rs) under its IntMutex: what boot, the clock   *)
(* task and clock_interrupt_handler do with the CMOS registers while they  *)
(* hold the guard, and the chip, which updates the date and raises its     *)
(* periodic interrupt meanwhile.  A register is accessed in two steps, the *)
(* selection through one port and the transfer through the other.          *)
(* Two registers, seconds and minutes, stand for the fields of the date.   *)
(* One assumption on time: the chip does not begin and finish an update    *)
(* while the core, with interrupts masked, goes through the registers once *)
(* (the update-in-progress bit is up for 244 microseconds and more).       *)
(***************************************************************************)
EXTENDS IntMutex, Sequences

CONSTANTS MaxDate,  \* bound: updates of the date
          Chips     \* the seconds and minutes a chip goes through, date by date

Registers == {"seconds", "minutes"}

ASSUME RtcAssumption == /\ MaxDate \in Nat
                        /\ Chips \subseteq [0 .. MaxDate -> [Registers -> Nat]]

VARIABLES
  acc,       \* how far each context is in its accesses
  selected,  \* whether it has made the selection of the current one
  command,   \* the register that is selected
  fields,    \* the raw values of seconds and minutes the task has read
  time,      \* the date the task made of them
  since,     \* ghost: the date when the task took the guard
  chip,      \* the chip, one of Chips
  date,      \* its date, counted in seconds
  shown,     \* what its seconds and minutes registers show
  uip,       \* its update-in-progress bit
  young,     \* the update began in the task's present pass over the registers
  bcd_only,  \* whether it ignores the binary-format bit
  binary,    \* the binary-format bit of register B
  pie, pf,   \* periodic interrupts enabled; the flag in register C
  irq        \* the interrupt is latched by the interrupt controller

accessVars == <<acc, selected, command, fields, time, since>>
dateVars == <<date, shown, uip, young>>
modeVars == <<chip, bcd_only, binary, pie>>
rtcVars == <<accessVars, dateVars, modeVars, pf, irq>>
allVars == <<vars, rtcVars>>
-----------------------------------------------------------------------------
(* The accesses made under one guard.                                      *)

\* rtc::init: set_data_format, set_freq, enable_interrupts.
InitAccesses == << [reg |-> "B", op |-> "read"], [reg |-> "B", op |-> "set_data_format"],
                   [reg |-> "A", op |-> "read"], [reg |-> "A", op |-> "set_freq"],
                   [reg |-> "B", op |-> "read"], [reg |-> "B", op |-> "enable_interrupts"],
                   [reg |-> "C", op |-> "read"] >>

\* Mutation: the second look at the update-in-progress bit is left out.
ReadAccessesOneCheck ==
  << [reg |-> "A", op |-> "update_in_progress"],
     [reg |-> "seconds", op |-> "read"], [reg |-> "minutes", op |-> "read"],
     [reg |-> "B", op |-> "convert"] >>

\* try_read_date_time.
ReadAccesses ==
  << [reg |-> "A", op |-> "update_in_progress"],
     [reg |-> "seconds", op |-> "read"], [reg |-> "minutes", op |-> "read"],
     [reg |-> "B", op |-> "convert"],
     [reg |-> "A", op |-> "update_in_progress"] >>

\* Mutation: the handler reads another status register.
ClearInterruptMaskOther == << [reg |-> "B", op |-> "read"] >>

\* clear_interrup_mask.
ClearInterruptMask == << [reg |-> "C", op |-> "read"] >>

\* Of the guards boot takes the first is rtc::init's.
Accesses(c) == IF c = "handler" THEN ClearInterruptMask
               ELSE IF boot_guards > 0 /\ boot = boot_guards - 1 THEN InitAccesses
               ELSE ReadAccesses

Done(c) == acc[c] > Len(Accesses(c))
Access(c) == Accesses(c)[acc[c]]
-----------------------------------------------------------------------------
(* Values *)

\* The seconds and minutes of a date.
Fields(d) == chip[d]

\* try_from succeeds.
Valid(t) == t["seconds"] < 60 /\ t["minutes"] < 60

Bcd(n) == 16 * (n \div 10) + (n % 10)

\* The conversion in try_read_date_time.
FromBcd(n) == (n % 16) + (n \div 16) * 10

Raw(n) == IF binary THEN n ELSE Bcd(n)

RtcTypeOK ==
  /\ TypeOK
  /\ acc \in [Contexts -> 1 .. 8] /\ selected \in [Contexts -> BOOLEAN]
  /\ command \in {"none", "A", "B", "C", "seconds", "minutes"}
  /\ fields \in [Registers -> Nat] /\ time \in [Registers -> Nat]
  /\ since \in 0 .. MaxDate /\ date \in 0 .. MaxDate
  /\ chip \in Chips /\ shown \in [Registers -> Nat]
  /\ {uip, young, bcd_only, binary, pie, pf, irq} \subseteq BOOLEAN

\* With no guards taken by boot the chip is already set up.
RtcInit ==
  /\ Init /\ chip \in Chips
  /\ acc = [c \in Contexts |-> 1] /\ selected = [c \in Contexts |-> FALSE]
  /\ command = "none" /\ fields = Fields(0) /\ time = Fields(0) /\ since = 0
  /\ date = 0 /\ shown = Fields(0) /\ uip = FALSE /\ young = FALSE
  /\ bcd_only \in BOOLEAN /\ binary = (boot_guards = 0 /\ ~bcd_only)
  /\ pie = (boot_guards = 0) /\ pf = FALSE /\ irq = FALSE
-----------------------------------------------------------------------------
(* The core *)

\* select_reg.
SelectReg(c) ==
  /\ At(c, "held") /\ ~Done(c) /\ ~selected[c]
  /\ command' = Access(c).reg
  /\ selected' = [selected EXCEPT ![c] = TRUE]
  /\ UNCHANGED <<vars, acc, fields, time, since, dateVars, modeVars, pf, irq>>

GoOn(c) == acc' = [acc EXCEPT ![c] = @ + 1]

\* update_in_progress and the loop in update_guarded_op around it; after the second
\* look read_date_time tries again, under the same guard, if try_from has failed.
UpdateGuard(c) ==
  LET again == \/ command = "A" /\ uip
               \/ acc[c] = Len(Accesses(c)) /\ ~Valid(time)
  IN  /\ acc' = [acc EXCEPT ![c] = IF again THEN 1 ELSE @ + 1]
      /\ young' = FALSE
      /\ UNCHANGED <<fields, time, binary, pie, pf>>

\* read_cmos_reg; reading register C clears the flag.
ReadReg(c) ==
  /\ fields' = IF command \in DOMAIN fields
                 THEN [fields EXCEPT ![command] = Raw(shown[command])] ELSE fields
  /\ pf' = (pf /\ command # "C")
  /\ GoOn(c)
  /\ UNCHANGED <<time, young, binary, pie>>

\* The format is looked up and the values converted.
Convert(c) ==
  /\ time' = IF command = "B" /\ binary THEN fields
             ELSE [f \in DOMAIN fields |-> FromBcd(fields[f])]
  /\ GoOn(c)
  /\ UNCHANGED <<fields, young, binary, pie, pf>>

\* write_cmos_reg with the bits that set_data_format, set_freq and
\* enable_interrupts add to what they have read.
WriteReg(c) ==
  /\ binary' = (binary \/ (Access(c).op = "set_data_format" /\ ~bcd_only))
  /\ pie' = (pie \/ Access(c).op = "enable_interrupts")
  /\ GoOn(c)
  /\ UNCHANGED <<fields, time, young, pf>>

Transfer(c) ==
  /\ At(c, "held") /\ ~Done(c) /\ selected[c]
  /\ selected' = [selected EXCEPT ![c] = FALSE]
  /\ CASE Access(c).op = "update_in_progress" -> UpdateGuard(c)
       [] Access(c).op = "read"               -> ReadReg(c)
       [] Access(c).op = "convert"            -> Convert(c)
       [] OTHER                               -> WriteReg(c)
  /\ UNCHANGED <<vars, command, since, chip, date, shown, uip, bcd_only, irq>>

\* The steps of IntMutex.  The guard is dropped after the last access.
RtcGuardStep(c) ==
  /\ GuardStep(c)
  /\ pc[c] = "held" => Done(c)
  /\ acc' = [acc EXCEPT ![c] = 1]
  /\ since' = IF c = "task" /\ pc'[c] = "held" THEN date ELSE since
  /\ young' = FALSE
  /\ UNCHANGED <<selected, command, fields, time, date, shown, uip, modeVars, pf, irq>>

TaskCalls ==
  /\ BootLock \/ SleepIfIdle \/ (TaskLock /\ (irq => calls + 1 < MaxCalls))
  /\ UNCHANGED rtcVars

Interrupted ==
  /\ irq /\ ClockInterrupt
  /\ irq' = FALSE
  /\ UNCHANGED <<accessVars, dateVars, modeVars, pf>>
-----------------------------------------------------------------------------
(* The chip *)

UpdateBegin ==
  /\ ~uip /\ date < MaxDate
  /\ uip' = TRUE
  /\ young' = ~interrupts
  /\ UNCHANGED <<vars, accessVars, date, shown, modeVars, pf, irq>>

UpdateField(f) ==
  /\ uip /\ shown[f] # Fields(date + 1)[f]
  /\ shown' = [shown EXCEPT ![f] = Fields(date + 1)[f]]
  /\ UNCHANGED <<vars, accessVars, date, uip, young, modeVars, pf, irq>>

UpdateEnd ==
  /\ uip /\ ~young /\ shown = Fields(date + 1)
  /\ date' = date + 1
  /\ uip' = FALSE
  /\ UNCHANGED <<vars, accessVars, shown, young, modeVars, pf, irq>>

\* The periodic interrupt; none while the flag is still up.
Periodic ==
  /\ pie /\ ~pf /\ ~irq /\ calls < MaxCalls
  /\ pf' = TRUE /\ irq' = TRUE
  /\ UNCHANGED <<vars, accessVars, dateVars, modeVars>>

Update == UpdateBegin \/ UpdateEnd \/ \E f \in Registers : UpdateField(f)
UpdateFinishes == UpdateEnd \/ \E f \in Registers : UpdateField(f)

AccessStep(c) == SelectReg(c) \/ Transfer(c)

RtcNext == \/ \E c \in Contexts : AccessStep(c) \/ RtcGuardStep(c)
           \/ TaskCalls \/ Interrupted \/ Update \/ Periodic

RtcSpec == RtcInit /\ [][RtcNext]_allVars
\* The core executes, the ready queue runs empty again and again, an interrupt is
\* delivered if interrupts are enabled again and again, and an update ends.
RtcFairSpec ==
  /\ RtcSpec
  /\ \A c \in Contexts : WF_allVars(AccessStep(c) \/ RtcGuardStep(c))
  /\ WF_allVars(BootLock /\ TaskCalls) /\ SF_allVars(SleepIfIdle /\ TaskCalls)
  /\ SF_allVars(Interrupted) /\ WF_allVars(UpdateFinishes)
-----------------------------------------------------------------------------
(* Properties *)

\* The date read under a guard is one that the chip showed as a whole since the
\* guard was taken: neither mixed from two dates nor left in the chip's format nor one
\* that is no date.
DateIsWhole ==
  /\ RtcTypeOK
  /\ pc["task"] = "held" /\ Accesses("task") = ReadAccesses /\ Done("task")
       => Valid(time) /\ \E d \in since .. date : time = Fields(d)

\* A chip whose registers hold no date keeps read_date_time in its loop, under the
\* guard and with interrupts masked, for as long as they do. Both properties below are
\* about chips that show a date in the end.
ShowsDate == <>[]Valid(Fields(date))

\* Interrupts never stay masked for good: no read of the date goes on for ever, and
\* the executor's idle path enables them.
InterruptsReturn == boot_guards > 0 /\ ShowsDate => []<>interrupts

\* The periodic flag is always cleared again by the handler, so that the chip can
\* raise the next interrupt and the kernel's clock goes on.
ClockGoesOn == boot_guards > 0 /\ ShowsDate => (pf ~> ~pf)
=============================================================================
