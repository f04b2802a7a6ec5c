----------------------------- MODULE RtcProofs -----------------------------
(***************************************************************************)
(* IntMutex and the clock it guards, for any number of guards, any width   *)
(* of the count and any number of updates of the date.                     *)
(***************************************************************************)
EXTENDS Rtc, TLAPS

\* What a leaf may take of each prover: seconds of wall time, which a busy machine
\* stretches.
USE SMTT(30), ZenonT(30)
USE DEF Registers

\* Who holds the guard is alone: it masks interrupts, and a task that holds it has
\* no handler above it.
MaskInv ==
  /\ TypeOK
  /\ \A c \in Contexts : pc[c] = "held" => ~interrupts
  /\ pc["task"] = "held" => pc["handler"] = "idle"

Busy(c) == IF pc[c] \in {"try", "held"} THEN 1 ELSE 0
Open == Busy("task") + Busy("handler")
Begun == boot_guards - boot + calls

\* With guards taken in boot. Nobody reaches the branch that enables interrupts under
\* the lock, because the count is never one: it is zero only until the first guard is
\* dropped, or while the task holds a guard that was counted, and else it is below
\* zero (wrapped) by no more than the guards begun and dropped.
CountInv ==
  boot_guards > 0 =>
    /\ \A c \in Contexts : pc[c] # "reenable"
    /\ locked => \E c \in Contexts : pc[c] \in {"held", "unlock"}
    /\ pc["task"] \in {"held", "unlock"} => ~interrupts /\ pc["handler"] = "idle"
    /\ pc["handler"] # "idle" => ~interrupts
    /\ boot > 0 => ~interrupts /\ pc["handler"] = "idle"
    /\ NUM_GUARDS = 0 => /\ ~interrupts /\ pc["handler"] = "idle"
                         /\ \/ pc["task"] = "held" \/ boot = boot_guards
                            \/ boot = boot_guards - 1 /\ pc["task"] = "try"
    /\ NUM_GUARDS # 0 => NUM_GUARDS >= W - Begun + Open
    /\ Begun >= Open

MutexInv == MaskInv /\ CountInv

\* What wraps and what does not, of a count n below w.
LEMMA Wrap ==
  ASSUME NEW w \in Nat, NEW n \in 0 .. w - 1
  PROVE  /\ (n + 1) % w = IF n = w - 1 THEN 0 ELSE n + 1
         /\ (n + w - 1) % w = IF n = 0 THEN w - 1 ELSE n - 1
<1>1. \A k \in 0 .. w - 1 : k % w = k /\ (k + w) % w = k
  OBVIOUS
<1> QED
  BY <1>1

\* The facts about the constants that the count needs.
LEMMA Widths ==
  ASSUME TypeOK
  PROVE  /\ boot_guards \in Nat /\ W \in Nat /\ MaxCalls \in Nat
         /\ boot_guards + MaxCalls + 2 < W
BY IntMutexAssumption DEF TypeOK

\* try_lock that succeeds: the guard is counted if interrupts were enabled.
LEMMA TryLockInv ==
  ASSUME MutexInv, NEW c \in Contexts, TryLock(c)
  PROVE  MutexInv'
<1>1. (NUM_GUARDS + 1) % W = IF NUM_GUARDS = W - 1 THEN 0 ELSE NUM_GUARDS + 1
  BY Wrap, Widths DEF MutexInv, MaskInv, TypeOK
<1>2. MaskInv'
  <2>1. enabled' \in [Contexts -> BOOLEAN] /\ SHOULD_REENABLE' \in BOOLEAN
        /\ interrupts' \in BOOLEAN /\ locked' \in BOOLEAN
    BY Zenon DEF MutexInv, MaskInv, TypeOK, TryLock
  <2>2. NUM_GUARDS' \in 0 .. W - 1
    BY <1>1, Widths DEF MutexInv, MaskInv, TypeOK, TryLock
  <2> QED
    BY <2>1, <2>2 DEF MutexInv, MaskInv, TypeOK, TryLock, At, Goto, Contexts
<1>3. CountInv'
  <2>1. CASE c = "task"
    BY <1>1, <2>1, Widths DEF MutexInv, MaskInv, CountInv, TypeOK, TryLock, At, Goto, Contexts,
                              Busy, Open, Begun
  <2>2. CASE c = "handler"
    BY <2>2, Widths DEF MutexInv, MaskInv, CountInv, TypeOK, TryLock, At, Goto, Contexts,
                        Busy, Open, Begun
  <2> QED BY <2>1, <2>2 DEF Contexts
<1> QED BY <1>2, <1>3 DEF MutexInv

\* The drop of a guard takes one from the count.
LEMMA DropGuardInv ==
  ASSUME MutexInv, NEW c \in Contexts, DropGuard(c)
  PROVE  MutexInv'
<1>1. (NUM_GUARDS + W - 1) % W = IF NUM_GUARDS = 0 THEN W - 1 ELSE NUM_GUARDS - 1
  BY Wrap, Widths DEF MutexInv, MaskInv, TypeOK
<1>2. MaskInv'
  BY <1>1, Widths DEF MutexInv, MaskInv, TypeOK, DropGuard, At, Goto, Contexts
<1>3. CountInv'
  BY <1>1, Widths DEF MutexInv, MaskInv, CountInv, TypeOK, DropGuard, At, Goto, Contexts,
                      Busy, Open, Begun
<1> QED BY <1>2, <1>3 DEF MutexInv

\* The rest of the drop: with guards taken in boot interrupts are not enabled here.
LEMMA ReleaseInv ==
  ASSUME MutexInv, NEW c \in Contexts, Reenable(c) \/ UnlockInner(c)
  PROVE  MutexInv'
<1>1. MaskInv'
  BY ZenonT(30) DEF MutexInv, MaskInv, TypeOK, Reenable, UnlockInner, At, Goto, Contexts
<1>2. CountInv'
  BY Widths DEF MutexInv, MaskInv, CountInv, TypeOK, Reenable, UnlockInner, At, Goto,
                Contexts, Busy, Open, Begun
<1> QED BY <1>1, <1>2 DEF MutexInv

\* Boot, the clock task and the handler begin a call.
LEMMA BeginInv ==
  ASSUME MutexInv, BootLock \/ TaskLock \/ ClockInterrupt
  PROVE  MutexInv'
<1>1. MaskInv'
  <2>1. boot' \in 0 .. boot_guards' /\ calls' \in 0 .. MaxCalls
    BY Widths DEF MutexInv, MaskInv, TypeOK, BootLock, TaskLock, ClockInterrupt
  <2>2. interrupts' \in BOOLEAN
    BY Zenon DEF MutexInv, MaskInv, TypeOK, BootLock, TaskLock, ClockInterrupt
  <2> QED
    BY <2>1, <2>2 DEF MutexInv, MaskInv, TypeOK, BootLock, TaskLock, ClockInterrupt, At, Goto,
                      Contexts
<1>2. CASE BootLock
  BY <1>1, <1>2, Widths DEF MutexInv, MaskInv, CountInv, TypeOK, BootLock, At, Goto, Contexts,
                            Busy, Open, Begun
<1>3. CASE TaskLock
  BY <1>1, <1>3, Widths DEF MutexInv, MaskInv, CountInv, TypeOK, TaskLock, At, Goto, Contexts,
                            Busy, Open, Begun
<1>4. CASE ClockInterrupt
  BY <1>1, <1>4, Widths DEF MutexInv, MaskInv, CountInv, TypeOK, ClockInterrupt, Goto, Contexts,
                            Busy, Open, Begun
<1> QED BY <1>2, <1>3, <1>4

\* The executor's idle path enables interrupts.
LEMMA SleepIfIdleInv ==
  ASSUME MutexInv, SleepIfIdle
  PROVE  MutexInv'
BY Widths DEF MutexInv, MaskInv, CountInv, TypeOK, SleepIfIdle, At, Contexts, Busy, Open, Begun

\* A step of the chip or of an access leaves the lock alone.
LEMMA StutterInv ==
  ASSUME MutexInv, UNCHANGED vars
  PROVE  MutexInv'
BY DEF MutexInv, MaskInv, CountInv, TypeOK, vars, Contexts, Busy, Open, Begun

\* MutexInv is an invariant of IntMutex.
LEMMA MutexStep ==
  ASSUME MutexInv, [Next]_vars
  PROVE  MutexInv'
BY TryLockInv, DropGuardInv, ReleaseInv, BeginInv, SleepIfIdleInv, StutterInv
   DEF Next, GuardStep, TryLockFails

\* Before the first guard is taken.
LEMMA MutexInitially == Init => MutexInv
<1> SUFFICES ASSUME Init PROVE MutexInv
  OBVIOUS
<1>1. TypeOK
  <2>1. boot_guards \in Nat /\ boot \in 0 .. boot_guards /\ calls \in 0 .. MaxCalls
        /\ NUM_GUARDS \in 0 .. W - 1
    BY IntMutexAssumption DEF Init
  <2> QED
    BY <2>1, Zenon DEF Init, TypeOK
<1>2. \A c \in Contexts : pc[c] = "idle"
  BY DEF Init
<1>3. "task" \in Contexts /\ "handler" \in Contexts
  BY DEF Contexts
<1>4. Open = 0 /\ Begun = 0
  BY <1>2, <1>3, Widths, <1>1 DEF Init, Open, Begun, Busy
<1> QED
  BY <1>1, <1>2, <1>3, <1>4, Widths DEF Init, MutexInv, MaskInv, CountInv
-----------------------------------------------------------------------------
(* The accesses under the guard *)

Reading == pc["task"] = "held" /\ ~(boot_guards > 0 /\ boot = boot_guards - 1)

\* Where a context is in its accesses.
AccessInv ==
  /\ RtcTypeOK
  /\ \A c \in Contexts : pc[c] # "held" => acc[c] = 1 /\ ~selected[c]
  /\ \A c \in Contexts : acc[c] <= Len(Accesses(c)) + 1
  /\ \A c \in Contexts : Done(c) => ~selected[c]
  /\ pc["task"] = "held" /\ selected["task"] => command = Access("task").reg

\* The chip between two updates, and the pass over the registers: as long as no
\* update is on, what has been read is of the present date; one that has begun
\* since the pass began does not end before the bit is looked at again.
PassInv ==
  /\ uip => date < MaxDate
  /\ ~uip => shown = Fields(date)
  /\ since <= date
  /\ Reading /\ acc["task"] \in 2 .. 5 =>
       /\ uip => young
       /\ ~uip => /\ acc["task"] >= 3 => fields["seconds"] = Raw(Fields(date)["seconds"])
                  /\ acc["task"] >= 4 => fields["minutes"] = Raw(Fields(date)["minutes"])
                  /\ acc["task"] >= 5 => time = Fields(date)
  /\ Reading /\ acc["task"] = 6 => Valid(time) /\ \E d \in since .. date : time = Fields(d)

DateInv == MutexInv /\ AccessInv /\ PassInv

\* How many accesses a guard is held for.
LEMMA AccessCount ==
  /\ Len(InitAccesses) = 7 /\ Len(ReadAccesses) = 5 /\ Len(ClearInterruptMask) = 1
  /\ InitAccesses # ReadAccesses
<1>1. Len(InitAccesses) = 7
  BY DEF InitAccesses
<1>2. Len(ReadAccesses) = 5
  BY DEF ReadAccesses
<1>3. Len(ClearInterruptMask) = 1
  BY DEF ClearInterruptMask
<1> QED BY <1>1, <1>2, <1>3

\* try_read_date_time, access by access.
LEMMA ReadOrder ==
  /\ ReadAccesses[1].reg = "A" /\ ReadAccesses[1].op = "update_in_progress"
  /\ ReadAccesses[2].reg = "seconds" /\ ReadAccesses[2].op = "read"
  /\ ReadAccesses[3].reg = "minutes" /\ ReadAccesses[3].op = "read"
  /\ ReadAccesses[4].reg = "B" /\ ReadAccesses[4].op = "convert"
  /\ ReadAccesses[5].reg = "A" /\ ReadAccesses[5].op = "update_in_progress"
BY DEF ReadAccesses

\* Every access, of init and of the handler too, names a register of the chip.
LEMMA AccessReg ==
  ASSUME NEW c \in Contexts, AccessInv, ~Done(c)
  PROVE  Access(c).reg \in {"A", "B", "C", "seconds", "minutes"}
<1>1. \A i \in 1 .. 7 : InitAccesses[i].reg \in {"A", "B", "C"}
  BY DEF InitAccesses
<1>2. ClearInterruptMask[1].reg = "C"
  BY DEF ClearInterruptMask
<1>3. acc[c] \in 1 .. 8 /\ ~(acc[c] > Len(Accesses(c)))
  BY DEF AccessInv, RtcTypeOK, Done
<1>4. CASE Accesses(c) = ClearInterruptMask
  BY <1>2, <1>3, <1>4, AccessCount DEF Access
<1>5. CASE Accesses(c) = InitAccesses
  BY <1>1, <1>3, <1>5, AccessCount DEF Access
<1>6. CASE Accesses(c) = ReadAccesses
  BY <1>3, <1>6, ReadOrder, AccessCount DEF Access
<1> QED
  BY <1>4, <1>5, <1>6 DEF Accesses

\* BCD and back: what Raw writes, Convert reads.
LEMMA BcdInverse ==
  ASSUME NEW n \in Nat
  PROVE  Bcd(n) \in Nat /\ FromBcd(n) \in Nat /\ FromBcd(Bcd(n)) = n
BY DEF Bcd, FromBcd

\* A date's fields are numbers.
LEMMA FieldsType ==
  ASSUME chip \in Chips, NEW d \in 0 .. MaxDate
  PROVE  /\ Fields(d) \in [{"seconds", "minutes"} -> Nat]
         /\ Fields(d)["seconds"] \in Nat /\ Fields(d)["minutes"] \in Nat
<1>1. chip \in [0 .. MaxDate -> [{"seconds", "minutes"} -> Nat]]
  BY RtcAssumption
<1>2. Fields(d) \in [{"seconds", "minutes"} -> Nat]
  BY <1>1 DEF Fields
<1> QED
  BY <1>2

\* The selection of a register.
LEMMA SelectRegInv ==
  ASSUME DateInv, NEW c \in Contexts, SelectReg(c)
  PROVE  DateInv'
<1>1. MutexInv'
  BY StutterInv DEF DateInv, SelectReg
<1>2. Access(c).reg \in {"A", "B", "C", "seconds", "minutes"}
  BY AccessReg DEF DateInv, SelectReg
<1>3. /\ \A k \in Contexts : Accesses(k)' = Accesses(k)
      /\ \A k \in Contexts : Access(k)' = Access(k)
      /\ \A k \in Contexts : Done(k)' = Done(k)
  BY DEF SelectReg, Accesses, Access, Done, vars
<1>4. selected' \in [Contexts -> BOOLEAN]
  BY DEF SelectReg, DateInv, AccessInv, RtcTypeOK
<1>5. RtcTypeOK'
  BY <1>1, <1>2, <1>4
     DEF SelectReg, DateInv, AccessInv, RtcTypeOK, MutexInv, MaskInv, dateVars, modeVars
<1>6. c = "handler" => pc["task"] # "held"
  BY DEF DateInv, MutexInv, MaskInv, SelectReg, At
<1>7. AccessInv'
  BY <1>3, <1>5, <1>6, <1>4 DEF SelectReg, DateInv, AccessInv, RtcTypeOK, dateVars, vars, At,
                                Contexts
<1>8. PassInv'
  BY Zenon DEF SelectReg, DateInv, PassInv, Reading, dateVars, modeVars, vars, Raw, Fields
<1> QED BY <1>1, <1>7, <1>8 DEF DateInv

\* The accesses of a reading task, by number.
LEMMA ReadingAccess ==
  ASSUME DateInv, Reading
  PROVE  /\ Accesses("task") = ReadAccesses /\ acc["task"] \in 1 .. 6
         /\ Done("task") <=> acc["task"] = 6
<1>1. Accesses("task") = ReadAccesses
  BY DEF Reading, Accesses
<1>2. acc["task"] \in 1 .. 8 /\ acc["task"] <= Len(Accesses("task")) + 1
  BY DEF DateInv, AccessInv, RtcTypeOK, Contexts
<1>3. Len(Accesses("task")) = 5
  BY <1>1, AccessCount
<1>4. acc["task"] \in 1 .. 6
  <2>1. \A i \in 1 .. 8 : i <= 5 + 1 => i \in 1 .. 6
    OBVIOUS
  <2> QED BY <1>2, <1>3, <2>1, Zenon
<1>5. Done("task") <=> acc["task"] > 5
  BY <1>3, ZenonT(30) DEF Done
<1> QED
  BY <1>1, <1>4, <1>5

\* A transfer goes on to the next access or, at the update guard, to the first; it
\* leaves the lock, the selection and the date alone.
LEMMA TransferAccess ==
  ASSUME DateInv, NEW c \in Contexts, Transfer(c)
  PROVE  /\ MutexInv'
         /\ acc' \in [Contexts -> 1 .. 8] /\ acc'[c] \in {1, acc[c] + 1}
         /\ \A k \in Contexts : k # c => acc'[k] = acc[k]
         /\ acc[c] \in 1 .. 7 /\ acc[c] <= Len(Accesses(c)) /\ Len(Accesses(c)) \in Nat
         /\ selected' = [selected EXCEPT ![c] = FALSE]
         /\ \A k \in Contexts : Accesses(k)' = Accesses(k)
         /\ c = "handler" => pc["task"] # "held"
         /\ UNCHANGED <<pc, boot, boot_guards, command, since, chip, date, shown, uip,
                        bcd_only, irq>>
<1>1. MutexInv'
  BY StutterInv DEF DateInv, Transfer
<1>2. PICK n \in 0 .. 7 : n = Len(Accesses(c))
  BY AccessCount DEF Accesses
<1>3. acc[c] \in 1 .. 7 /\ acc[c] <= n
  <2>1. acc[c] \in 1 .. 8
    BY DEF DateInv, AccessInv, RtcTypeOK
  <2>2. ~(acc[c] > n)
    BY <1>2, Zenon DEF Transfer, Done
  <2>3. \A i \in 1 .. 8 : ~(i > n) => i \in 1 .. 7 /\ i <= n
    OBVIOUS
  <2> QED BY <2>1, <2>2, <2>3, Zenon
<1>4. \/ acc' = [acc EXCEPT ![c] = acc[c] + 1] \/ acc' = [acc EXCEPT ![c] = 1]
  BY DEF Transfer, UpdateGuard, ReadReg, Convert, WriteReg, GoOn, DateInv, AccessInv, RtcTypeOK
<1>5. acc' \in [Contexts -> 1 .. 8] /\ acc'[c] \in {1, acc[c] + 1}
      /\ \A k \in Contexts : k # c => acc'[k] = acc[k]
  <2>1. \A i \in 1 .. 7 : i + 1 \in 1 .. 8
    OBVIOUS
  <2>2. acc \in [Contexts -> 1 .. 8]
    BY Zenon DEF DateInv, AccessInv, RtcTypeOK
  <2>3. acc[c] + 1 \in 1 .. 8
    BY <1>3, <2>1, Zenon
  <2>4. 1 \in 1 .. 8
    OBVIOUS
  <2> QED BY <1>4, <2>2, <2>3, <2>4
<1>6. \A k \in Contexts : Accesses(k)' = Accesses(k)
  BY DEF Transfer, Accesses, vars
<1>7. c = "handler" => pc["task"] # "held"
  BY DEF DateInv, MutexInv, MaskInv, Transfer, At
<1> QED
  BY <1>1, <1>2, <1>3, <1>5, <1>6, <1>7 DEF Transfer, vars

\* What a transfer leaves in the task's registers and in the chip's modes.
LEMMA TransferTypes ==
  ASSUME DateInv, NEW c \in Contexts, Transfer(c)
  PROVE  /\ fields' \in [{"seconds", "minutes"} -> Nat]
         /\ time' \in [{"seconds", "minutes"} -> Nat]
         /\ {young', binary', pie', pf'} \subseteq BOOLEAN
<1>1. {young', binary', pie', pf'} \subseteq BOOLEAN
  BY Zenon DEF DateInv, AccessInv, RtcTypeOK, Transfer, UpdateGuard, ReadReg, Convert, WriteReg
<1>2. \A n \in Nat : Raw(n) \in Nat /\ FromBcd(n) \in Nat
  BY BcdInverse DEF Raw
<1>3. DOMAIN fields = {"seconds", "minutes"} /\ fields["seconds"] \in Nat /\ fields["minutes"] \in Nat
      /\ shown["seconds"] \in Nat /\ shown["minutes"] \in Nat
      /\ time \in [{"seconds", "minutes"} -> Nat] /\ fields \in [{"seconds", "minutes"} -> Nat]
  BY DEF DateInv, AccessInv, RtcTypeOK
<1>4. \/ UNCHANGED <<fields, time>>
      \/ ReadReg(c)
      \/ Convert(c)
  BY DEF Transfer, UpdateGuard, ReadReg, Convert, WriteReg
<1>5. CASE ReadReg(c)
  <2>1. command \in {"seconds", "minutes"} => Raw(shown[command]) \in Nat
    BY <1>2, <1>3
  <2>2. fields' \in [{"seconds", "minutes"} -> Nat]
    BY <1>3, <1>5, <2>1 DEF ReadReg
  <2> QED BY <1>1, <1>3, <1>5, <2>2 DEF ReadReg
<1>6. CASE Convert(c)
  <2>1. time' \in [{"seconds", "minutes"} -> Nat]
    <3>1. CASE time' = fields
      BY <1>3, <3>1
    <3>2. CASE time' = [f \in DOMAIN fields |-> FromBcd(fields[f])]
      BY <1>2, <1>3, <3>2
    <3> QED BY <1>6, <3>1, <3>2 DEF Convert
  <2> QED BY <1>1, <1>3, <1>6, <2>1 DEF Convert
<1> QED BY <1>1, <1>3, <1>4, <1>5, <1>6, Zenon

\* The transfers keep the order of the accesses.
LEMMA TransferAccessInv ==
  ASSUME DateInv, NEW c \in Contexts, Transfer(c)
  PROVE  AccessInv'
<1>1. RtcTypeOK'
  <2>1. selected' \in [Contexts -> BOOLEAN]
    BY TransferAccess, Zenon DEF DateInv, AccessInv, RtcTypeOK
  <2>2. fields' \in [{"seconds", "minutes"} -> Nat] /\ time' \in [{"seconds", "minutes"} -> Nat]
    BY TransferTypes, Zenon
  <2>3. TypeOK' /\ acc' \in [Contexts -> 1 .. 8]
    BY TransferAccess, Zenon DEF MutexInv, MaskInv
  <2>4. {young', binary', pie', pf'} \subseteq BOOLEAN
    BY TransferTypes, Zenon
  <2>5. UNCHANGED <<command, since, chip, date, shown, uip, bcd_only, irq>>
    BY TransferAccess, Zenon
  <2>6. RtcTypeOK
    BY Zenon DEF DateInv, AccessInv
  <2> QED
    BY ONLY <2>1, <2>2, <2>3, <2>4, <2>5, <2>6, SMTT(30) DEF RtcTypeOK, Registers
<1>2. \A k \in Contexts : acc'[k] <= Len(Accesses(k)') + 1
  BY TransferAccess DEF DateInv, AccessInv
<1>3. ~selected'[c] /\ \A k \in Contexts : k # c => selected'[k] = selected[k]
  <2>1. selected' = [selected EXCEPT ![c] = FALSE]
    BY TransferAccess, Zenon
  <2>2. selected \in [Contexts -> BOOLEAN]
    BY Zenon DEF DateInv, AccessInv, RtcTypeOK
  <2> QED BY ONLY c \in Contexts, <2>1, <2>2, ZenonT(30)
<1>4. pc[c] = "held"
  BY DEF Transfer, At
<1>5. \A k \in Contexts : Done(k)' => ~selected'[k]
  BY <1>3, TransferAccess DEF Done, DateInv, AccessInv
<1>6. pc["task"] = "held" => c = "task"
  BY TransferAccess DEF Contexts
<1> QED
  BY <1>1, <1>2, <1>3, <1>4, <1>5, <1>6, TransferAccess, TransferTypes, ZenonT(30) DEF DateInv, AccessInv

\* A function on the two fields is a date's fields when it agrees on both.
LEMMA SameFields ==
  ASSUME chip \in Chips, NEW d \in 0 .. MaxDate, NEW f \in [{"seconds", "minutes"} -> Nat],
         f["seconds"] = Fields(d)["seconds"], f["minutes"] = Fields(d)["minutes"]
  PROVE  f = Fields(d)
BY FieldsType

\* Convert undoes the chip's format.
LEMMA ConvertsBack ==
  ASSUME DateInv, NEW d \in 0 .. MaxDate, Convert("task"), command = "B",
         fields["seconds"] = Raw(Fields(d)["seconds"]), fields["minutes"] = Raw(Fields(d)["minutes"])
  PROVE  time' = Fields(d)
<1>1. fields \in [{"seconds", "minutes"} -> Nat] /\ chip \in Chips
  BY DEF DateInv, AccessInv, RtcTypeOK
<1>2. CASE binary
  BY <1>1, <1>2, SameFields DEF Convert, Raw
<1>3. CASE ~binary
  <2>1. time' = [f \in {"seconds", "minutes"} |-> FromBcd(fields[f])]
    BY <1>1, <1>3 DEF Convert
  <2>2. time'["seconds"] = Fields(d)["seconds"] /\ time'["minutes"] = Fields(d)["minutes"]
    BY <1>1, <1>3, <2>1, FieldsType, BcdInverse DEF Raw
  <2>3. time' \in [{"seconds", "minutes"} -> Nat]
    BY <2>1, <1>1, BcdInverse
  <2> QED BY <1>1, <2>2, <2>3, SameFields
<1> QED BY <1>2, <1>3

\* One access of try_read_date_time: the date is read in a pass that the two looks at
\* the update-in-progress bit enclose.
LEMMA ReadingPass ==
  ASSUME DateInv, Transfer("task"), Reading
  PROVE  PassInv'
<1> "task" \in Contexts
  BY DEF Contexts
<1>1. /\ acc["task"] \in 1 .. 5 /\ Access("task") = ReadAccesses[acc["task"]]
      /\ command = Access("task").reg
  BY ReadingAccess DEF Transfer, Reading, DateInv, AccessInv, Access
<1>2. UNCHANGED <<pc, boot, boot_guards, command, since, chip, date, shown, uip>>
  BY TransferAccess
<1>3. /\ uip => date < MaxDate
      /\ ~uip => shown = Fields(date)
      /\ since <= date /\ date \in 0 .. MaxDate /\ date \in Nat /\ since \in Nat
      /\ acc["task"] \in 2 .. 5 /\ uip => young
      /\ acc["task"] \in 3 .. 5 /\ ~uip => fields["seconds"] = Raw(Fields(date)["seconds"])
      /\ acc["task"] \in 4 .. 5 /\ ~uip => fields["minutes"] = Raw(Fields(date)["minutes"])
      /\ acc["task"] = 5 /\ ~uip => time = Fields(date)
  BY <1>1 DEF DateInv, PassInv, AccessInv, RtcTypeOK
<1>4. acc \in [Contexts -> 1 .. 8] /\ fields \in [{"seconds", "minutes"} -> Nat]
  BY DEF DateInv, AccessInv, RtcTypeOK
<1>5. CASE acc["task"] \in {1, 5}
  <2>1. UpdateGuard("task") /\ command = "A"
    BY <1>1, <1>5, ReadOrder DEF Transfer
  <2>2. Len(Accesses("task")) = 5
    BY ReadingAccess, AccessCount
  <2>3. time' = time /\ Fields(date)' = Fields(date)
    BY <1>2, <2>1 DEF UpdateGuard, Fields
  <2>4. date \in since .. date
    BY <1>3
  <2>5. CASE acc'["task"] = 1
    BY <1>2, <1>3, <2>3, <2>5 DEF PassInv, Fields
  <2>6. CASE acc'["task"] # 1
    <3>1. acc'["task"] = acc["task"] + 1 /\ ~uip /\ (acc["task"] = 5 => Valid(time))
      BY <1>4, <2>1, <2>2, <2>6 DEF UpdateGuard
    <3>2. Valid(time)' <=> Valid(time)
      BY <2>3 DEF Valid
    <3> QED
      BY <1>2, <1>3, <1>5, <2>3, <2>4, <3>1, <3>2 DEF PassInv, Fields
  <2> QED BY <2>5, <2>6
<1>6. CASE acc["task"] \in {2, 3}
  <2>1. ReadReg("task") /\ command = IF acc["task"] = 2 THEN "seconds" ELSE "minutes"
    BY <1>1, <1>6, ReadOrder DEF Transfer
  <2>2. acc'["task"] = acc["task"] + 1 /\ young' = young /\ binary' = binary
        /\ fields' = [fields EXCEPT ![command] = Raw(shown[command])]
    BY <2>1, <1>4, ZenonT(30) DEF ReadReg, GoOn
  <2>3. Raw(Fields(date)["seconds"])' = Raw(Fields(date)["seconds"])
        /\ Raw(Fields(date)["minutes"])' = Raw(Fields(date)["minutes"])
    BY <1>2, <2>2 DEF Raw, Fields
  <2>4. acc["task"] = 2 /\ ~uip => fields'["seconds"] = Raw(Fields(date)["seconds"])
    BY <1>3, <1>4, <2>1, <2>2
  <2>5. acc["task"] = 3 /\ ~uip => /\ fields'["seconds"] = Raw(Fields(date)["seconds"])
                                   /\ fields'["minutes"] = Raw(Fields(date)["minutes"])
    BY <1>3, <1>4, <2>1, <2>2
  <2> QED
    BY <1>2, <1>3, <1>6, <2>2, <2>3, <2>4, <2>5 DEF PassInv, Fields
<1>7. CASE acc["task"] = 4
  <2>1. Convert("task") /\ command = "B"
    BY <1>1, <1>7, ReadOrder DEF Transfer
  <2>2. acc'["task"] = 5 /\ young' = young /\ binary' = binary /\ fields' = fields
    BY <2>1, <1>4, <1>7 DEF Convert, GoOn
  <2>3. Raw(Fields(date)["seconds"])' = Raw(Fields(date)["seconds"])
        /\ Raw(Fields(date)["minutes"])' = Raw(Fields(date)["minutes"])
    BY <1>2, <2>2 DEF Raw, Fields
  <2>4. ~uip => time' = Fields(date)
    BY <1>3, <1>7, <2>1, ConvertsBack
  <2> QED
    BY <1>2, <1>3, <1>7, <2>2, <2>3, <2>4 DEF PassInv, Fields
<1> QED BY <1>1, <1>5, <1>6, <1>7

\* The transfer of a register.
LEMMA TransferInv ==
  ASSUME DateInv, NEW c \in Contexts, Transfer(c)
  PROVE  DateInv'
<1>1. CASE Reading
  <2>1. c = "task"
    BY <1>1, TransferAccess DEF Reading, Contexts
  <2> QED
    BY <1>1, <2>1, ReadingPass, TransferAccess, TransferAccessInv DEF DateInv
<1>2. CASE ~Reading
  <2>1. PassInv'
    BY <1>2, TransferAccess DEF DateInv, PassInv, Reading, Fields
  <2> QED
    BY <2>1, TransferAccess, TransferAccessInv DEF DateInv
<1> QED BY <1>1, <1>2

\* The steps of the lock: a guard begins with the first access.
LEMMA RtcGuardStepInv ==
  ASSUME DateInv, NEW c \in Contexts, RtcGuardStep(c)
  PROVE  DateInv'
<1>1. MutexInv'
  BY MutexStep DEF DateInv, RtcGuardStep, Next
<1>2. \A k \in Contexts : k # c => pc'[k] = pc[k]
  BY DEF DateInv, MutexInv, MaskInv, TypeOK, RtcGuardStep, GuardStep, TryLock, TryLockFails,
         DropGuard, Reenable, UnlockInner, Goto, vars
<1>3. boot' = boot /\ boot_guards' = boot_guards
  BY DEF RtcGuardStep, GuardStep, TryLock, TryLockFails, DropGuard, Reenable, UnlockInner, vars
<1>4. ~selected[c]
  BY DEF RtcGuardStep, DateInv, AccessInv
<1>5. pc'["task"] = "held" /\ pc["task"] = "held" => c # "task"
  BY DEF DateInv, MutexInv, MaskInv, TypeOK, RtcGuardStep, GuardStep, TryLock, TryLockFails,
         DropGuard, Reenable, UnlockInner, Goto, At, vars, Contexts
<1>6. c = "handler" => pc["task"] # "held"
  BY DEF DateInv, MutexInv, MaskInv, RtcGuardStep, GuardStep, TryLock, TryLockFails,
         DropGuard, Reenable, UnlockInner, At
<1>7. acc' = [acc EXCEPT ![c] = 1] /\ acc \in [Contexts -> 1 .. 8] /\ 1 \in 1 .. 8
  BY DEF DateInv, AccessInv, RtcTypeOK, RtcGuardStep
<1>8. acc'[c] = 1 /\ acc' \in [Contexts -> 1 .. 8] /\ \A k \in Contexts : k # c => acc'[k] = acc[k]
  BY <1>7
<1>9. /\ \A k \in Contexts : Accesses(k)' = Accesses(k)
      /\ \A k \in Contexts : Len(Accesses(k)) \in {1, 5, 7}
  BY <1>3, AccessCount DEF Accesses
<1>10. \A k \in Contexts : acc'[k] <= Len(Accesses(k)) + 1
  <2>1. \A n \in {1, 5, 7} : 1 <= n + 1
    OBVIOUS
  <2> QED
    BY <1>8, <1>9, <2>1, Zenon DEF DateInv, AccessInv
<1>11. RtcTypeOK'
  <2>1. since' \in 0 .. MaxDate
    BY DEF DateInv, AccessInv, RtcTypeOK, RtcGuardStep
  <2> QED
    BY <1>1, <1>8, <2>1, ZenonT(30)
       DEF DateInv, AccessInv, RtcTypeOK, RtcGuardStep, MutexInv, MaskInv, modeVars
<1>12. pc'["task"] = "held" => c = "task"
  BY <1>2, <1>6 DEF Contexts
<1>13. AccessInv'
  BY <1>2, <1>4, <1>8, <1>9, <1>10, <1>11, <1>12
     DEF DateInv, AccessInv, RtcGuardStep, Done, Contexts
<1>14. since' <= date'
  BY DEF RtcGuardStep, DateInv, PassInv, AccessInv, RtcTypeOK
<1>15. PassInv'
  BY <1>8, <1>12, <1>14 DEF DateInv, PassInv, RtcGuardStep, Reading, modeVars, Fields
<1> QED BY <1>1, <1>13, <1>15 DEF DateInv

\* Boot, the clock task and the executor's idle path; the interrupt.
LEMMA CallsInv ==
  ASSUME DateInv, TaskCalls \/ Interrupted
  PROVE  DateInv'
<1>1. MutexInv'
  BY MutexStep DEF DateInv, TaskCalls, Interrupted, Next
<1>2. UNCHANGED <<accessVars, dateVars, modeVars, pf>> /\ irq' \in BOOLEAN
  BY Zenon DEF TaskCalls, Interrupted, rtcVars, DateInv, AccessInv, RtcTypeOK
<1>3. pc["task"] \in {"held", "try"} =>
        UNCHANGED <<boot, boot_guards>> /\ pc'["task"] = pc["task"]
  BY DEF DateInv, MutexInv, MaskInv, TypeOK, TaskCalls, Interrupted, BootLock, SleepIfIdle,
         TaskLock, ClockInterrupt, Goto, At, Contexts
<1>4. \A k \in Contexts : pc[k] # "held" => pc'[k] # "held"
  BY DEF DateInv, MutexInv, MaskInv, TypeOK, TaskCalls, Interrupted, BootLock, SleepIfIdle,
         TaskLock, ClockInterrupt, Goto, At, Contexts
<1>5. \A k \in Contexts : pc[k] = "held" => pc'[k] = "held"
  BY DEF DateInv, MutexInv, MaskInv, TypeOK, TaskCalls, Interrupted, BootLock, SleepIfIdle,
         TaskLock, ClockInterrupt, Goto, At, Contexts
<1>6. /\ \A k \in Contexts : pc[k] = "held" => Accesses(k)' = Accesses(k)
      /\ Accesses("handler")' = Accesses("handler")
  BY <1>3 DEF Accesses, Contexts
<1>7. \A k \in Contexts : Len(Accesses(k)') \in {1, 5, 7}
  BY AccessCount DEF Accesses
<1>8. \A n \in {1, 5, 7} : 1 <= n + 1
  OBVIOUS
<1>9. \A k \in Contexts : acc'[k] <= Len(Accesses(k)') + 1
  <2> SUFFICES ASSUME NEW k \in Contexts PROVE acc'[k] <= Len(Accesses(k)') + 1
    OBVIOUS
  <2>1. CASE pc[k] = "held"
    BY <1>2, <1>6, <2>1 DEF DateInv, AccessInv, accessVars
  <2>2. CASE pc[k] # "held"
    <3>1. acc'[k] = 1
      BY <1>2, <2>2 DEF DateInv, AccessInv, accessVars
    <3> QED BY <1>7, <1>8, <3>1, Zenon
  <2> QED BY <2>1, <2>2
<1>10. RtcTypeOK'
  BY <1>1, <1>2
     DEF DateInv, AccessInv, RtcTypeOK, MutexInv, MaskInv, modeVars, accessVars, dateVars
<1>11. \A k \in Contexts : Done(k)' => ~selected'[k]
  BY <1>2, <1>6 DEF DateInv, AccessInv, accessVars, Done
<1>12. AccessInv'
  BY <1>2, <1>4, <1>5, <1>6, <1>9, <1>10, <1>11
     DEF DateInv, AccessInv, accessVars, dateVars, Access, Contexts
<1>13. Reading' => Reading
  BY <1>3, <1>4 DEF Reading, Contexts
<1>14. PassInv'
  BY <1>2, <1>13 DEF DateInv, PassInv, accessVars, dateVars, modeVars, Raw, Fields, Valid
<1> QED BY <1>1, <1>12, <1>14 DEF DateInv

\* The chip's updates: one that begins in a pass is young, and does not end in it.
LEMMA UpdateInv ==
  ASSUME DateInv, Update
  PROVE  DateInv'
<1>1. MutexInv' /\ UNCHANGED vars
  BY StutterInv DEF DateInv, Update, UpdateBegin, UpdateEnd, UpdateField
<1>2. UNCHANGED <<accessVars, modeVars, pf, irq>>
  BY DEF Update, UpdateBegin, UpdateEnd, UpdateField
<1>3. uip => Fields(date + 1) \in [{"seconds", "minutes"} -> Nat]
  <2>1. uip => date + 1 \in 0 .. MaxDate
    BY RtcAssumption DEF DateInv, AccessInv, RtcTypeOK, PassInv
  <2>2. chip \in Chips
    BY DEF DateInv, AccessInv, RtcTypeOK
  <2> QED BY <2>1, <2>2, FieldsType
<1>4. shown' \in [{"seconds", "minutes"} -> Nat]
  BY <1>3 DEF DateInv, AccessInv, RtcTypeOK, Update, UpdateBegin, UpdateEnd, UpdateField
<1>6. date' \in 0 .. MaxDate /\ date <= date' /\ date \in Nat /\ since \in Nat
  BY RtcAssumption
     DEF DateInv, AccessInv, RtcTypeOK, PassInv, Update, UpdateBegin, UpdateEnd, UpdateField
<1>7. uip' \in BOOLEAN /\ young' \in BOOLEAN
  BY Zenon DEF DateInv, AccessInv, RtcTypeOK, MutexInv, MaskInv, TypeOK, Update, UpdateBegin,
         UpdateEnd, UpdateField
<1>8. RtcTypeOK'
  BY <1>1, <1>2, <1>4, <1>6, <1>7
     DEF DateInv, AccessInv, RtcTypeOK, MutexInv, MaskInv, modeVars, accessVars
<1>9. AccessInv'
  BY <1>1, <1>2, <1>4, <1>8
     DEF DateInv, AccessInv, vars, accessVars, Accesses, Access, Done
<1>10. (uip' => date' < MaxDate') /\ (~uip' => shown' = Fields(date)') /\ since' <= date'
  BY <1>2, <1>6 DEF DateInv, PassInv, accessVars, Update, UpdateBegin, UpdateEnd, UpdateField,
                    Fields, modeVars
<1>11. Reading' = Reading /\ (Reading => ~interrupts)
  BY <1>1 DEF vars, Reading, DateInv, MutexInv, MaskInv, Contexts
<1>12. Reading /\ acc["task"] \in 2 .. 5 => uip' /\ young'
  <2> SUFFICES ASSUME Reading, acc["task"] \in 2 .. 5 PROVE uip' /\ young'
    OBVIOUS
  <2>1. uip => young
    BY DEF DateInv, PassInv
  <2>2. CASE UpdateBegin
    BY <1>11, <2>2, Zenon DEF UpdateBegin
  <2>3. CASE UpdateEnd
    BY <2>1, <2>3, Zenon DEF UpdateEnd
  <2>4. CASE \E f \in {"seconds", "minutes"} : UpdateField(f)
    BY <2>1, <2>4 DEF UpdateField
  <2> QED BY <2>2, <2>3, <2>4 DEF Update
<1>13. Reading /\ acc["task"] = 6 =>
         Valid(time') /\ \E d \in since' .. date' : time' = Fields(d)'
  BY <1>2, <1>6 DEF DateInv, PassInv, accessVars, modeVars, Fields, Valid
<1>14. PassInv'
  BY <1>2, <1>10, <1>11, <1>12, <1>13 DEF PassInv, accessVars, Valid
<1> QED BY <1>1, <1>9, <1>14 DEF DateInv

\* The periodic interrupt, and the steps of the rest of the machine.
LEMMA PeriodicInv ==
  ASSUME DateInv, Periodic \/ UNCHANGED allVars
  PROVE  DateInv'
<1>1. MutexInv' /\ UNCHANGED <<vars, accessVars, dateVars, modeVars>>
  BY StutterInv DEF DateInv, Periodic, allVars, rtcVars
<1>2. pf' \in BOOLEAN /\ irq' \in BOOLEAN
  BY ZenonT(30) DEF Periodic, allVars, rtcVars, DateInv, AccessInv, RtcTypeOK
<1>3. AccessInv'
  BY <1>1, <1>2 DEF DateInv, AccessInv, RtcTypeOK, MutexInv, MaskInv, vars, accessVars,
                    dateVars, modeVars, Accesses, Access, Done
<1>4. PassInv'
  BY <1>1, Zenon DEF DateInv, PassInv, vars, accessVars, dateVars, modeVars, Reading, Raw, Fields, Valid
<1> QED BY <1>1, <1>3, <1>4 DEF DateInv

\* The chip at rest, the guards not yet taken.
LEMMA DateInitially == RtcInit => DateInv
<1> SUFFICES ASSUME RtcInit PROVE DateInv
  OBVIOUS
<1>1. MutexInv
  BY MutexInitially DEF RtcInit
<1>2. Fields(0) \in [{"seconds", "minutes"} -> Nat]
      /\ Fields(0)["seconds"] \in Nat /\ Fields(0)["minutes"] \in Nat
  <2>1. chip \in Chips /\ 0 \in 0 .. MaxDate
    BY RtcAssumption DEF RtcInit
  <2> QED BY <2>1, FieldsType
<1>3. 1 \in 1 .. 8 /\ 0 \in 0 .. MaxDate
  BY RtcAssumption
<1>4. acc \in [Contexts -> 1 .. 8] /\ selected \in [Contexts -> BOOLEAN]
  BY <1>3 DEF RtcInit
<1>5. {uip, young, bcd_only, binary, pie, pf, irq} \subseteq BOOLEAN
  BY ZenonT(30) DEF RtcInit
<1>6. RtcTypeOK
  BY <1>1, <1>2, <1>3, <1>4, <1>5 DEF RtcInit, RtcTypeOK, MutexInv, MaskInv
<1>7. \A k \in Contexts : pc[k] = "idle" /\ acc[k] = 1 /\ ~selected[k]
  BY DEF RtcInit, Init
<1>8. \A k \in Contexts : Len(Accesses(k)) \in {1, 5, 7}
  BY AccessCount DEF Accesses
<1>9. \A n \in {1, 5, 7} : 1 <= n + 1
  OBVIOUS
<1>10. \A k \in Contexts : acc[k] <= Len(Accesses(k)) + 1
  BY <1>7, <1>8, <1>9, ZenonT(30)
<1>11. AccessInv
  BY <1>2, <1>6, <1>7, <1>10 DEF RtcInit, AccessInv, Contexts
<1>12. PassInv
  BY <1>3, <1>7 DEF RtcInit, PassInv, Reading, Contexts
<1> QED BY <1>1, <1>11, <1>12 DEF DateInv

\* DateInv is an invariant of the clock.
LEMMA DateInvariant == RtcSpec => []DateInv
<1>1. ASSUME DateInv, [RtcNext]_allVars PROVE DateInv'
  BY <1>1, SelectRegInv, TransferInv, RtcGuardStepInv, CallsInv, UpdateInv, PeriodicInv
     DEF RtcNext, AccessStep
<1> QED BY <1>1, DateInitially, PTL DEF RtcSpec

\* Whoever holds the guard of the clock has interrupts masked, and the handler never
\* finds the lock taken by the task it interrupted (IntMutex::try_lock, spin_lock,
\* IntMutexGuard's drop): for any number of guards boot takes, any width of the count
\* and any number of calls the width has room for.
THEOREM HandlerGoesOn == RtcSpec => []HandlerNeverSpins
<1>1. DateInv => HandlerNeverSpins
  BY DEF DateInv, MutexInv, MaskInv, CountInv, HandlerNeverSpins, Contexts
<1> QED BY <1>1, DateInvariant, PTL

\* read_date_time returns a date, and one the chip showed as a whole since the guard
\* was taken, in either format of the registers, whatever the chip goes through and
\* however its updates fall between the accesses.
THEOREM ReadDateIsWhole == RtcSpec => []DateIsWhole
<1>1. DateInv => DateIsWhole
  <2> SUFFICES ASSUME DateInv, pc["task"] = "held", Accesses("task") = ReadAccesses,
                      Done("task")
               PROVE  Valid(time) /\ \E d \in since .. date : time = Fields(d)
    BY DEF DateInv, AccessInv, DateIsWhole
  <2>1. Reading
    BY AccessCount DEF Accesses, Reading
  <2> QED
    BY <2>1, ReadingAccess DEF DateInv, PassInv
<1> QED BY <1>1, DateInvariant, PTL
=============================================================================
