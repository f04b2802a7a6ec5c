------------------------------ MODULE IntMutex ------------------------------
(***************************************************************************)
(* IntMutex<T> (util/async/mutex.rs) as its one instance, RTC, is used:    *)
(* twice during boot with interrupts masked (rtc::init, kernel_main), then *)
(* by the clock task and by clock_interrupt_handler on the same core.      *)
(* The count of guards is a usize that wraps, here modulo W.               *)
(* A step of the "task" context is taken only while no handler runs.  The  *)
(* task never awaits with the guard, so it never finds the lock taken, and *)
(* the waker list stays empty.  An execution in which boot takes no guard  *)
(* shows the type as such: there drop finds the count at one.              *)
(***************************************************************************)
EXTENDS Integers

CONSTANTS BootGuards,  \* numbers of guards taken before interrupts are enabled
          W,           \* one more than the greatest value of NUM_GUARDS
          MaxCalls     \* bound: guards taken after boot

\* The bound keeps the count from wrapping all the way round to 1, which takes
\* the 64-bit counter longer than the machine lives.
ASSUME IntMutexAssumption ==
  /\ BootGuards \subseteq Nat /\ W \in Nat /\ MaxCalls \in Nat
  /\ \A b \in BootGuards : b + MaxCalls + 2 < W

VARIABLES
  interrupts,       \* the interrupt flag
  locked,           \* the inner Mutex
  NUM_GUARDS, SHOULD_REENABLE,
  pc,               \* where the task and the handler are
  enabled,          \* what are_enabled returned in each context's try_lock
  boot_guards,      \* guards boot takes, one of BootGuards
  boot,             \* how many of them are still to be taken
  calls             \* guards taken after boot

vars == <<interrupts, locked, NUM_GUARDS, SHOULD_REENABLE, pc, enabled,
          boot_guards, boot, calls>>

Contexts == {"task", "handler"}

TypeOK == /\ interrupts \in BOOLEAN /\ locked \in BOOLEAN
          /\ NUM_GUARDS \in 0 .. W - 1 /\ SHOULD_REENABLE \in BOOLEAN
          /\ pc \in [Contexts -> {"idle", "try", "held", "reenable", "unlock"}]
          /\ enabled \in [Contexts -> BOOLEAN]
          /\ boot_guards \in BootGuards /\ boot \in 0 .. boot_guards
          /\ calls \in 0 .. MaxCalls

Init == /\ interrupts = FALSE /\ locked = FALSE
        /\ NUM_GUARDS = 0 /\ SHOULD_REENABLE = FALSE
        /\ pc = [c \in Contexts |-> "idle"]
        /\ enabled = [c \in Contexts |-> FALSE]
        /\ boot_guards \in BootGuards /\ boot = boot_guards /\ calls = 0

Goto(c, l) == pc' = [pc EXCEPT ![c] = l]
At(c, l) == pc[c] = l /\ (c = "task" => pc["handler"] = "idle")
-----------------------------------------------------------------------------
\* Mutation: every guard is counted, whether interrupts were enabled or not.
TryLockCountsAll(c) ==
  /\ At(c, "try")
  /\ ~locked
  /\ enabled' = [enabled EXCEPT ![c] = interrupts]
  /\ interrupts' = FALSE
  /\ locked' = TRUE
  /\ NUM_GUARDS' = (NUM_GUARDS + 1) % W
  /\ SHOULD_REENABLE' = (SHOULD_REENABLE \/ interrupts)
  /\ Goto(c, "held")
  /\ UNCHANGED <<boot_guards, boot, calls>>

\* IntMutex::try_lock that succeeds: a guard is counted when interrupts were on.
TryLock(c) ==
  /\ At(c, "try")
  /\ ~locked
  /\ enabled' = [enabled EXCEPT ![c] = interrupts]
  /\ interrupts' = FALSE
  /\ locked' = TRUE
  /\ NUM_GUARDS' = IF interrupts THEN (NUM_GUARDS + 1) % W ELSE NUM_GUARDS
  /\ SHOULD_REENABLE' = (SHOULD_REENABLE \/ interrupts)
  /\ Goto(c, "held")
  /\ UNCHANGED <<boot_guards, boot, calls>>

\* One that fails restores the flag; spin_lock goes on trying.
TryLockFails(c) ==
  /\ At(c, "try")
  /\ locked
  /\ UNCHANGED vars

\* IntMutexGuard's drop: the count ...
DropGuard(c) ==
  /\ At(c, "held")
  /\ NUM_GUARDS' = (NUM_GUARDS + W - 1) % W
  /\ Goto(c, IF NUM_GUARDS = 1 /\ SHOULD_REENABLE THEN "reenable" ELSE "unlock")
  /\ UNCHANGED <<interrupts, locked, SHOULD_REENABLE, enabled, boot_guards, boot, calls>>

\* ... the flag, if this was the last guard ...
Reenable(c) ==
  /\ At(c, "reenable")
  /\ SHOULD_REENABLE' = FALSE
  /\ interrupts' = TRUE
  /\ Goto(c, "unlock")
  /\ UNCHANGED <<locked, NUM_GUARDS, enabled, boot_guards, boot, calls>>

\* ... and then the field: MutexGuard's drop.  The handler returns after it, and
\* iret restores the flag.
UnlockInner(c) ==
  /\ At(c, "unlock")
  /\ locked' = FALSE
  /\ interrupts' = (interrupts \/ c = "handler")
  /\ Goto(c, "idle")
  /\ UNCHANGED <<NUM_GUARDS, SHOULD_REENABLE, enabled, boot_guards, boot, calls>>
-----------------------------------------------------------------------------
\* rtc::init and kernel_main, then draw_clock, take the lock.
BootLock ==
  /\ boot > 0 /\ At("task", "idle")
  /\ boot' = boot - 1
  /\ Goto("task", "try")
  /\ UNCHANGED <<interrupts, locked, NUM_GUARDS, SHOULD_REENABLE, enabled, boot_guards, calls>>

TaskLock ==
  /\ boot = 0 /\ At("task", "idle")
  /\ calls < MaxCalls
  /\ calls' = calls + 1
  /\ Goto("task", "try")
  /\ UNCHANGED <<interrupts, locked, NUM_GUARDS, SHOULD_REENABLE, enabled, boot_guards, boot>>

\* Mutation: sleep_if_idle restores the flag instead of setting it.
IdleRestores ==
  /\ boot = 0 /\ At("task", "idle")
  /\ UNCHANGED vars

\* No task is ready: sleep_if_idle enables interrupts.
SleepIfIdle ==
  /\ boot = 0 /\ At("task", "idle")
  /\ interrupts' = TRUE
  /\ UNCHANGED <<locked, NUM_GUARDS, SHOULD_REENABLE, pc, enabled, boot_guards, boot, calls>>

\* clock_interrupt_handler, which ends with RTC.spin_lock().clear_interrup_mask().
ClockInterrupt ==
  /\ interrupts /\ pc["handler"] = "idle"
  /\ calls < MaxCalls
  /\ calls' = calls + 1
  /\ interrupts' = FALSE
  /\ Goto("handler", "try")
  /\ UNCHANGED <<locked, NUM_GUARDS, SHOULD_REENABLE, enabled, boot_guards, boot>>

GuardStep(c) == \/ TryLock(c) \/ TryLockFails(c)
                \/ DropGuard(c) \/ Reenable(c) \/ UnlockInner(c)

Next == \/ \E c \in Contexts : GuardStep(c)
        \/ BootLock \/ TaskLock \/ SleepIfIdle \/ ClockInterrupt

Spec == Init /\ [][Next]_vars
-----------------------------------------------------------------------------
(* Properties *)

\* Whoever holds the guard runs with interrupts masked, as select_reg's
\* debug_assert demands of every access to the CMOS registers, and the handler never 
\* finds the lock taken by the task it interrupted, which could not release it any
\* more.  drop unlocks after it may have enabled interrupts; what keeps the handler
\* out is the count that boot has left below zero.
HandlerNeverSpins ==
  /\ \A c \in Contexts : pc[c] = "held" => ~interrupts
  /\ boot_guards > 0 => ~(pc["handler"] = "try" /\ locked)

\* The drop of the last guard restores what its try_lock found.
LastGuardRestores ==
  [][pc["task"] = "unlock" /\ pc'["task"] = "idle" /\ enabled["task"]
       => interrupts']_vars
=============================================================================
