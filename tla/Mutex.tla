------------------------------- MODULE Mutex -------------------------------
(***************************************************************************)
(* Mutex<T> and its WakerList (util/async/mutex.rs, waker_list.rs): one    *)
(* mutex, tasks that take it with lock().await, try_lock or spin_lock and  *)
(* may await while they hold the guard.  Every atomic operation and queue  *)
(* operation is a step.  On one core (the kernel of today) a task runs     *)
(* until it awaits; with more cores, steps of several tasks interleave.    *)
(***************************************************************************)
EXTENDS Naturals, Sequences, FiniteSets

CONSTANTS Tasks,
          Settings,   \* the ways in which the mutex is used, see SettingType
          MaxList     \* bound: wakers queued when a task is polled without a wake

\* How many tasks run at a time, the operations they call, whether a waiting task
\* may be polled although nobody woke it, and, a bound, the calls each task makes.
SettingType == [cores : Nat \ {0},
                modes : SUBSET {"lock", "try_lock", "spin_lock"},
                spurious : BOOLEAN,
                calls : Nat]

ASSUME MutexAssumption ==
  Settings \subseteq SettingType /\ MaxList \in Nat

VARIABLES
  setting,      \* the one of Settings that this execution is in
  locked,       \* the AtomicBool
  wakeup_list,  \* WakerList: the tasks whose wakers are queued
  pc,           \* where each task is in its call
  mode,         \* which operation the call is
  running,      \* the tasks on a core
  woken,        \* tasks woken and not polled since
  ops           \* calls made by each task

vars == <<setting, locked, wakeup_list, pc, mode, running, woken, ops>>
sched == <<setting, mode, running, woken, ops>>

TypeOK == /\ setting \in Settings
          /\ locked \in BOOLEAN
          /\ wakeup_list \in Seq(Tasks)
          /\ pc \in [Tasks -> {"idle", "locker", "register", "pending",
                               "load", "cas", "held", "notify"}]
          /\ mode \in [Tasks -> {"lock", "try_lock", "spin_lock"}]
          /\ running \subseteq Tasks
          /\ woken \subseteq Tasks
          /\ ops \in [Tasks -> 0 .. setting.calls]

Init == /\ setting \in Settings
        /\ locked = FALSE
        /\ wakeup_list = <<>>
        /\ pc = [t \in Tasks |-> "idle"]
        /\ mode = [t \in Tasks |-> "lock"]
        /\ running = {}
        /\ woken = {}
        /\ ops = [t \in Tasks |-> 0]

Goto(t, l) == pc' = [pc EXCEPT ![t] = l]
At(t, l) == pc[t] = l /\ t \in running
CoreFree == Cardinality(running) < setting.cores
-----------------------------------------------------------------------------
\* A task calls lock, try_lock or spin_lock.
Call(t, m) ==
  /\ pc[t] = "idle" /\ CoreFree
  /\ ops[t] < setting.calls
  /\ ops' = [ops EXCEPT ![t] = @ + 1]
  /\ mode' = [mode EXCEPT ![t] = m]
  /\ running' = running \cup {t}
  /\ Goto(t, IF m = "lock" THEN "locker" ELSE "load")
  /\ UNCHANGED <<setting, locked, wakeup_list, woken>>

\* MutexLocker::poll: the look at the lock ...
LockerLoad(t) ==
  /\ At(t, "locker")
  /\ Goto(t, IF locked THEN "register" ELSE "load")
  /\ UNCHANGED <<locked, wakeup_list, sched>>

\* ... and WakerList::register, after which the task waits.
Register(t) ==
  /\ At(t, "register")
  /\ wakeup_list' = Append(wakeup_list, t)
  /\ running' = running \ {t}
  /\ Goto(t, "pending")
  /\ UNCHANGED <<setting, locked, mode, woken, ops>>

\* The executor polls a waiting task that was woken, or that was not.
Poll(t) ==
  /\ pc[t] = "pending" /\ t \notin running /\ CoreFree
  /\ t \in woken
  /\ woken' = woken \ {t}
  /\ running' = running \cup {t}
  /\ Goto(t, "locker")
  /\ UNCHANGED <<setting, locked, wakeup_list, mode, ops>>

PollSpurious(t) ==
  /\ setting.spurious /\ Len(wakeup_list) < MaxList
  /\ pc[t] = "pending" /\ t \notin running /\ CoreFree
  /\ running' = running \cup {t}
  /\ Goto(t, "locker")
  /\ UNCHANGED <<setting, locked, wakeup_list, mode, woken, ops>>

\* A failed try_lock: lock awaits again, spin_lock tries again, try_lock returns.
Failed(t) ==
  /\ Goto(t, CASE mode[t] = "lock" -> "locker"
               [] mode[t] = "spin_lock" -> "load"
               [] mode[t] = "try_lock" -> "idle")
  /\ running' = IF mode[t] = "try_lock" THEN running \ {t} ELSE running
  /\ UNCHANGED <<setting, locked, wakeup_list, mode, woken, ops>>

\* try_lock: the load ...
TryLoad(t) ==
  /\ At(t, "load")
  /\ \/ locked /\ Failed(t)
     \/ ~locked /\ Goto(t, "cas") /\ UNCHANGED <<locked, wakeup_list, sched>>

\* Mutation: the lock is stored, not compared and exchanged.
TryCasStore(t) ==
  /\ At(t, "cas")
  /\ locked' = TRUE
  /\ Goto(t, "held")
  /\ UNCHANGED <<wakeup_list, sched>>

\* ... and the compare_exchange_weak, which on x86 fails only if the flag is set.
TryCas(t) ==
  /\ At(t, "cas")
  /\ \/ locked /\ Failed(t)
     \/ ~locked /\ locked' = TRUE /\ Goto(t, "held")
                /\ UNCHANGED <<wakeup_list, sched>>

\* The holder awaits something else, and goes on after it.
Suspend(t) ==
  /\ At(t, "held")
  /\ running' = running \ {t}
  /\ UNCHANGED <<setting, locked, wakeup_list, pc, mode, woken, ops>>

Resume(t) ==
  /\ pc[t] = "held" /\ t \notin running /\ CoreFree
  /\ running' = running \cup {t}
  /\ UNCHANGED <<setting, locked, wakeup_list, pc, mode, woken, ops>>

\* MutexGuard's drop: the store ...
Unlock(t) ==
  /\ At(t, "held")
  /\ locked' = FALSE
  /\ Goto(t, "notify")
  /\ UNCHANGED <<wakeup_list, sched>>

\* Mutation: a guard from try_lock or spin_lock wakes nobody.
NotifyOneAsyncOnly(t) ==
  /\ At(t, "notify")
  /\ IF wakeup_list = <<>> \/ mode[t] # "lock"
       THEN UNCHANGED <<wakeup_list, woken>>
       ELSE /\ woken' = woken \cup {Head(wakeup_list)}
            /\ wakeup_list' = Tail(wakeup_list)
  /\ running' = running \ {t}
  /\ Goto(t, "idle")
  /\ UNCHANGED <<setting, locked, mode, ops>>

\* ... and WakerList::notify_one.
NotifyOne(t) ==
  /\ At(t, "notify")
  /\ IF wakeup_list = <<>>
       THEN UNCHANGED <<wakeup_list, woken>>
       ELSE /\ woken' = woken \cup {Head(wakeup_list)}
            /\ wakeup_list' = Tail(wakeup_list)
  /\ running' = running \ {t}
  /\ Goto(t, "idle")
  /\ UNCHANGED <<setting, locked, mode, ops>>

\* No task is on a core: the executor halts until the next interrupt.
Idle == running = {} /\ UNCHANGED vars

Step(t) == \/ LockerLoad(t) \/ Register(t) \/ TryLoad(t) \/ TryCas(t)
           \/ Unlock(t) \/ NotifyOne(t)

Next == \/ \E t \in Tasks : \/ \E m \in setting.modes : Call(t, m)
                            \/ Step(t) \/ Poll(t) \/ PollSpurious(t)
                            \/ Suspend(t) \/ Resume(t)
        \/ Idle

\* A running task runs, the executor polls woken tasks (WokenIsPolled of module
\* Executor), and a holder that awaits goes on in the end.
Fairness == \A t \in Tasks : /\ WF_vars(Step(t)) /\ SF_vars(Poll(t))
                             /\ SF_vars(Resume(t)) /\ SF_vars(Unlock(t))

Spec == Init /\ [][Next]_vars
FairSpec == Spec /\ Fairness
-----------------------------------------------------------------------------
(* Properties *)

MutualExclusion == \A t, u \in Tasks : pc[t] = "held" /\ pc[u] = "held" => t = u
LockedIffHeld == TypeOK /\ (locked <=> \E t \in Tasks : pc[t] = "held")

\* Mutual exclusion: at most one task holds a MutexGuard, however the loads,
\* exchanges and stores of the tasks interleave, and the flag says exactly whether
\* one does: only the holder's drop clears it.
OneGuard == MutualExclusion /\ LockedIffHeld

\* One core, as the kernel has, and polls only for wakes.
Orderly == setting.cores = 1 /\ ~setting.spurious

\* While the lock is free and a task waits for it, some task is awake to take it
\* or to pass the notification on: drop stores first and notifies after.
WaiterHasWaker ==
  (Orderly /\ ~locked /\ \E t \in Tasks : pc[t] = "pending" /\ t \notin woken) =>
    \/ running # {}
    \/ \E u \in woken : pc[u] = "pending"

\* Every lock().await returns a guard, if each task makes finitely many calls and
\* none spins on its one core.
LockReturns ==
  \A t \in Tasks : (Orderly /\ "spin_lock" \notin setting.modes /\ pc[t] = "pending")
                      ~> pc[t] = "held"
=============================================================================
