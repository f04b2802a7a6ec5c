------------------------------ MODULE Executor ------------------------------
(***************************************************************************)
(* The cooperative executor (task/executor.rs, task/mod.rs) on its one     *)
(* CPU, with the interrupt handlers that wake tasks.  Handlers run behind  *)
(* interrupt gates, so a handler is one step, taken whenever the interrupt *)
(* flag is set; everything the executor and the polled task do is a step   *)
(* of its own, so a handler may come between any two of them.              *)
(* task_waker_list's mutex is taken by run_ready_tasks alone and is never  *)
(* waited for; it is left out.                                             *)
(***************************************************************************)
EXTENDS Naturals, Sequences, Functions

CONSTANTS MaxTasks,   \* bound: how many tasks are ever spawned
          MaxQueue    \* bound: no task or handler wakes when this many wakes wait

ASSUME BoundsAssumption == MaxTasks \in Nat \ {0} /\ MaxQueue \in Nat

VARIABLES
  next_id,          \* NEXT_ID
  spawn_queue,      \* spawn_queue: the identifiers of the queued Tasks
  task_queue,       \* task_queue
  task_waker_list,  \* the keys of task_waker_list: the unfinished tasks
  registered,       \* tasks whose Waker some event source holds
  interrupts,       \* the CPU's interrupt flag
  halted,           \* the CPU sits in hlt
  pc,               \* where run() is
  task_id           \* the task last popped in run_ready_tasks

vars == <<next_id, spawn_queue, task_queue, task_waker_list, registered,
          interrupts, halted, pc, task_id>>
taskVars == <<next_id, spawn_queue, task_waker_list, registered, task_id>>

Ids == 0 .. MaxTasks - 1
Woken == Range(task_queue)

TypeOK == /\ next_id \in 0 .. MaxTasks
          /\ spawn_queue \in Seq(Ids)
          /\ task_queue \in Seq(Ids)
          /\ task_waker_list \subseteq Ids
          /\ registered \subseteq Ids
          /\ interrupts \in BOOLEAN
          /\ halted \in BOOLEAN
          /\ pc \in {"boot", "drain", "pop", "poll", "idle", "check"}
          /\ task_id \in Ids

\* Executor::new, and boot with interrupts masked.
Init == /\ next_id = 0
        /\ spawn_queue = <<>>
        /\ task_queue = <<>>
        /\ task_waker_list = {}
        /\ registered = {}
        /\ interrupts = FALSE
        /\ halted = FALSE
        /\ pc = "boot"
        /\ task_id = 0
-----------------------------------------------------------------------------
(* spawn, from kernel_main before run() or from a task being polled.       *)

\* Mutation: the identifier is read but NEXT_ID is not advanced every time.
SpawnStuckId ==
  /\ pc \in {"boot", "poll"}
  /\ next_id < MaxTasks
  /\ spawn_queue' = Append(spawn_queue, next_id)
  /\ next_id' \in {next_id, next_id + 1}
  /\ UNCHANGED <<task_queue, task_waker_list, registered, interrupts, halted,
                 pc, task_id>>

\* Mutation: the identifier is NEXT_ID after the addition, not before it.
SpawnNewValue ==
  /\ pc \in {"boot", "poll"}
  /\ next_id < MaxTasks
  /\ spawn_queue' = Append(spawn_queue, next_id + 1)
  /\ next_id' = next_id + 1
  /\ UNCHANGED <<task_queue, task_waker_list, registered, interrupts, halted,
                 pc, task_id>>

Spawn ==
  /\ pc \in {"boot", "poll"}
  /\ next_id < MaxTasks
  /\ spawn_queue' = Append(spawn_queue, next_id)
  /\ next_id' = next_id + 1
  /\ UNCHANGED <<task_queue, task_waker_list, registered, interrupts, halted,
                 pc, task_id>>

Run == /\ pc = "boot"
       /\ pc' = "drain"
       /\ UNCHANGED <<taskVars, task_queue, interrupts, halted>>
-----------------------------------------------------------------------------
(* run_ready_tasks: first the spawn queue, then the ready queue.           *)

\* Mutation: a task taken from the spawn queue is not queued for its first poll.
DrainSpawnNoPush ==
  /\ pc = "drain" /\ ~halted
  /\ spawn_queue # <<>>
  /\ spawn_queue' = Tail(spawn_queue)
  /\ task_waker_list' = task_waker_list \cup {Head(spawn_queue)}
  /\ UNCHANGED <<next_id, task_queue, registered, interrupts, halted, pc, task_id>>

DrainSpawn ==
  /\ pc = "drain" /\ ~halted
  /\ spawn_queue # <<>>
  /\ spawn_queue' = Tail(spawn_queue)
  /\ task_waker_list' = task_waker_list \cup {Head(spawn_queue)}
  /\ task_queue' = Append(task_queue, Head(spawn_queue))
  /\ UNCHANGED <<next_id, registered, interrupts, halted, pc, task_id>>

DrainDone ==
  /\ pc = "drain" /\ ~halted
  /\ spawn_queue = <<>>
  /\ pc' = "pop"
  /\ UNCHANGED <<taskVars, task_queue, interrupts, halted>>

\* Mutation: the newest wake is served first.
PopTaskLifo ==
  /\ pc = "pop"
  /\ task_queue # <<>>
  /\ task_id' = task_queue[Len(task_queue)]
  /\ task_queue' = SubSeq(task_queue, 1, Len(task_queue) - 1)
  /\ pc' = IF task_id' \in task_waker_list THEN "poll" ELSE "pop"
  /\ UNCHANGED <<next_id, spawn_queue, task_waker_list, registered, interrupts,
                 halted>>

\* A wake of a finished task is reported and skipped.
PopTask ==
  /\ pc = "pop"
  /\ task_queue # <<>>
  /\ task_id' = Head(task_queue)
  /\ task_queue' = Tail(task_queue)
  /\ pc' = IF task_id' \in task_waker_list THEN "poll" ELSE "pop"
  /\ UNCHANGED <<next_id, spawn_queue, task_waker_list, registered, interrupts,
                 halted>>

PopEmpty ==
  /\ pc = "pop"
  /\ task_queue = <<>>
  /\ pc' = "idle"
  /\ UNCHANGED <<taskVars, task_queue, interrupts, halted>>

PollReady ==
  /\ pc = "poll"
  /\ task_waker_list' = task_waker_list \ {task_id}
  /\ pc' = "pop"
  /\ UNCHANGED <<next_id, spawn_queue, task_queue, registered, interrupts,
                 halted, task_id>>

\* Mutation: the wakes that arrived during the poll are taken for answered.
PollPendingDedup ==
  /\ pc = "poll"
  /\ task_id \in registered \cup Woken
  /\ task_queue' = SelectSeq(task_queue, LAMBDA t : t # task_id)
  /\ pc' = "pop"
  /\ UNCHANGED <<taskVars, interrupts, halted>>

\* A future returns Pending only after arranging for a wake (its contract).
PollPending ==
  /\ pc = "poll"
  /\ task_id \in registered \cup Woken
  /\ pc' = "pop"
  /\ UNCHANGED <<taskVars, task_queue, interrupts, halted>>
-----------------------------------------------------------------------------
(* What a future does while it is polled, besides spawn.                   *)

\* It leaves a clone of its waker with a waker list, AtomicWaker or sleep map.
RegisterWaker ==
  /\ pc = "poll"
  /\ registered' = registered \cup {task_id}
  /\ UNCHANGED <<next_id, spawn_queue, task_queue, task_waker_list, interrupts,
                 halted, pc, task_id>>

\* yield_now: wake_by_ref on its own waker.
YieldNow ==
  /\ pc = "poll"
  /\ Len(task_queue) < MaxQueue
  /\ task_queue' = Append(task_queue, task_id)
  /\ UNCHANGED <<taskVars, interrupts, halted, pc>>

\* WakerList::notify_one on a guard's drop: the waker is used up.
NotifyOne(t) ==
  /\ pc = "poll"
  /\ t \in registered
  /\ Len(task_queue) < MaxQueue
  /\ task_queue' = Append(task_queue, t)
  /\ registered' = registered \ {t}
  /\ UNCHANGED <<next_id, spawn_queue, task_waker_list, interrupts, halted, pc,
                 task_id>>

\* A dropped IntMutexGuard leaves interrupts masked (module IntMutex).
LeaveMasked ==
  /\ pc = "poll"
  /\ interrupts' = FALSE
  /\ UNCHANGED <<taskVars, task_queue, halted, pc>>
-----------------------------------------------------------------------------
(* sleep_if_idle *)

Disable ==
  /\ pc = "idle"
  /\ interrupts' = FALSE
  /\ pc' = "check"
  /\ UNCHANGED <<taskVars, task_queue, halted>>

\* Mutation: halt without asking whether a task was woken meanwhile.
EnableAndHltAlways ==
  /\ pc = "check"
  /\ interrupts' = TRUE
  /\ halted' = TRUE
  /\ pc' = "drain"
  /\ UNCHANGED <<taskVars, task_queue>>

\* Mutation: run() drains the spawn queue only before its loop.
EnableAndHltNoDrain ==
  /\ pc = "check"
  /\ task_queue = <<>>
  /\ interrupts' = TRUE
  /\ halted' = TRUE
  /\ pc' = "pop"
  /\ UNCHANGED <<taskVars, task_queue>>

\* sti; hlt: no interrupt is taken between the two.
EnableAndHlt ==
  /\ pc = "check"
  /\ task_queue = <<>>
  /\ interrupts' = TRUE
  /\ halted' = TRUE
  /\ pc' = "drain"
  /\ UNCHANGED <<taskVars, task_queue>>

Enable ==
  /\ pc = "check"
  /\ task_queue # <<>>
  /\ interrupts' = TRUE
  /\ pc' = "drain"
  /\ UNCHANGED <<taskVars, task_queue, halted>>
-----------------------------------------------------------------------------
(* Interrupt handlers; each ends a hlt.                                    *)

\* wake_sleep or add_scancode wakes a task: wake_task pushes its identifier.
WakeInterrupt(t) ==
  /\ interrupts
  /\ t \in registered
  /\ Len(task_queue) < MaxQueue
  /\ task_queue' = Append(task_queue, t)
  /\ registered' = registered \ {t}
  /\ halted' = FALSE
  /\ UNCHANGED <<next_id, spawn_queue, task_waker_list, interrupts, pc, task_id>>

\* A tick, or a scancode nobody waits for.
IdleInterrupt ==
  /\ interrupts
  /\ halted' = FALSE
  /\ UNCHANGED <<taskVars, task_queue, interrupts, pc>>
-----------------------------------------------------------------------------
RunReadyTasks == DrainSpawn \/ DrainDone \/ PopTask \/ PopEmpty
SleepIfIdle == Disable \/ EnableAndHlt \/ Enable
PollReturns == PollReady \/ PollPending

Next == \/ Spawn \/ Run \/ RunReadyTasks \/ PollReturns \/ SleepIfIdle
        \/ RegisterWaker \/ YieldNow \/ LeaveMasked
        \/ \E t \in Ids : NotifyOne(t) \/ WakeInterrupt(t)
        \/ IdleInterrupt

(***************************************************************************)
(* The CPU executes, a poll returns, and the real-time clock interrupts    *)
(* periodically: rtc::init programs it to, and every tick is acknowledged. *)
(***************************************************************************)
Fairness == /\ WF_vars(Run) /\ WF_vars(RunReadyTasks) /\ WF_vars(PollReturns)
            /\ WF_vars(SleepIfIdle) /\ WF_vars(IdleInterrupt)

Spec == Init /\ [][Next]_vars
FairSpec == Spec /\ Fairness
-----------------------------------------------------------------------------
(* Properties *)

\* The CPU never halts with interrupts masked or with a task ready to run: a
\* wake between the empty pop and sleep_if_idle's disable is seen by its check.
HaltIsWakeable == halted => interrupts /\ task_queue = <<>>

\* TaskId::new never hands out an identifier twice: the spawn queue holds no
\* identifier twice, and none that insert into task_waker_list would replace.
TaskIdentity ==
  /\ IsInjective(spawn_queue)
  /\ Range(spawn_queue) \cap task_waker_list = {}
  /\ Range(spawn_queue) \cup task_waker_list \subseteq 0 .. next_id - 1

\* No wake is lost: an unfinished task is being polled, is in the ready queue, or
\* an event source still holds its waker, whenever the handler interrupts the poll.
NoLostWakeup ==
  \A t \in task_waker_list :
    t \in Woken \cup registered \/ (pc = "poll" /\ task_id = t)

\* A woken unfinished task is eventually polled, whatever the other tasks do:
\* the ready queue is first in, first out and tasks that yield queue up behind.
WokenIsPolled ==
  \A t \in Ids : (t \in task_waker_list /\ t \in Woken)
                    ~> (pc = "poll" /\ task_id = t)

\* A task spawned by a running task is started, if the ready queue ever runs
\* empty again: run_ready_tasks looks at the spawn queue only once per call.
SpawnedStarts ==
  []<>(pc = "idle") =>
    \A t \in Ids : t \in Range(spawn_queue) ~> t \in task_waker_list

Lifecycle == INSTANCE TaskLifecycle WITH
  spawned  <- Range(spawn_queue),
  live     <- task_waker_list,
  finished <- (0 .. next_id - 1) \ (Range(spawn_queue) \cup task_waker_list),
  woken    <- Woken,
  polling  <- IF pc = "poll" THEN {task_id} ELSE {}

\* The executor keeps the promise of TaskLifecycle: every step of it is one of
\* the abstract steps or invisible.
ImplementsLifecycle == Lifecycle!ASpec
=============================================================================
