---------------------------- MODULE SleepService ----------------------------
(***************************************************************************)
(* sleep() and the clock interrupt that ends it (sleep_future.rs, and      *)
(* clock_interrupt_handler up to its acknowledgement).  Tasks run one at a *)
(* time; the handler is one step and may come between any two of theirs,   *)
(* except while register_sleep has interrupts disabled.  A task may also   *)
(* be polled for a wake that has nothing to do with its sleep.  Polls that *)
(* run with interrupts masked (module IntMutex) see fewer interleavings    *)
(* than these.                                                             *)
(***************************************************************************)
EXTENDS Naturals, FiniteSetsExt

CONSTANTS Tasks,      \* the tasks that sleep
          Durations,  \* the sleeps they ask for, in clock ticks
          MaxTime     \* bound: the clock advances no further

\* dur * TIMER_FREQ below one tick would wrap below zero in SleepFuture::new.
ASSUME SleepAssumption == Durations \subseteq Nat \ {0} /\ MaxTime \in Nat

VARIABLES
  mono,        \* MONOTONIC_TIME
  service,     \* WAKEUP_SERVICE: pairs <<tick, task>>, one per stored waker
  locked,      \* WAKEUP_SERVICE's lock
  interrupts,  \* the interrupt flag
  woken,       \* tasks a wake of wake_sleep has put in the ready queue
  running,     \* the task being polled, as a set of at most one
  pc,          \* where each task's sleep is
  end_tick, registered,  \* the fields of each task's SleepFuture
  due          \* history: the tick at which its whole duration has passed

vars == <<mono, service, locked, interrupts, woken, running, pc, end_tick,
          registered, due>>
futureVars == <<end_tick, registered, due>>

TypeOK == /\ mono \in 0 .. MaxTime
          /\ service \subseteq (0 .. MaxTime) \X Tasks
          /\ locked \in BOOLEAN /\ interrupts \in BOOLEAN
          /\ woken \subseteq Tasks
          /\ running \subseteq Tasks
          /\ pc \in [Tasks -> {"idle", "poll", "register", "locked", "pending"}]
          /\ end_tick \in [Tasks -> 0 .. MaxTime]
          /\ registered \in [Tasks -> BOOLEAN]
          /\ due \in [Tasks -> Nat]

NoSleeper ==
  /\ mono = 0 /\ service = {} /\ locked = FALSE
  /\ woken = {} /\ running = {}
  /\ pc = [t \in Tasks |-> "idle"]
  /\ end_tick = [t \in Tasks |-> 0]
  /\ registered = [t \in Tasks |-> FALSE]
  /\ due = [t \in Tasks |-> 0]

Init == NoSleeper /\ interrupts = TRUE

Goto(t, l) == pc' = [pc EXCEPT ![t] = l]
-----------------------------------------------------------------------------
\* SleepFuture::new, inside the poll that reaches sleep(); its own poll follows.
\* The guard keeps every deadline two ticks short of the bound on the clock: what the
\* bound cuts off are the behaviours that store a deadline later than all before.
New(t, d) ==
  /\ pc[t] = "idle" /\ running = {}
  /\ mono + d + 1 <= MaxTime
  /\ end_tick' = [end_tick EXCEPT ![t] = mono + (d - 1)]
  /\ registered' = [registered EXCEPT ![t] = FALSE]
  /\ due' = [due EXCEPT ![t] = mono + d]
  /\ running' = {t}
  /\ Goto(t, "poll")
  /\ UNCHANGED <<mono, service, locked, interrupts, woken>>

PollReady(t) ==
  /\ pc[t] = "poll"
  /\ mono >= end_tick[t]
  /\ running' = {}
  /\ Goto(t, "idle")
  /\ UNCHANGED <<mono, service, locked, interrupts, woken, futureVars>>

PollPending(t) ==
  /\ pc[t] = "poll"
  /\ mono < end_tick[t]
  /\ IF registered[t] THEN running' = {} /\ Goto(t, "pending")
                      ELSE UNCHANGED running /\ Goto(t, "register")
  /\ UNCHANGED <<mono, service, locked, interrupts, woken, futureVars>>

\* Mutation: the lock is taken with interrupts still enabled.
RegisterLockUnmasked(t) ==
  /\ pc[t] = "register"
  /\ ~locked
  /\ locked' = TRUE
  /\ Goto(t, "locked")
  /\ UNCHANGED <<mono, service, interrupts, woken, running, futureVars>>

RegisterLock(t) ==
  /\ pc[t] = "register"
  /\ ~locked
  /\ interrupts' = FALSE
  /\ locked' = TRUE
  /\ Goto(t, "locked")
  /\ UNCHANGED <<mono, service, woken, running, futureVars>>

\* Mutation: insert replaces the wakers another task stored for that tick.
RegisterInsertDropsOthers(t) ==
  /\ pc[t] = "locked"
  /\ service' = {e \in service : e[1] # end_tick[t]} \cup {<<end_tick[t], t>>}
  /\ locked' = FALSE
  /\ interrupts' = TRUE
  /\ registered' = [registered EXCEPT ![t] = TRUE]
  /\ running' = {}
  /\ Goto(t, "pending")
  /\ UNCHANGED <<mono, woken, end_tick, due>>

RegisterInsert(t) ==
  /\ pc[t] = "locked"
  /\ service' = service \cup {<<end_tick[t], t>>}
  /\ locked' = FALSE
  /\ interrupts' = TRUE
  /\ registered' = [registered EXCEPT ![t] = TRUE]
  /\ running' = {}
  /\ Goto(t, "pending")
  /\ UNCHANGED <<mono, woken, end_tick, due>>

\* The executor polls a sleeping task again, because wake_sleep woke it ...
PollWoken(t) ==
  /\ pc[t] = "pending" /\ running = {}
  /\ t \in woken
  /\ woken' = woken \ {t}
  /\ running' = {t}
  /\ Goto(t, "poll")
  /\ UNCHANGED <<mono, service, locked, interrupts, futureVars>>

\* ... or for some other wake.
PollSpurious(t) ==
  /\ pc[t] = "pending" /\ running = {}
  /\ running' = {t}
  /\ Goto(t, "poll")
  /\ UNCHANGED <<mono, service, locked, interrupts, woken, futureVars>>
-----------------------------------------------------------------------------
\* split_off(&Reverse(tick)): the entries at tick and at every earlier tick.
DueAt(tick) == {e \in service : e[1] <= tick}

\* The key first_key_value returns: Reverse puts the latest deadline first.
FirstKey == Max({e[1] : e \in service})

\* Mutation: entries are removed with the early return still ahead.
WakeSleepDropped(tick) ==
  /\ service' = service \ DueAt(tick)
  /\ IF service # {} /\ FirstKey > tick
       THEN woken' = woken
       ELSE woken' = woken \cup {e[2] : e \in DueAt(tick)}

WakeSleep(tick) ==
  IF service # {} /\ FirstKey > tick
    THEN UNCHANGED <<service, woken>>
    ELSE /\ service' = service \ DueAt(tick)
         /\ woken' = woken \cup {e[2] : e \in DueAt(tick)}

\* Mutation: wake_sleep is given the time after the tick.
ClockInterruptNewTime ==
  /\ interrupts
  /\ mono < MaxTime
  /\ mono' = mono + 1
  /\ WakeSleep(mono + 1)
  /\ UNCHANGED <<locked, interrupts, running, pc, futureVars>>

\* clock_interrupt_handler: wake_sleep is given the time before the tick.
ClockInterrupt ==
  /\ interrupts
  /\ mono < MaxTime
  /\ mono' = mono + 1
  /\ WakeSleep(mono)
  /\ UNCHANGED <<locked, interrupts, running, pc, futureVars>>

\* At the bound of the model the clock ticks on without advancing.
ClockAtBound ==
  /\ interrupts
  /\ mono = MaxTime
  /\ WakeSleep(mono)
  /\ UNCHANGED <<mono, locked, interrupts, running, pc, futureVars>>

PollStep(t) == PollReady(t) \/ PollPending(t) \/ RegisterLock(t) \/ RegisterInsert(t)

Next == \/ \E t \in Tasks : \/ \E d \in Durations : New(t, d)
                            \/ PollStep(t) \/ PollWoken(t) \/ PollSpurious(t)
        \/ ClockInterrupt \/ ClockAtBound

Spec == Init /\ [][Next]_vars
-----------------------------------------------------------------------------
(* Properties *)

\* wake_sleep's try_lock never fails ("Lock should not be held during
\* interrupt"): whenever the clock can interrupt, the lock is free.
LockFreeInInterrupt == interrupts => ~locked

\* A sleeping task is never forgotten: its waker is stored or it has been woken,
\* even when ticks pass between its look at the clock and its registration.
NoForgottenSleeper ==
  \A t \in Tasks : pc[t] = "pending" => <<end_tick[t], t>> \in service \/ t \in woken

\* The tick that reaches a stored deadline wakes the sleeper: wake_sleep returns
\* early only "if we don't need to wakeup".
DueSleepersWoken ==
  [][mono' # mono =>
       \A t \in Tasks : pc[t] = "pending" /\ end_tick[t] <= mono => t \in woken']_vars

\* wake_sleep takes nobody's waker before the whole duration has passed, and a sleep
\* ends at most one tick early, when its task is polled for another reason: the
\* subtraction "because monotonic is 1 num behind" is right for the handler only.
SleepLasts ==
  [][\A t \in Tasks :
       /\ <<end_tick[t], t>> \in service \ service' => due[t] <= mono'
       /\ pc[t] = "poll" /\ pc'[t] = "idle" => due[t] <= mono + 1]_vars
=============================================================================
