----------------------------- MODULE LockProofs -----------------------------
(***************************************************************************)
(* The locks of util/.  Mutex: mutual exclusion for any set of tasks in    *)
(* any setting, and no free lock with its waiters asleep, on one core.     *)
(* LockedIffHeld alone is not inductive: a store by one holder would leave *)
(* another one without the flag.  With MutualExclusion it is.  OnceLock:   *)
(* one complete value, for any set of threads and any number of calls.     *)
(* StatusGuardsCell is inductive: it ties the status to the one thread     *)
(* that may write the cell and to what the cell holds.                     *)
(***************************************************************************)
EXTENDS Mutex, OnceLock, SequenceTheorems, FiniteSetTheorems, TLAPS

\* What a leaf may take of each prover: seconds of wall time, which a busy machine
\* stretches.
USE SMTT(30), ZenonT(30)

Inv == LockedIffHeld /\ MutualExclusion

\* The initial state has the flag clear and no guard.
LEMMA InitInv == Init => Inv
<1> SUFFICES ASSUME Init PROVE Inv
  OBVIOUS
<1>1. TypeOK
  <2>1. wakeup_list \in Seq(Tasks)
    BY EmptySeq DEF Init
  <2>2. ops \in [Tasks -> 0 .. setting.calls]
    BY MutexAssumption DEF Init, SettingType
  <2> QED
    BY <2>1, <2>2, Zenon DEF Init, TypeOK
<1>2. locked <=> \E t \in Tasks : pc[t] = "held"
  BY DEF Init
<1>3. MutualExclusion
  BY DEF Init, MutualExclusion
<1> QED
  BY <1>1, <1>2, <1>3 DEF Inv, LockedIffHeld

\* Every step of any task keeps flag and guards together: the exchange is the only
\* step that makes a guard and it needs the flag clear.
LEMMA NextInv == Inv /\ [Next]_vars => Inv'
<1> SUFFICES ASSUME Inv, [Next]_vars PROVE Inv'
  OBVIOUS
<1>0. /\ setting.calls \in Nat
      /\ setting.modes \subseteq {"lock", "try_lock", "spin_lock"}
  BY MutexAssumption DEF Inv, LockedIffHeld, TypeOK, SettingType
<1> USE <1>0 DEF Inv, LockedIffHeld, MutualExclusion, TypeOK, Goto, At, CoreFree
<1>1. CASE UNCHANGED vars
  BY <1>1 DEF vars
<1>2. ASSUME NEW t \in Tasks, NEW m \in setting.modes, Call(t, m) PROVE Inv'
  BY <1>2 DEF Call
<1>3. ASSUME NEW t \in Tasks, LockerLoad(t) PROVE Inv'
  BY <1>3 DEF LockerLoad, sched
<1>4. ASSUME NEW t \in Tasks, Register(t) PROVE Inv'
  BY <1>4 DEF Register
<1>5. ASSUME NEW t \in Tasks, TryLoad(t) PROVE Inv'
  <2>1. TypeOK'
    BY <1>5, Zenon DEF TryLoad, Failed, sched
  <2>2. locked' <=> \E u \in Tasks : pc'[u] = "held"
    BY <1>5 DEF TryLoad, Failed, sched
  <2>3. MutualExclusion'
    BY <1>5 DEF TryLoad, Failed, sched
  <2> QED
    BY <2>1, <2>2, <2>3
<1>6. ASSUME NEW t \in Tasks, TryCas(t) PROVE Inv'
  <2>1. TypeOK'
    BY <1>6, Zenon DEF TryCas, Failed, sched
  <2>2. locked' <=> \E u \in Tasks : pc'[u] = "held"
    BY <1>6 DEF TryCas, Failed, sched
  <2>3. MutualExclusion'
    BY <1>6 DEF TryCas, Failed, sched
  <2> QED
    BY <2>1, <2>2, <2>3
<1>7. ASSUME NEW t \in Tasks, Unlock(t) PROVE Inv'
  <2>1. TypeOK'
    BY <1>7, Zenon DEF Unlock, sched
  <2>2. locked' <=> \E u \in Tasks : pc'[u] = "held"
    BY <1>7 DEF Unlock, sched
  <2>3. MutualExclusion'
    BY <1>7 DEF Unlock, sched
  <2> QED
    BY <2>1, <2>2, <2>3
<1>8. ASSUME NEW t \in Tasks, NotifyOne(t) PROVE Inv'
  <2>1. TypeOK'
    <3>1. CASE wakeup_list = <<>>
      BY <1>8, <3>1 DEF NotifyOne
    <3>2. CASE wakeup_list # <<>>
      <4>1. Head(wakeup_list) \in Tasks /\ Tail(wakeup_list) \in Seq(Tasks)
        BY <3>2, HeadTailProperties
      <4> QED
        BY <1>8, <3>2, <4>1, ZenonT(30) DEF NotifyOne
    <3> QED
      BY <3>1, <3>2
  <2>2. locked' <=> \E u \in Tasks : pc'[u] = "held"
    BY <1>8 DEF NotifyOne
  <2>3. MutualExclusion'
    BY <1>8 DEF NotifyOne
  <2> QED
    BY <2>1, <2>2, <2>3
<1>9. ASSUME NEW t \in Tasks, Poll(t) PROVE Inv'
  BY <1>9 DEF Poll
<1>12. ASSUME NEW t \in Tasks, PollSpurious(t) PROVE Inv'
  BY <1>12 DEF PollSpurious
<1>10. ASSUME NEW t \in Tasks, Suspend(t) \/ Resume(t) PROVE Inv'
  BY <1>10 DEF Suspend, Resume
<1>11. CASE Idle
  BY <1>11 DEF Idle, vars
<1> QED
  BY <1>1, <1>2, <1>3, <1>4, <1>5, <1>6, <1>7, <1>8, <1>9, <1>10, <1>11, <1>12
  DEF Next, Step

\* At most one task ever holds a MutexGuard, and the flag says whether one does.
THEOREM Exclusion == Spec => []OneGuard
<1>1. Inv => OneGuard
  BY DEF Inv, OneGuard
<1> QED
  BY InitInv, NextInv, <1>1, PTL DEF Spec, Inv
-----------------------------------------------------------------------------
(* Waiting: one core, and polls only for wakes *)

Queued(t) == \E i \in DOMAIN wakeup_list : wakeup_list[i] = t

\* A task in the middle of a call is on its core.
OnCore ==
  /\ IsFiniteSet(running)
  /\ \A t \in Tasks : pc[t] \in {"locker", "register", "load", "cas", "notify"} => t \in running

\* What WaiterHasWaker needs: one task runs at a time, so the lock a task has seen
\* taken is still taken when it registers; its waker is in the list, once, exactly
\* while the task waits and is not woken.
QueueInv ==
  /\ \A t, u \in running : t = u
  /\ \A t \in Tasks : pc[t] = "register" => locked
  /\ \A i, j \in DOMAIN wakeup_list : wakeup_list[i] = wakeup_list[j] => i = j
  /\ \A i \in DOMAIN wakeup_list : /\ pc[wakeup_list[i]] = "pending"
                                   /\ wakeup_list[i] \notin woken
  /\ \A t \in woken : pc[t] = "pending"
  /\ \A t \in Tasks : pc[t] = "pending" /\ t \notin woken => Queued(t)

WaitInv == Inv /\ OnCore /\ (Orderly => QueueInv) /\ WaiterHasWaker

\* Polls, awaits and returns move one task on or off its core.
LEMMA OnCoreStep ==
  ASSUME Inv, OnCore, [Next]_vars
  PROVE  OnCore'
<1> USE DEF Inv, LockedIffHeld, TypeOK, OnCore
<1>3. ASSUME NEW t \in Tasks, Step(t) \/ (\E m \in setting.modes : Call(t, m)) \/ Poll(t)
                              \/ PollSpurious(t) \/ Suspend(t) \/ Resume(t)
      PROVE  /\ running' \in {running, running \cup {t}, running \ {t}}
             /\ \A u \in Tasks : u # t => pc'[u] = pc[u] /\ (u \in running => u \in running')
             /\ pc'[t] \in {"locker", "register", "load", "cas", "notify"} => t \in running'
  <2>1. CASE \E m \in setting.modes : Call(t, m)
    BY <2>1 DEF Call, Goto
  <2>2. CASE LockerLoad(t) \/ Register(t) \/ Unlock(t) \/ NotifyOne(t)
    BY <2>2 DEF LockerLoad, Register, Unlock, NotifyOne, Goto, At, sched
  <2>3. CASE TryLoad(t) \/ TryCas(t)
    BY <2>3 DEF TryLoad, TryCas, Failed, Goto, At, sched
  <2>4. CASE Poll(t) \/ PollSpurious(t) \/ Suspend(t) \/ Resume(t)
    BY <2>4 DEF Poll, PollSpurious, Suspend, Resume, Goto, At
  <2> QED BY <1>3, <2>1, <2>2, <2>3, <2>4, ZenonT(30) DEF Step
<1>4. CASE UNCHANGED vars
  BY <1>4 DEF vars
<1>5. CASE \E t \in Tasks : Step(t) \/ (\E m \in setting.modes : Call(t, m)) \/ Poll(t)
                            \/ PollSpurious(t) \/ Suspend(t) \/ Resume(t)
  <2>1. IsFiniteSet(running')
    <3>1. PICK t \in Tasks : running' \in {running, running \cup {t}, running \ {t}}
      BY <1>3, <1>5, Zenon
    <3>2. IsFiniteSet(running \cup {t})
      BY FS_AddElement, Zenon
    <3>3. IsFiniteSet(running \ {t})
      BY FS_RemoveElement, Zenon
    <3> QED BY <3>1, <3>2, <3>3, Zenon
  <2> QED BY <1>3, <1>5, <2>1, Zenon
<1> QED BY <1>4, <1>5 DEF Next, Idle

\* A free core of the one there is: no task runs.
LEMMA OneCore ==
  ASSUME OnCore, Orderly, CoreFree
  PROVE  running = {}
<1>1. IsFiniteSet(running) /\ Cardinality(running) < 1
  BY DEF OnCore, Orderly, CoreFree
<1>2. Cardinality(running) = 0
  BY <1>1, FS_CardinalityType
<1> QED BY <1>1, <1>2, FS_EmptySet

\* The setting of an execution is fixed.
LEMMA SettingFixed == [Next]_vars => setting' = setting
BY DEF Next, Step, vars, sched, Call, LockerLoad, Register, TryLoad, TryCas, Failed, Unlock,
       NotifyOne, Poll, PollSpurious, Suspend, Resume, Idle

Waits == QueueInv /\ WaiterHasWaker

\* A task that waits for the lock goes to the end of the list.
LEMMA RegisterWaits ==
  ASSUME WaitInv, Orderly, NEW t \in Tasks, Register(t)
  PROVE  Waits'
<1>1. wakeup_list \in Seq(Tasks) /\ pc[t] = "register" /\ t \in running /\ locked /\ locked'
  BY DEF WaitInv, Inv, LockedIffHeld, TypeOK, QueueInv, Register, At
<1>2. /\ DOMAIN wakeup_list' = 1 .. Len(wakeup_list) + 1
      /\ \A i \in DOMAIN wakeup_list : wakeup_list'[i] = wakeup_list[i]
      /\ wakeup_list'[Len(wakeup_list) + 1] = t
      /\ DOMAIN wakeup_list = 1 .. Len(wakeup_list) /\ Len(wakeup_list) \in Nat
  BY <1>1 DEF Register
<1>3. /\ \A u \in Tasks : u # t => pc'[u] = pc[u]
      /\ pc'[t] = "pending" /\ woken' = woken /\ running' = running \ {t}
  BY DEF WaitInv, Inv, LockedIffHeld, TypeOK, Register, Goto
<1>4. t \notin woken /\ \A i \in DOMAIN wakeup_list : wakeup_list[i] # t
  BY <1>1 DEF WaitInv, QueueInv
<1>5. \A i \in DOMAIN wakeup_list : wakeup_list[i] \in Tasks
  BY <1>1
<1>6. \A u \in Tasks : pc'[u] = "pending" /\ u \notin woken' => Queued(u)'
  <2> SUFFICES ASSUME NEW u \in Tasks, pc'[u] = "pending", u \notin woken' PROVE Queued(u)'
    OBVIOUS
  <2>1. CASE u = t
    BY <1>2, <2>1 DEF Queued
  <2>2. CASE u # t
    <3>1. PICK i \in DOMAIN wakeup_list : wakeup_list[i] = u
      BY <1>3, <2>2 DEF WaitInv, QueueInv, Queued
    <3> QED BY <1>2, <3>1 DEF Queued
  <2> QED BY <2>1, <2>2
<1>7. \A i, j \in DOMAIN wakeup_list' : wakeup_list'[i] = wakeup_list'[j] => i = j
  BY <1>2, <1>4 DEF WaitInv, QueueInv
<1>8. \A i \in DOMAIN wakeup_list' : /\ pc'[wakeup_list'[i]] = "pending"
                                     /\ wakeup_list'[i] \notin woken'
  BY <1>2, <1>3, <1>4, <1>5 DEF WaitInv, QueueInv
<1>9. \A u \in woken' : pc'[u] = "pending"
  BY <1>3 DEF WaitInv, QueueInv, Inv, LockedIffHeld, TypeOK
<1>10. QueueInv'
  BY <1>1, <1>3, <1>6, <1>7, <1>8, <1>9 DEF WaitInv, QueueInv
<1> QED BY <1>1, <1>10 DEF Waits, WaiterHasWaker

\* The drop of the guard wakes the task at the head of the list.
LEMMA NotifyWaits ==
  ASSUME WaitInv, Orderly, NEW t \in Tasks, NotifyOne(t)
  PROVE  Waits'
<1>1. wakeup_list \in Seq(Tasks) /\ pc[t] = "notify" /\ t \in running /\ locked' = locked
      /\ Orderly'
  BY DEF WaitInv, Inv, LockedIffHeld, TypeOK, NotifyOne, At, Orderly
<1>2. /\ \A u \in Tasks : u # t => pc'[u] = pc[u]
      /\ pc'[t] = "idle" /\ running' = running \ {t}
  BY DEF WaitInv, Inv, LockedIffHeld, TypeOK, NotifyOne, Goto
<1>3. t \notin woken /\ \A i \in DOMAIN wakeup_list : wakeup_list[i] # t /\ wakeup_list[i] \in Tasks
  BY <1>1 DEF WaitInv, QueueInv
<1>4. \A u, v \in running' : u = v
  BY <1>2 DEF WaitInv, QueueInv
<1>5. \A u \in Tasks : pc'[u] = "register" => locked'
  BY <1>1, <1>2 DEF WaitInv, QueueInv
<1>6. woken \subseteq Tasks
  BY DEF WaitInv, Inv, LockedIffHeld, TypeOK
<1>7. CASE wakeup_list = <<>>
  <2>1. wakeup_list' = wakeup_list /\ woken' = woken /\ DOMAIN wakeup_list = {}
    BY <1>7 DEF NotifyOne
  <2>2. \A u \in Tasks : pc[u] = "pending" => u \in woken
    BY <2>1 DEF WaitInv, QueueInv, Queued
  <2>3. QueueInv'
    BY <1>2, <1>3, <1>4, <1>5, <1>6, <2>1, <2>2 DEF WaitInv, QueueInv
  <2> QED BY <1>2, <2>1, <2>2, <2>3 DEF Waits, WaiterHasWaker
<1>8. CASE wakeup_list # <<>>
  <2>1. /\ woken' = woken \cup {Head(wakeup_list)} /\ wakeup_list' = Tail(wakeup_list)
    BY <1>8 DEF NotifyOne
  <2>2. /\ Len(wakeup_list) \in Nat \ {0} /\ DOMAIN wakeup_list = 1 .. Len(wakeup_list)
        /\ DOMAIN wakeup_list' = 1 .. Len(wakeup_list) - 1
        /\ \A i \in 1 .. Len(wakeup_list) - 1 : wakeup_list'[i] = wakeup_list[i + 1]
        /\ Head(wakeup_list) = wakeup_list[1]
    BY <1>1, <1>8, <2>1
  <2>3. pc'[wakeup_list[1]] = "pending" /\ wakeup_list[1] \in Tasks
    BY <1>2, <1>3, <2>2 DEF WaitInv, QueueInv
  <2>4. \A i, j \in DOMAIN wakeup_list' : wakeup_list'[i] = wakeup_list'[j] => i = j
    <3> SUFFICES ASSUME NEW i \in DOMAIN wakeup_list', NEW j \in DOMAIN wakeup_list',
                        wakeup_list'[i] = wakeup_list'[j]
                 PROVE  i = j
      OBVIOUS
    <3>1. i + 1 \in DOMAIN wakeup_list /\ j + 1 \in DOMAIN wakeup_list
          /\ wakeup_list[i + 1] = wakeup_list[j + 1]
      BY <2>2
    <3>2. i + 1 = j + 1
      BY <3>1 DEF WaitInv, QueueInv
    <3> QED BY <2>2, <3>2
  <2>5. \A i \in DOMAIN wakeup_list' : /\ pc'[wakeup_list'[i]] = "pending"
                                       /\ wakeup_list'[i] \notin woken'
    <3> SUFFICES ASSUME NEW i \in DOMAIN wakeup_list'
                 PROVE  pc'[wakeup_list'[i]] = "pending" /\ wakeup_list'[i] \notin woken'
      OBVIOUS
    <3>1. i + 1 \in DOMAIN wakeup_list /\ 1 \in DOMAIN wakeup_list /\ i + 1 # 1
          /\ wakeup_list'[i] = wakeup_list[i + 1]
      BY <2>2
    <3>2. wakeup_list[i + 1] # wakeup_list[1] /\ wakeup_list[i + 1] \notin woken
          /\ pc[wakeup_list[i + 1]] = "pending"
      BY <3>1 DEF WaitInv, QueueInv
    <3> QED BY <1>2, <1>3, <2>1, <2>2, <3>1, <3>2
  <2>6. \A u \in Tasks : pc'[u] = "pending" /\ u \notin woken' => Queued(u)'
    <3> SUFFICES ASSUME NEW u \in Tasks, pc'[u] = "pending", u \notin woken' PROVE Queued(u)'
      OBVIOUS
    <3>1. PICK i \in DOMAIN wakeup_list : wakeup_list[i] = u
      BY <1>2, <2>1 DEF WaitInv, QueueInv, Queued
    <3>2. i # 1
      BY <2>1, <2>2, <3>1
    <3>3. i - 1 \in DOMAIN wakeup_list' /\ wakeup_list'[i - 1] = u
      BY <2>2, <3>1, <3>2
    <3> QED BY <3>3 DEF Queued
  <2>7. \A u \in woken' : pc'[u] = "pending"
    BY <1>2, <1>3, <1>6, <2>1, <2>2, <2>3 DEF WaitInv, QueueInv
  <2> QED BY <1>4, <1>5, <2>1, <2>2, <2>3, <2>4, <2>5, <2>6, <2>7 DEF Waits, QueueInv, WaiterHasWaker
<1> QED BY <1>7, <1>8

\* A step that leaves the list alone, takes no waiting task off the wakes, and either
\* keeps a core busy or leaves the lock taken.
LEMMA OthersWait ==
  ASSUME WaitInv, Orderly, NEW t \in Tasks,
         wakeup_list' = wakeup_list, woken' = woken, t \notin woken,
         pc[t] # "pending", pc'[t] # "pending", pc'[t] = "register" => locked',
         \A u \in Tasks : u # t => pc'[u] = pc[u] /\ (pc[u] = "register" => locked'),
         \A u, v \in running' : u = v,
         running' # {} \/ locked'
  PROVE  Waits'
<1>1. \A i \in DOMAIN wakeup_list : wakeup_list[i] \in Tasks /\ wakeup_list[i] # t
  BY DEF WaitInv, QueueInv, Inv, LockedIffHeld, TypeOK
<1>2. woken \subseteq Tasks
  BY DEF WaitInv, Inv, LockedIffHeld, TypeOK
<1>3. \A u \in Tasks : pc'[u] = "pending" /\ u \notin woken' => Queued(u)'
  BY DEF WaitInv, QueueInv, Queued
<1> QED BY <1>1, <1>2, <1>3 DEF WaitInv, Waits, QueueInv, WaiterHasWaker

\* Every step of a task, on one core.
LEMMA TaskWaits ==
  ASSUME WaitInv, Orderly, NEW t \in Tasks,
         Step(t) \/ (\E m \in setting.modes : Call(t, m)) \/ Suspend(t) \/ Resume(t)
  PROVE  Waits'
<1> USE DEF WaitInv, Inv, LockedIffHeld, TypeOK
<1>0. /\ \A u \in Tasks : u \in running /\ t \in running => u = t
      /\ \A u \in Tasks : pc[u] = "register" => u \in running /\ locked
      /\ pc[t] # "pending" => t \notin woken
  BY DEF QueueInv, OnCore
<1>1. CASE \E m \in setting.modes : Call(t, m)
  <2>1. running = {}
    BY <1>1, OneCore DEF Call
  <2>2. running' = {t} /\ wakeup_list' = wakeup_list /\ woken' = woken /\ locked' = locked
        /\ pc[t] = "idle" /\ pc'[t] \in {"locker", "load"}
        /\ \A u \in Tasks : u # t => pc'[u] = pc[u]
    BY <1>1, <2>1 DEF Call, Goto
  <2> QED BY <1>0, <2>2, OthersWait
<1>2. CASE LockerLoad(t)
  <2>1. running' = running /\ wakeup_list' = wakeup_list /\ woken' = woken /\ locked' = locked
        /\ pc[t] = "locker" /\ t \in running
        /\ pc'[t] = (IF locked THEN "register" ELSE "load")
        /\ \A u \in Tasks : u # t => pc'[u] = pc[u]
    BY <1>2 DEF LockerLoad, Goto, At, sched
  <2>2. \A u, v \in running' : u = v
    BY <2>1 DEF QueueInv
  <2>3. pc'[t] = "register" => locked'
    BY <2>1
  <2> QED BY ONLY WaitInv, Orderly, t \in Tasks, <1>0, <2>1, <2>2, <2>3, OthersWait, SMTT(30)
<1>3. CASE TryLoad(t) \/ TryCas(t)
  <2>1. /\ wakeup_list' = wakeup_list /\ woken' = woken /\ t \in running
        /\ pc[t] \in {"load", "cas"} /\ pc'[t] \in {"locker", "load", "idle", "cas", "held"}
        /\ \A u \in Tasks : u # t => pc'[u] = pc[u]
    BY <1>3 DEF TryLoad, TryCas, Failed, Goto, At, sched
  <2>2. locked => locked'
    BY <1>3, Zenon DEF TryLoad, TryCas, Failed, sched
  <2>3. \/ running' = running
        \/ running' = running \ {t} /\ locked'
    BY <1>3 DEF TryLoad, TryCas, Failed, sched
  <2>4. \A u, v \in running' : u = v
    BY <2>3 DEF QueueInv
  <2> QED BY <1>0, <2>1, <2>2, <2>3, <2>4, OthersWait
<1>4. CASE Unlock(t)
  <2>1. running' = running /\ wakeup_list' = wakeup_list /\ woken' = woken /\ t \in running
        /\ pc[t] = "held" /\ pc'[t] = "notify"
        /\ \A u \in Tasks : u # t => pc'[u] = pc[u]
    BY <1>4 DEF Unlock, Goto, At, sched
  <2>2. \A u \in Tasks : u # t => pc[u] # "register"
    BY <1>0, <2>1
  <2>3. running' # {} /\ t \notin woken
    BY <1>0, <2>1
  <2>4. \A u, v \in running' : u = v
    BY <2>1 DEF QueueInv
  <2> QED BY ONLY WaitInv, Orderly, t \in Tasks, <2>1, <2>2, <2>3, <2>4, OthersWait, SMTT(30)
<1>5. CASE Suspend(t)
  <2>1. running' = running \ {t} /\ wakeup_list' = wakeup_list /\ woken' = woken
        /\ locked' = locked /\ pc[t] = "held" /\ pc' = pc /\ t \in running
    BY <1>5 DEF Suspend, At
  <2>2. locked
    BY <2>1
  <2>3. \A u, v \in running' : u = v
    BY <2>1 DEF QueueInv
  <2> QED BY <1>0, <2>1, <2>2, <2>3, OthersWait
<1>6. CASE Resume(t)
  <2>1. running = {}
    BY <1>6, OneCore DEF Resume
  <2>2. running' = {t} /\ wakeup_list' = wakeup_list /\ woken' = woken
        /\ locked' = locked /\ pc[t] = "held" /\ pc' = pc
    BY <1>6, <2>1 DEF Resume
  <2> QED BY <1>0, <2>2, OthersWait
<1> QED
  BY <1>1, <1>2, <1>3, <1>4, <1>5, <1>6, RegisterWaits, NotifyWaits DEF Step

\* A woken task is polled: it is not in the list any more.
LEMMA PollWaits ==
  ASSUME WaitInv, Orderly, NEW t \in Tasks, Poll(t)
  PROVE  Waits'
<1> USE DEF WaitInv, Inv, LockedIffHeld, TypeOK
<1>1. running = {}
  BY OneCore DEF Poll
<1>2. running' = {t} /\ wakeup_list' = wakeup_list /\ woken' = woken \ {t} /\ locked' = locked
      /\ pc[t] = "pending" /\ pc'[t] = "locker" /\ t \in woken
      /\ \A u \in Tasks : u # t => pc'[u] = pc[u]
  BY <1>1 DEF Poll, Goto
<1>3. \A i \in DOMAIN wakeup_list : wakeup_list[i] \in Tasks /\ wakeup_list[i] # t
  BY <1>2 DEF QueueInv
<1>4. \A u \in Tasks : pc'[u] = "pending" /\ u \notin woken' => Queued(u)'
  BY <1>2 DEF QueueInv, Queued
<1>5. \A u \in woken' : pc'[u] = "pending"
  BY <1>2 DEF QueueInv
<1> QED BY <1>2, <1>3, <1>4, <1>5 DEF Waits, QueueInv, WaiterHasWaker

\* WaitInv is inductive.
LEMMA WaitStep == WaitInv /\ [Next]_vars => WaitInv'
<1> SUFFICES ASSUME WaitInv, [Next]_vars PROVE WaitInv'
  OBVIOUS
<1>1. Inv' /\ OnCore' /\ (Orderly' <=> Orderly)
  BY NextInv, OnCoreStep, SettingFixed DEF WaitInv, Orderly
<1>2. CASE UNCHANGED vars \/ Idle
  BY <1>1, <1>2 DEF WaitInv, QueueInv, WaiterHasWaker, Queued, vars, Idle
<1>3. ASSUME Orderly PROVE (UNCHANGED vars \/ Idle) \/ Waits'
  BY <1>3, TaskWaits, PollWaits DEF Next, PollSpurious, Orderly
<1>4. CASE ~Orderly
  BY <1>1, <1>4 DEF WaitInv, WaiterHasWaker
<1> QED BY <1>1, <1>2, <1>3, <1>4 DEF WaitInv, Waits

\* On the kernel's one core a lock that is free with a task waiting for it always has a
\* task awake to take it or to pass the notification on (MutexLocker::poll,
\* WakerList::register and notify_one, MutexGuard's drop), for any tasks and any
\* number of calls.
THEOREM WaitersAreWoken == Spec => []WaiterHasWaker
<1>1. Init => WaitInv
  BY InitInv, FS_EmptySet DEF Init, WaitInv, OnCore, QueueInv, Queued, WaiterHasWaker
<1>2. WaitInv => WaiterHasWaker
  BY DEF WaitInv
<1> QED BY <1>1, <1>2, WaitStep, PTL DEF Spec
-----------------------------------------------------------------------------
(* OnceLock *)

\* new and with_value leave the cell unguarded or whole.
LEMMA OnceInitInv == OnceInit => StatusGuardsCell
BY OnceLockAssumption DEF OnceInit, StatusGuardsCell, OnceTypeOK, Initialising, Operations, Contents

\* Every step of any thread keeps StatusGuardsCell.
LEMMA OnceNextInv == StatusGuardsCell /\ [OnceNext]_onceVars => StatusGuardsCell'
<1> SUFFICES ASSUME StatusGuardsCell, [OnceNext]_onceVars PROVE StatusGuardsCell'
  OBVIOUS
<1> USE OnceLockAssumption
    DEF StatusGuardsCell, OnceTypeOK, Initialising, Operations, Contents, MoveTo, coreVars
<1>1. CASE UNCHANGED onceVars
  BY <1>1 DEF onceVars
<1>2. ASSUME NEW t \in Threads, NEW op \in Operations, Begin(t, op)
      PROVE StatusGuardsCell'
  BY <1>2 DEF Begin
<1>3. ASSUME NEW t \in Threads, Check(t) PROVE StatusGuardsCell'
  BY <1>3 DEF Check, AfterCheck, IsInit
<1>4. ASSUME NEW t \in Threads, Exchange(t) PROVE StatusGuardsCell'
  BY <1>4 DEF Exchange
<1>5. ASSUME NEW t \in Threads, ExchangeLost(t) PROVE StatusGuardsCell'
  BY <1>5 DEF ExchangeLost, AfterInner
<1>6. ASSUME NEW t \in Threads, Spin(t) PROVE StatusGuardsCell'
  BY <1>6 DEF Spin, onceVars
<1>7. ASSUME NEW t \in Threads, RunFunc(t) PROVE StatusGuardsCell'
  BY <1>7 DEF RunFunc
<1>8. ASSUME NEW t \in Threads, Write(t) PROVE StatusGuardsCell'
  BY <1>8 DEF Write
<1>9. ASSUME NEW t \in Threads, StoreInit(t) PROVE StatusGuardsCell'
  BY <1>9 DEF StoreInit, AfterInner
<1>10. ASSUME NEW t \in Threads, Read(t) PROVE StatusGuardsCell'
  BY <1>10 DEF Read
<1>11. CASE AllDone
  BY <1>11 DEF AllDone, onceVars
<1> QED
  BY <1>1, <1>2, <1>3, <1>4, <1>5, <1>6, <1>7, <1>8, <1>9, <1>10, <1>11, ZenonT(30) DEF OnceNext, ThreadStep

\* The status guards the cell in every reachable state of any number of threads.
THEOREM CellIsGuarded == OnceSpec => []StatusGuardsCell
BY OnceInitInv, OnceNextInv, PTL DEF OnceSpec

\* Every reference handed out is to the one value made by the one function run,
\* complete and never replaced.
THEOREM OneCompleteValue == OnceSpec => []ReadersAgree
<1>1. StatusGuardsCell => ReadersAgree
  BY DEF StatusGuardsCell, OnceTypeOK, Initialising, ReadersAgree
<1> QED
  BY CellIsGuarded, <1>1, PTL
=============================================================================
