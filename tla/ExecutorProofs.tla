--------------------------- MODULE ExecutorProofs ---------------------------
(***************************************************************************)
(* The executor's safety for any number of tasks and queued wakes: types,  *)
(* no lost wakeup, a wakeable halt, task identity, and the refinement of   *)
(* TaskLifecycle.                                                          *)
(***************************************************************************)
EXTENDS Executor, SequenceTheorems, TLAPS

\* What a leaf may take of each prover: seconds of wall time, which a busy machine
\* stretches.
USE SMTT(30), ZenonT(30)

-----------------------------------------------------------------------------
(* The queues as sets of their elements.                                   *)

\* A push adds its element.
LEMMA RangeAppend ==
  ASSUME NEW S, NEW q \in Seq(S), NEW e \in S
  PROVE  /\ Append(q, e) \in Seq(S)
         /\ Range(Append(q, e)) = Range(q) \cup {e}
<1>1. /\ Append(q, e) \in Seq(S) /\ Len(Append(q, e)) = Len(q) + 1
      /\ \A i \in 1 .. Len(q) : Append(q, e)[i] = q[i]
      /\ Append(q, e)[Len(q) + 1] = e
  OBVIOUS
<1>2. DOMAIN q = 1 .. Len(q) /\ DOMAIN Append(q, e) = 1 .. Len(q) + 1 /\ Len(q) \in Nat
  BY <1>1, LenProperties
<1> QED
  BY <1>1, <1>2 DEF Range

\* A pop takes its element away, unless it was queued again behind.
LEMMA RangePop ==
  ASSUME NEW S, NEW q \in Seq(S), q # <<>>
  PROVE  /\ Head(q) \in S /\ Head(q) \in Range(q)
         /\ Tail(q) \in Seq(S)
         /\ Range(q) = Range(Tail(q)) \cup {Head(q)}
<1>1. /\ Head(q) \in S /\ Tail(q) \in Seq(S) /\ Len(Tail(q)) = Len(q) - 1
      /\ \A i \in 1 .. Len(Tail(q)) : Tail(q)[i] = q[i + 1]
  BY HeadTailProperties
<1>2. /\ Len(q) \in Nat \ {0} /\ DOMAIN q = 1 .. Len(q)
      /\ DOMAIN Tail(q) = 1 .. Len(q) - 1
      /\ Head(q) = q[1]
  BY <1>1, LenProperties, EmptySeq
<1>3. ASSUME NEW x \in Range(q) PROVE x \in Range(Tail(q)) \cup {Head(q)}
  <2>1. PICK i \in 1 .. Len(q) : x = q[i]
    BY <1>2 DEF Range
  <2>2. CASE i = 1
    BY <1>2, <2>1, <2>2
  <2>3. CASE i # 1
    <3>1. i - 1 \in 1 .. Len(q) - 1 /\ Tail(q)[i - 1] = q[i]
      BY <1>1, <1>2, <2>3
    <3> QED
      BY <1>2, <2>1, <3>1, Zenon DEF Range
  <2> QED
    BY <2>2, <2>3
<1>4. ASSUME NEW x \in Range(Tail(q)) PROVE x \in Range(q)
  <2>1. PICK i \in 1 .. Len(q) - 1 : x = Tail(q)[i]
    BY <1>2 DEF Range
  <2>2. i + 1 \in 1 .. Len(q) /\ x = q[i + 1]
    BY <1>1, <1>2, <2>1
  <2> QED
    BY <1>2, <2>2 DEF Range
<1>5. Head(q) \in Range(q)
  BY <1>2 DEF Range
<1> QED
  BY <1>1, <1>3, <1>4, <1>5

\* The empty queue has no elements, a queue over S only elements of S.
LEMMA RangeType ==
  ASSUME NEW S, NEW q \in Seq(S)
  PROVE  Range(q) \subseteq S /\ (q = <<>> => Range(q) = {})
BY LenProperties, EmptySeq DEF Range

\* A push of a new element and a pop keep a queue free of repetitions.
LEMMA InjectiveAppend ==
  ASSUME NEW S, NEW q \in Seq(S), NEW e \in S, IsInjective(q), e \notin Range(q)
  PROVE  IsInjective(Append(q, e))
<1>1. /\ Len(Append(q, e)) = Len(q) + 1 /\ Append(q, e) \in Seq(S)
      /\ \A i \in 1 .. Len(q) : Append(q, e)[i] = q[i]
      /\ Append(q, e)[Len(q) + 1] = e
  OBVIOUS
<1>2. DOMAIN q = 1 .. Len(q) /\ DOMAIN Append(q, e) = 1 .. Len(q) + 1 /\ Len(q) \in Nat
  BY <1>1, LenProperties
<1> QED
  BY <1>1, <1>2 DEF IsInjective, Range

\* The elements behind the head are still all different.
LEMMA InjectivePop ==
  ASSUME NEW S, NEW q \in Seq(S), q # <<>>, IsInjective(q)
  PROVE  IsInjective(Tail(q)) /\ Head(q) \notin Range(Tail(q))
<1>1. /\ Tail(q) \in Seq(S) /\ Len(Tail(q)) = Len(q) - 1
      /\ \A i \in 1 .. Len(Tail(q)) : Tail(q)[i] = q[i + 1]
  BY HeadTailProperties
<1>2. /\ Len(q) \in Nat \ {0} /\ DOMAIN q = 1 .. Len(q)
      /\ DOMAIN Tail(q) = 1 .. Len(q) - 1
      /\ Head(q) = q[1]
  BY <1>1, LenProperties, EmptySeq
<1>3. ASSUME NEW a \in 1 .. Len(q) - 1, NEW b \in 1 .. Len(q) - 1, Tail(q)[a] = Tail(q)[b]
      PROVE a = b
  <2>1. q[a + 1] = q[b + 1] /\ a + 1 \in DOMAIN q /\ b + 1 \in DOMAIN q
    BY <1>1, <1>2, <1>3
  <2>2. a + 1 = b + 1
    BY <2>1 DEF IsInjective
  <2> QED
    BY <2>2
<1>4. ASSUME NEW a \in 1 .. Len(q) - 1 PROVE Tail(q)[a] # q[1]
  <2>1. Tail(q)[a] = q[a + 1] /\ a + 1 \in DOMAIN q /\ 1 \in DOMAIN q /\ a + 1 # 1
    BY <1>1, <1>2
  <2> QED
    BY <2>1 DEF IsInjective
<1> QED
  BY <1>2, <1>3, <1>4 DEF IsInjective, Range
-----------------------------------------------------------------------------
(* Types *)

\* Executor::new starts with empty queues.
LEMMA TypeInit == Init => TypeOK
<1> SUFFICES ASSUME Init PROVE TypeOK
  OBVIOUS
<1>1. spawn_queue \in Seq(Ids) /\ task_queue \in Seq(Ids)
  BY EmptySeq DEF Init
<1>2. next_id \in 0 .. MaxTasks /\ task_id \in Ids
  BY BoundsAssumption DEF Init, Ids
<1> QED
  BY <1>1, <1>2, Zenon DEF Init, TypeOK

\* Every step keeps the types of queues and task table.
LEMMA TypeNext == TypeOK /\ [Next]_vars => TypeOK'
<1> SUFFICES ASSUME TypeOK, [Next]_vars PROVE TypeOK'
  OBVIOUS
<1> USE BoundsAssumption DEF TypeOK, taskVars
<1>1. CASE UNCHANGED vars
  BY <1>1 DEF vars
<1>2. CASE Spawn
  <2>1. next_id \in Ids /\ next_id + 1 \in 0 .. MaxTasks
    BY <1>2 DEF Spawn, Ids
  <2>2. Append(spawn_queue, next_id) \in Seq(Ids)
    BY <2>1
  <2> QED
    BY <1>2, <2>1, <2>2 DEF Spawn
<1>3. CASE Run
  BY <1>3 DEF Run
<1>4. CASE DrainSpawn
  <2>1. /\ Head(spawn_queue) \in Ids /\ Tail(spawn_queue) \in Seq(Ids)
        /\ Append(task_queue, Head(spawn_queue)) \in Seq(Ids)
    BY <1>4, RangePop DEF DrainSpawn
  <2> QED
    BY <1>4, <2>1 DEF DrainSpawn
<1>5. CASE DrainDone \/ PopEmpty
  BY <1>5 DEF DrainDone, PopEmpty
<1>6. CASE PopTask
  <2>1. Head(task_queue) \in Ids /\ Tail(task_queue) \in Seq(Ids)
    BY <1>6, RangePop DEF PopTask
  <2> QED
    BY <1>6, <2>1 DEF PopTask
<1>7. CASE PollReady \/ PollPending
  BY <1>7 DEF PollReady, PollPending
<1>8. CASE Disable \/ EnableAndHlt \/ Enable
  BY <1>8, Zenon DEF Disable, EnableAndHlt, Enable
<1>9. CASE LeaveMasked \/ IdleInterrupt
  BY <1>9, Zenon DEF LeaveMasked, IdleInterrupt
<1>10. CASE RegisterWaker
  BY <1>10 DEF RegisterWaker
<1>11. CASE YieldNow
  <2>1. Append(task_queue, task_id) \in Seq(Ids)
    OBVIOUS
  <2> QED
    BY <1>11, <2>1 DEF YieldNow
<1>12. ASSUME NEW t \in Ids, NotifyOne(t) \/ WakeInterrupt(t) PROVE TypeOK'
  <2>1. Append(task_queue, t) \in Seq(Ids)
    OBVIOUS
  <2> QED
    BY <1>12, <2>1, Zenon DEF NotifyOne, WakeInterrupt
<1> QED
  BY <1>1, <1>2, <1>3, <1>4, <1>5, <1>6, <1>7, <1>8, <1>9, <1>10, <1>11, <1>12
  DEF Next, RunReadyTasks, PollReturns, SleepIfIdle
-----------------------------------------------------------------------------
(* The halt *)

\* hlt is only reached through the check, and run() continues only once an
\* interrupt has ended it: between the two nobody but a handler runs.
HaltInv == halted => pc = "drain" /\ interrupts /\ task_queue = <<>>

\* Only sleep_if_idle halts, and nobody but a handler pushes while it does.
LEMMA HaltNext == TypeOK /\ HaltInv /\ [Next]_vars => HaltInv'
<1> SUFFICES ASSUME TypeOK, HaltInv, [Next]_vars PROVE HaltInv'
  OBVIOUS
<1> USE DEF HaltInv, TypeOK, taskVars
<1>1. CASE UNCHANGED vars
  BY <1>1 DEF vars
<1>2. CASE Spawn \/ Run
  BY <1>2, Zenon DEF Spawn, Run
<1>3. CASE RunReadyTasks
  BY <1>3, Zenon DEF RunReadyTasks, DrainSpawn, DrainDone, PopTask, PopEmpty
<1>4. CASE PollReturns
  BY <1>4, Zenon DEF PollReturns, PollReady, PollPending
<1>5. CASE SleepIfIdle
  BY <1>5, Zenon DEF SleepIfIdle, Disable, EnableAndHlt, Enable
<1>6. CASE RegisterWaker \/ YieldNow \/ LeaveMasked
  BY <1>6, Zenon DEF RegisterWaker, YieldNow, LeaveMasked
<1>7. ASSUME NEW t \in Ids, NotifyOne(t) \/ WakeInterrupt(t) PROVE HaltInv'
  BY <1>7, Zenon DEF NotifyOne, WakeInterrupt
<1>8. CASE IdleInterrupt
  BY <1>8 DEF IdleInterrupt
<1> QED
  BY <1>1, <1>2, <1>3, <1>4, <1>5, <1>6, <1>7, <1>8 DEF Next
-----------------------------------------------------------------------------
(* Task identity *)

\* TaskId::new counts upwards, so a spawned task has a new identifier.
LEMMA IdentityNext == TypeOK /\ TaskIdentity /\ [Next]_vars => TaskIdentity'
<1> SUFFICES ASSUME TypeOK, TaskIdentity, [Next]_vars PROVE TaskIdentity'
  OBVIOUS
<1> USE DEF TaskIdentity, taskVars
<1>1. CASE Spawn
  <2>1. /\ next_id \in Ids /\ next_id \in Nat
        /\ next_id \notin Range(spawn_queue) \cup task_waker_list
    BY <1>1, BoundsAssumption DEF Spawn, TypeOK, Ids
  <2>2. IsInjective(spawn_queue') /\ Range(spawn_queue') = Range(spawn_queue) \cup {next_id}
    BY <1>1, <2>1, InjectiveAppend, RangeAppend DEF Spawn, TypeOK
  <2>3. 0 .. next_id' - 1 = (0 .. next_id - 1) \cup {next_id}
    BY <1>1, <2>1 DEF Spawn
  <2> QED
    BY <1>1, <2>1, <2>2, <2>3 DEF Spawn
<1>2. CASE DrainSpawn
  <2>1. /\ IsInjective(Tail(spawn_queue))
        /\ Head(spawn_queue) \notin Range(Tail(spawn_queue))
        /\ Range(spawn_queue) = Range(Tail(spawn_queue)) \cup {Head(spawn_queue)}
    BY <1>2, InjectivePop, RangePop DEF DrainSpawn, TypeOK
  <2> QED
    BY <1>2, <2>1 DEF DrainSpawn
<1>3. CASE PollReady
  BY <1>3 DEF PollReady
<1>4. CASE UNCHANGED <<next_id, spawn_queue, task_waker_list>>
  BY <1>4, Zenon
<1>5. CASE Run \/ DrainDone \/ PopTask \/ PopEmpty \/ PollPending \/ SleepIfIdle
  BY <1>4, <1>5
  DEF Run, DrainDone, PopTask, PopEmpty, PollPending, SleepIfIdle, Disable,
      EnableAndHlt, Enable
<1>6. CASE RegisterWaker \/ YieldNow \/ LeaveMasked \/ IdleInterrupt
  BY <1>4, <1>6 DEF RegisterWaker, YieldNow, LeaveMasked, IdleInterrupt
<1>7. ASSUME NEW t \in Ids, NotifyOne(t) \/ WakeInterrupt(t) PROVE TaskIdentity'
  BY <1>4, <1>7 DEF NotifyOne, WakeInterrupt
<1>8. CASE UNCHANGED vars
  BY <1>4, <1>8 DEF vars
<1> QED
  BY <1>1, <1>2, <1>3, <1>5, <1>6, <1>7, <1>8
  DEF Next, RunReadyTasks, PollReturns
-----------------------------------------------------------------------------
(* Wakes *)

\* The polled task is one of the unfinished ones.
PollLive == pc = "poll" => task_id \in task_waker_list

WakeInv == PollLive /\ NoLostWakeup

\* A popped task is polled, and its poll leaves a wake or a held waker.
LEMMA WakeNext == TypeOK /\ WakeInv /\ [Next]_vars => WakeInv'
<1> SUFFICES ASSUME TypeOK, WakeInv, [Next]_vars PROVE WakeInv'
  OBVIOUS
<1> USE DEF WakeInv, PollLive, NoLostWakeup, Woken, taskVars
<1>0. task_queue \in Seq(Ids) /\ task_id \in Ids
  BY DEF TypeOK
<1>1. CASE DrainSpawn
  <2>1. Head(spawn_queue) \in Ids
    BY <1>1, RangePop, Zenon DEF DrainSpawn, TypeOK
  <2>2. task_queue' = Append(task_queue, Head(spawn_queue))
    BY <1>1, Zenon DEF DrainSpawn
  <2>3. Range(task_queue') = Range(task_queue) \cup {Head(spawn_queue)}
    <3>1. Range(Append(task_queue, Head(spawn_queue))) = Range(task_queue) \cup {Head(spawn_queue)}
      BY ONLY <1>0, <2>1, RangeAppend, SMTT(30)
    <3> QED BY <2>2, <3>1, Zenon
  <2> QED
    BY <1>1, <2>3 DEF DrainSpawn
<1>2. CASE PopTask
  <2>1. Range(task_queue) = Range(task_queue') \cup {task_id'}
    BY <1>0, <1>2, RangePop DEF PopTask
  <2> QED
    BY <1>2, <2>1 DEF PopTask
<1>3. CASE PollReady \/ PollPending
  BY <1>3 DEF PollReady, PollPending
<1>4. CASE YieldNow
  <2>1. task_queue' = Append(task_queue, task_id)
    BY <1>4, Zenon DEF YieldNow
  <2>2. Range(task_queue') = Range(task_queue) \cup {task_id}
    <3>1. Range(Append(task_queue, task_id)) = Range(task_queue) \cup {task_id}
      BY ONLY <1>0, RangeAppend, SMTT(30)
    <3> QED BY <2>1, <3>1, Zenon
  <2> QED
    BY <1>4, <2>2 DEF YieldNow
<1>5. ASSUME NEW t \in Ids, NotifyOne(t) \/ WakeInterrupt(t) PROVE WakeInv'
  <2>1. task_queue' = Append(task_queue, t)
    BY <1>5, Zenon DEF NotifyOne, WakeInterrupt
  <2>2. Range(task_queue') = Range(task_queue) \cup {t}
    <3>1. Range(Append(task_queue, t)) = Range(task_queue) \cup {t}
      BY ONLY <1>0, t \in Ids, RangeAppend, SMTT(30)
    <3> QED BY <2>1, <3>1, Zenon
  <2> QED
    BY <1>5, <2>2 DEF NotifyOne, WakeInterrupt
<1>6. CASE RegisterWaker
  BY <1>6 DEF RegisterWaker
<1>7. CASE Spawn \/ Run \/ DrainDone \/ PopEmpty \/ SleepIfIdle \/ LeaveMasked
           \/ IdleInterrupt
  BY <1>7
  DEF Spawn, Run, DrainDone, PopEmpty, SleepIfIdle, Disable, EnableAndHlt, Enable,
      LeaveMasked, IdleInterrupt
<1>8. CASE UNCHANGED vars
  BY <1>8 DEF vars
<1> QED
  BY <1>1, <1>2, <1>3, <1>4, <1>5, <1>6, <1>7, <1>8
  DEF Next, RunReadyTasks, PollReturns
-----------------------------------------------------------------------------
(* The theorems *)

IInv == TypeOK /\ HaltInv /\ TaskIdentity /\ WakeInv

\* The invariant holds before run.
LEMMA InitIInv == Init => IInv
<1> SUFFICES ASSUME Init PROVE IInv
  OBVIOUS
<1>1. TypeOK
  BY TypeInit
<1>2. HaltInv /\ WakeInv
  BY DEF Init, HaltInv, WakeInv, PollLive, NoLostWakeup
<1>3. DOMAIN spawn_queue = {}
  BY DEF Init
<1>4. TaskIdentity
  BY <1>3 DEF Init, TaskIdentity, IsInjective, Range
<1> QED
  BY <1>1, <1>2, <1>4 DEF IInv

\* Each step keeps the invariant.
LEMMA IInvNext == IInv /\ [Next]_vars => IInv'
BY TypeNext, HaltNext, IdentityNext, WakeNext DEF IInv

\* The invariant of all executions.
LEMMA Inductive == Spec => []IInv
BY InitIInv, IInvNext, PTL DEF Spec

\* Every variable keeps its type in every execution: in particular the queues
\* and task_waker_list only ever hold identifiers TaskId::new handed out.
THEOREM ExecutorTypes == Spec => []TypeOK
<1>1. IInv => TypeOK
  BY DEF IInv
<1> QED
  BY <1>1, Inductive, PTL

\* sleep_if_idle never halts the CPU on a woken task or with interrupts masked,
\* however the handlers interleave with the empty pop, the disable and the check.
THEOREM HaltSafe == Spec => []HaltIsWakeable
<1>1. IInv => HaltIsWakeable
  BY DEF IInv, HaltInv, HaltIsWakeable
<1> QED
  BY <1>1, Inductive, PTL

\* No unfinished task is ever without a pending wake or a held waker, provided
\* its future keeps the contract of poll, for any number of tasks and wakes.
THEOREM WakesKept == Spec => []NoLostWakeup
<1>1. IInv => NoLostWakeup
  BY DEF IInv, WakeInv
<1> QED
  BY <1>1, Inductive, PTL

\* task_waker_list.insert never replaces another task.
THEOREM IdentitiesUnique == Spec => []TaskIdentity
<1>1. IInv => TaskIdentity
  BY DEF IInv
<1> QED
  BY <1>1, Inductive, PTL
-----------------------------------------------------------------------------
(* The refinement of TaskLifecycle *)

\* Empty queues are an abstract initial state.
LEMMA LifecycleInit == Init => Lifecycle!AInit
<1> SUFFICES ASSUME Init PROVE Lifecycle!AInit
  OBVIOUS
<1>1. Range(spawn_queue) = {} /\ Range(task_queue) = {}
  BY DEF Init, Range
<1> QED
  BY <1>1 DEF Init, Lifecycle!AInit, Woken

\* Each action of the executor is one abstract action or changes nothing that
\* TaskLifecycle sees.
LEMMA LifecycleNext ==
  IInv /\ [Next]_vars => [Lifecycle!ANext]_(Lifecycle!avars)
<1> SUFFICES ASSUME IInv, [Next]_vars
             PROVE  Lifecycle!ANext \/ UNCHANGED Lifecycle!avars
  OBVIOUS
<1> USE DEF Woken, taskVars
<1>0. /\ task_queue \in Seq(Ids) /\ spawn_queue \in Seq(Ids) /\ task_id \in Ids
      /\ next_id \in Nat
  BY BoundsAssumption DEF IInv, TypeOK
<1>1. CASE Spawn
  <2>1. next_id \in Ids /\ next_id \notin 0 .. next_id - 1
    BY <1>0, <1>1, BoundsAssumption DEF Spawn, Ids
  <2>2. Range(spawn_queue') = Range(spawn_queue) \cup {next_id}
    BY <1>0, <1>1, <2>1, RangeAppend DEF Spawn
  <2>3. 0 .. next_id' - 1 = (0 .. next_id - 1) \cup {next_id}
    BY <1>0, <1>1 DEF Spawn
  <2>4. Lifecycle!ASpawn(next_id)
    BY <1>1, <2>1, <2>2, <2>3 DEF Lifecycle!ASpawn, Spawn, IInv, TaskIdentity
  <2> QED
    BY <2>1, <2>4 DEF Lifecycle!ANext
<1>2. CASE DrainSpawn
  <2> DEFINE t == Head(spawn_queue)
  <2>1. /\ t \in Ids /\ t \in Range(spawn_queue)
        /\ Range(spawn_queue) = Range(spawn_queue') \cup {t}
        /\ t \notin Range(spawn_queue')
    BY <1>0, <1>2, RangePop, InjectivePop DEF DrainSpawn, IInv, TaskIdentity
  <2>2. Range(task_queue') = Range(task_queue) \cup {t}
    BY <1>0, <1>2, <2>1, RangeAppend DEF DrainSpawn
  <2>3. Lifecycle!AStart(t)
    BY <1>2, <2>1, <2>2 DEF Lifecycle!AStart, DrainSpawn
  <2> QED
    BY <2>1, <2>3 DEF Lifecycle!ANext
<1>3. CASE PopTask
  <2> DEFINE t == Head(task_queue)
  <2>1. /\ t \in Ids /\ t \in Range(task_queue) /\ task_id' = t
        /\ Range(task_queue) = Range(task_queue') \cup {t}
    BY <1>0, <1>3, RangePop DEF PopTask
  <2>2. Range(task_queue') = Range(task_queue) \/ Range(task_queue') = Range(task_queue) \ {t}
    BY <2>1
  <2>3. CASE t \in task_waker_list
    <3>1. Lifecycle!APoll(t)
      BY <1>3, <2>1, <2>2, <2>3 DEF Lifecycle!APoll, PopTask
    <3> QED
      BY <2>1, <3>1 DEF Lifecycle!ANext
  <2>4. CASE t \notin task_waker_list /\ Range(task_queue') = Range(task_queue)
    BY <1>3, <2>1, <2>4 DEF Lifecycle!avars, PopTask
  <2>5. CASE t \notin task_waker_list /\ Range(task_queue') = Range(task_queue) \ {t}
    <3>1. Lifecycle!AStale(t)
      BY <1>3, <2>1, <2>5 DEF Lifecycle!AStale, PopTask
    <3> QED
      BY <2>1, <3>1 DEF Lifecycle!ANext
  <2> QED
    BY <2>2, <2>3, <2>4, <2>5
<1>4. CASE PollReady
  <2>1. /\ task_id \in task_waker_list /\ task_id \in 0 .. next_id - 1
        /\ task_id \notin Range(spawn_queue)
    BY <1>4 DEF PollReady, IInv, WakeInv, PollLive, TaskIdentity
  <2>2. Lifecycle!AReady(task_id)
    BY <1>4, <2>1 DEF Lifecycle!AReady, PollReady
  <2> QED
    BY <1>0, <2>2 DEF Lifecycle!ANext
<1>5. CASE PollPending
  <2>1. Lifecycle!APending(task_id)
    BY <1>5 DEF Lifecycle!APending, PollPending
  <2> QED
    BY <1>0, <2>1 DEF Lifecycle!ANext
<1>6. CASE YieldNow
  <2>1. task_queue' = Append(task_queue, task_id)
    BY <1>6, Zenon DEF YieldNow
  <2>2. Range(task_queue') = Range(task_queue) \cup {task_id}
    <3>1. Range(Append(task_queue, task_id)) = Range(task_queue) \cup {task_id}
      BY ONLY <1>0, RangeAppend, SMTT(30)
    <3> QED BY <2>1, <3>1, Zenon
  <2>3. Lifecycle!AWake(task_id)
    BY <1>6, <2>2 DEF Lifecycle!AWake, YieldNow
  <2> QED
    BY <1>0, <2>3 DEF Lifecycle!ANext
<1>7. ASSUME NEW t \in Ids, NotifyOne(t) \/ WakeInterrupt(t) PROVE Lifecycle!ANext
  <2>1. task_queue' = Append(task_queue, t)
    BY <1>7, Zenon DEF NotifyOne, WakeInterrupt
  <2>2. Range(task_queue') = Range(task_queue) \cup {t}
    <3>1. Range(Append(task_queue, t)) = Range(task_queue) \cup {t}
      BY ONLY <1>0, t \in Ids, RangeAppend, SMTT(30)
    <3> QED BY <2>1, <3>1, Zenon
  <2>3. Lifecycle!AWake(t)
    BY <1>7, <2>2, Zenon DEF Lifecycle!AWake, NotifyOne, WakeInterrupt
  <2> QED
    BY <2>3 DEF Lifecycle!ANext
<1>8. CASE Run \/ DrainDone \/ PopEmpty \/ SleepIfIdle
  BY <1>8
  DEF Run, DrainDone, PopEmpty, SleepIfIdle, Disable, EnableAndHlt, Enable,
      Lifecycle!avars
<1>9. CASE RegisterWaker \/ LeaveMasked \/ IdleInterrupt
  BY <1>9, Zenon DEF RegisterWaker, LeaveMasked, IdleInterrupt, Lifecycle!avars
<1>10. CASE UNCHANGED vars
  BY <1>10 DEF vars, Lifecycle!avars
<1> QED
  BY <1>1, <1>2, <1>3, <1>4, <1>5, <1>6, <1>7, <1>8, <1>9, <1>10
  DEF Next, RunReadyTasks, PollReturns

\* The executor implements TaskLifecycle for any number of tasks: a task is
\* polled only while unfinished, one at a time, only after a wake, and a wake is
\* forgotten only by a poll or because the task had finished.
THEOREM Refinement == Spec => ImplementsLifecycle
<1>1. Init => Lifecycle!AInit
  BY LifecycleInit
<1>2. IInv /\ [Next]_vars => [Lifecycle!ANext]_(Lifecycle!avars)
  BY LifecycleNext
<1> QED
  BY <1>1, <1>2, Inductive, PTL DEF Spec, ImplementsLifecycle, Lifecycle!ASpec
=============================================================================
