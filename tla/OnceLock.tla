------------------------------ MODULE OnceLock ------------------------------
(***************************************************************************)
(* OnceLock<T> and the Lazy<T> built on it (util/once.rs), shared by       *)
(* threads that call any of its operations.  A value is named after the    *)
(* thread whose function made it; the write of it takes two steps, so that *)
(* a reader could see it half done.  The threads run on cores of their own *)
(* or, as in this kernel, on one: there a call that begins while another   *)
(* is in progress is a handler's, and nobody else runs until it returns.   *)
(***************************************************************************)
EXTENDS Naturals

CONSTANTS Threads,
          Uninit, Torn, Given,  \* contents: none, half written, with_value's
          MaxCalls              \* bound: calls made by one thread

ASSUME OnceLockAssumption ==
  /\ Uninit \notin Threads /\ Torn \notin Threads /\ Given \notin Threads
  /\ Uninit # Given /\ Torn # Given
  /\ MaxCalls \in Nat

VARIABLES
  machine, \* "cores", or "one_core"
  handler, \* the thread whose call is a handler's, as a set of at most one
  status,  \* the AtomicU8
  inner,   \* the UnsafeCell
  place,   \* where each thread is
  call,    \* the operation it is in
  calls,   \* how many it has begun
  ran,     \* how often an initialisation function was run
  oks,     \* how often try_init_once returned Ok
  seen     \* every content a reference was handed out to

onceVars == <<machine, handler, status, inner, place, call, calls, ran, oks, seen>>
coreVars == <<machine, handler>>

Operations == {"get", "try_get", "init_once", "try_init_once", "get_or_init"}
Contents == Threads \cup {Uninit, Torn, Given}

OnceTypeOK == /\ machine \in {"cores", "one_core"}
              /\ handler \subseteq Threads
              /\ status \in {"UNINIT", "RUNNING", "INIT"}
              /\ inner \in Contents
              /\ place \in [Threads -> {"idle", "check", "exchange", "func", "write",
                                        "store", "read", "panic"}]
              /\ call \in [Threads -> Operations]
              /\ calls \in [Threads -> 0 .. MaxCalls]
              /\ ran \in Nat /\ oks \in Nat
              /\ seen \subseteq Contents

\* OnceLock::new, or with_value.
OnceInit == /\ \/ status = "UNINIT" /\ inner = Uninit
               \/ status = "INIT" /\ inner = Given
            /\ machine \in {"cores", "one_core"} /\ handler = {}
            /\ place = [t \in Threads |-> "idle"]
            /\ call = [t \in Threads |-> "get"]
            /\ calls = [t \in Threads |-> 0]
            /\ ran = 0 /\ oks = 0
            /\ seen = {}

MoveTo(t, l) == place' = [place EXCEPT ![t] = l]

Panicked == \E t \in Threads : place[t] = "panic"

\* On one core nobody runs beside a handler, a handler is not interrupted, and a panic
\* stops the kernel.
Runs(t) == \/ machine = "cores"
           \/ ~Panicked /\ \A h \in handler : h = t \/ place[h] = "idle"
-----------------------------------------------------------------------------
Begin(t, op) ==
  /\ place[t] = "idle" /\ Runs(t)
  /\ calls[t] < MaxCalls
  /\ handler' = {u \in {t} : machine = "one_core" /\ \E v \in Threads : place[v] # "idle"}
  /\ calls' = [calls EXCEPT ![t] = @ + 1]
  /\ call' = [call EXCEPT ![t] = op]
  /\ MoveTo(t, "check")
  /\ UNCHANGED <<machine, status, inner, ran, oks, seen>>

\* Mutation: is_init takes a lock that is being initialised for initialised.
IsInitNotUninit == status # "UNINIT"

IsInit == status = "INIT"

\* What each operation does once is_init has answered TRUE or FALSE.
AfterCheck(op, init) ==
  CASE op = "get"           -> IF init THEN "read" ELSE "panic"
    [] op = "try_get"       -> IF init THEN "read" ELSE "idle"
    [] op = "get_or_init"   -> IF init THEN "read" ELSE "exchange"
    [] op = "init_once"     -> IF init THEN "idle" ELSE "exchange"
    [] op = "try_init_once" -> IF init THEN "idle" ELSE "exchange"

Check(t) ==
  /\ place[t] = "check"
  /\ MoveTo(t, AfterCheck(call[t], IsInit))
  /\ UNCHANGED <<coreVars, status, inner, call, calls, ran, oks, seen>>

\* try_init_inner has returned: what is left of each operation.
AfterInner(t) ==
  /\ MoveTo(t, IF call[t] = "get_or_init" THEN "read" ELSE "idle")
  /\ oks' = IF call[t] = "try_init_once" THEN oks + 1 ELSE oks

\* Mutation: the exchange also succeeds while another thread initialises.
ExchangeRunning(t) ==
  /\ place[t] = "exchange"
  /\ status # "INIT"
  /\ status' = "RUNNING"
  /\ MoveTo(t, "func")
  /\ UNCHANGED <<coreVars, inner, call, calls, ran, oks, seen>>

\* try_init_inner: the exchange of UNINIT for RUNNING succeeds (on x86 a weak
\* exchange does not fail by itself, so Err(UNINIT) does not occur) ...
Exchange(t) ==
  /\ place[t] = "exchange"
  /\ status = "UNINIT"
  /\ status' = "RUNNING"
  /\ MoveTo(t, "func")
  /\ UNCHANGED <<coreVars, inner, call, calls, ran, oks, seen>>

\* ... finds INIT and returns ...
ExchangeLost(t) ==
  /\ place[t] = "exchange"
  /\ status = "INIT"
  /\ AfterInner(t)
  /\ UNCHANGED <<coreVars, status, inner, call, calls, ran, seen>>

\* ... or finds RUNNING and spins.
Spin(t) ==
  /\ place[t] = "exchange"
  /\ status = "RUNNING"
  /\ UNCHANGED onceVars

RunFunc(t) ==
  /\ place[t] = "func"
  /\ ran' = ran + 1
  /\ inner' = Torn
  /\ MoveTo(t, "write")
  /\ UNCHANGED <<coreVars, status, call, calls, oks, seen>>

Write(t) ==
  /\ place[t] = "write"
  /\ inner' = t
  /\ MoveTo(t, "store")
  /\ UNCHANGED <<coreVars, status, call, calls, ran, oks, seen>>

\* Mutation: the initialiser leaves the lock in RUNNING.
StoreForgotten(t) ==
  /\ place[t] = "store"
  /\ AfterInner(t)
  /\ UNCHANGED <<coreVars, status, inner, call, calls, ran, seen>>

StoreInit(t) ==
  /\ place[t] = "store"
  /\ status' = "INIT"
  /\ AfterInner(t)
  /\ UNCHANGED <<coreVars, inner, call, calls, ran, seen>>

\* get_unchecked.
Read(t) ==
  /\ place[t] = "read"
  /\ seen' = seen \cup {inner}
  /\ MoveTo(t, "idle")
  /\ UNCHANGED <<coreVars, status, inner, call, calls, ran, oks>>

\* Every thread has made its calls or has panicked.
AllDone == /\ \/ machine = "one_core" /\ Panicked
              \/ \A t \in Threads : place[t] = "panic" \/ (place[t] = "idle" /\ calls[t] = MaxCalls)
           /\ UNCHANGED onceVars

ThreadStep(t) ==
  /\ Runs(t)
  /\ \/ Check(t) \/ Exchange(t) \/ ExchangeLost(t) \/ Spin(t) \/ RunFunc(t)
     \/ Write(t) \/ StoreInit(t) \/ Read(t)

OnceNext == \/ \E t \in Threads : ThreadStep(t) \/ \E op \in Operations : Begin(t, op)
            \/ AllDone

\* The core keeps executing, in the handler while there is one and else in the task,
\* and initialisation functions return. Nothing is assumed of several cores.
OnceFairness == WF_onceVars(machine = "one_core" /\ \E t \in Threads : ThreadStep(t))

OnceSpec == OnceInit /\ [][OnceNext]_onceVars
OnceFairSpec == OnceSpec /\ OnceFairness
-----------------------------------------------------------------------------
(* Properties *)

\* Every reference handed out is to one and the same complete value: never to
\* uninitialised or half-written memory, never to a value that is replaced; "the
\* inner function is only called once", among all threads.
ReadersAgree ==
  /\ seen \cap {Uninit, Torn} = {}
  /\ seen # {} => seen = {inner}
  /\ ran <= 1

Initialising(t) == place[t] \in {"func", "write", "store"}

\* The status tells which thread may touch the cell: nobody before and after the
\* initialisation, one thread during it; the cell is whole once the status says so.
StatusGuardsCell ==
  /\ OnceTypeOK
  /\ \A t, u \in Threads : Initialising(t) /\ Initialising(u) => t = u
  /\ (status = "RUNNING") <=> \E t \in Threads : Initialising(t)
  /\ status = "UNINIT" => ran = 0
  /\ status = "INIT" => ran <= 1 /\ inner \notin {Uninit, Torn}
  /\ \A t \in Threads :
       /\ place[t] = "func" => ran = 0
       /\ place[t] \in {"write", "store"} => ran = 1
       /\ place[t] = "store" => inner = t
       /\ place[t] = "read" => status = "INIT"
  /\ seen # {} => status = "INIT" /\ seen = {inner}

\* At most one try_init_once succeeds, as the tests of the module assert.
AtMostOneOk == oks <= 1

\* A handler spins above the initialiser it has interrupted, which cannot go on: for
\* ever.
HandlerSpins ==
  \E h \in handler : place[h] = "exchange" /\ \E t \in Threads \ {h} : Initialising(t)

\* On one core every call returns, unless a get has panicked, but for one case: a
\* handler that would initialise the cell while the task below it does. A handler that
\* only gets, as the kernel's do once interrupts are enabled, cannot hang.
CallsReturn ==
  machine = "one_core" =>
    \A t \in Threads : place[t] = "check" ~>
      (place[t] = "idle" \/ HandlerSpins \/ Panicked)
=============================================================================
