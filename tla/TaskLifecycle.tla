--------------------------- MODULE TaskLifecycle ---------------------------
(***************************************************************************)
(* What the executor promises to the futures handed to spawn: a task is    *)
(* started once, it is polled only while it is unfinished and only because *)
(* somebody woke it, one task at a time, and a wake is forgotten only by   *)
(* polling the task afterwards (or once the task has finished).            *)
(* Queues, the idle path and interrupts are not visible at this level.     *)
(***************************************************************************)
EXTENDS Naturals

CONSTANT Ids               \* the task identifiers

VARIABLES spawned,         \* handed to spawn, not yet started
          live,            \* started and not finished
          finished,        \* its future returned Ready
          woken,           \* has a wake that no poll has answered
          polling          \* the task being polled, as a set of at most one

avars == <<spawned, live, finished, woken, polling>>

AInit == /\ spawned = {} /\ live = {} /\ finished = {}
         /\ woken = {} /\ polling = {}

ASpawn(t) == /\ t \notin spawned \cup live \cup finished
             /\ spawned' = spawned \cup {t}
             /\ UNCHANGED <<live, finished, woken, polling>>

AStart(t) == /\ t \in spawned
             /\ polling = {}
             /\ spawned' = spawned \ {t}
             /\ live' = live \cup {t}
             /\ woken' = woken \cup {t}
             /\ UNCHANGED <<finished, polling>>

AWake(t) == /\ woken' = woken \cup {t}
            /\ UNCHANGED <<spawned, live, finished, polling>>

\* Wakes are counted, so one poll need not answer all of them.
APoll(t) == /\ t \in woken \cap live
            /\ polling = {}
            /\ polling' = {t}
            /\ woken' \in {woken, woken \ {t}}
            /\ UNCHANGED <<spawned, live, finished>>

APending(t) == /\ polling = {t}
               /\ polling' = {}
               /\ UNCHANGED <<spawned, live, finished, woken>>

AReady(t) == /\ polling = {t}
             /\ polling' = {}
             /\ live' = live \ {t}
             /\ finished' = finished \cup {t}
             /\ UNCHANGED <<spawned, woken>>

\* A wake of a finished task is dropped.
AStale(t) == /\ t \in woken \ live
             /\ polling = {}
             /\ woken' = woken \ {t}
             /\ UNCHANGED <<spawned, live, finished, polling>>

ANext == \E t \in Ids : \/ ASpawn(t) \/ AStart(t) \/ AWake(t) \/ APoll(t)
                        \/ APending(t) \/ AReady(t) \/ AStale(t)

ASpec == AInit /\ [][ANext]_avars
=============================================================================
