------------------------------ MODULE Keyboard ------------------------------
(***************************************************************************)
(* Scancodes from the keyboard interrupt to the task that prints them      *)
(* (keyboard.rs): add_scancode in the handler, ScancodeStream::poll_next   *)
(* in the task, and the AtomicWaker between them.  The handler is one step *)
(* and may come between any two steps of the task, also inside register.   *)
(***************************************************************************)
EXTENDS Naturals, Sequences

CONSTANTS Capacity,     \* of SCANCODE_QUEUE, 100 in the kernel
          MaxScancodes  \* bound: keys pressed

ASSUME KeyboardAssumption == Capacity \in Nat \ {0} /\ MaxScancodes \in Nat

VARIABLES
  init,     \* whether SCANCODE_QUEUE is initialised
  queue,    \* the scancodes in it, numbered in the order of the key presses
  pressed,  \* keys pressed so far
  taken,    \* the scancodes poll_next returned
  dropped,  \* the scancodes that never entered the queue
  stored,   \* WAKER holds the task's waker
  waking,   \* AtomicWaker's WAKING bit, set by a wake during register
  woken,    \* the task is in the ready queue
  pc        \* where the task is

vars == <<init, queue, pressed, taken, dropped, stored, waking, woken, pc>>

TypeOK == /\ init \in BOOLEAN
          /\ queue \in Seq(1 .. MaxScancodes) /\ Len(queue) <= Capacity
          /\ pressed \in 0 .. MaxScancodes
          /\ taken \in Seq(1 .. MaxScancodes)
          /\ dropped \subseteq 1 .. MaxScancodes
          /\ stored \in BOOLEAN /\ waking \in BOOLEAN /\ woken \in BOOLEAN
          /\ pc \in {"new", "pop", "register", "registering", "repop", "waiting"}

\* print_keypresses has been spawned; its first poll runs ScancodeStream::new.
Init == /\ init = FALSE /\ queue = <<>> /\ pressed = 0 /\ taken = <<>> /\ dropped = {}
        /\ stored = FALSE /\ waking = FALSE /\ woken = FALSE
        /\ pc = "new"
-----------------------------------------------------------------------------
New == /\ pc = "new"
       /\ init' = TRUE
       /\ pc' = "pop"
       /\ UNCHANGED <<queue, pressed, taken, dropped, stored, waking, woken>>

\* poll_next's first pop: Ready, and the task asks for the next one ...
PopReady ==
  /\ pc = "pop"
  /\ queue # <<>>
  /\ queue' = Tail(queue)
  /\ taken' = Append(taken, Head(queue))
  /\ UNCHANGED <<init, pressed, dropped, stored, waking, woken, pc>>

\* ... or nothing.
PopEmpty ==
  /\ pc = "pop"
  /\ queue = <<>>
  /\ pc' = "register"
  /\ UNCHANGED <<init, queue, pressed, taken, dropped, stored, waking, woken>>

\* AtomicWaker::register: the slot is locked, written and unlocked; a wake that
\* came in between is carried out at the end.
RegisterBegin ==
  /\ pc = "register"
  /\ stored' = FALSE
  /\ pc' = "registering"
  /\ UNCHANGED <<init, queue, pressed, taken, dropped, waking, woken>>

RegisterEnd ==
  /\ pc = "registering"
  /\ stored' = ~waking
  /\ woken' = (woken \/ waking)
  /\ waking' = FALSE
  /\ pc' = "repop"
  /\ UNCHANGED <<init, queue, pressed, taken, dropped>>

\* The second pop: Ready after WAKER.take() ...
RepopReady ==
  /\ pc = "repop"
  /\ queue # <<>>
  /\ queue' = Tail(queue)
  /\ taken' = Append(taken, Head(queue))
  /\ stored' = FALSE
  /\ pc' = "pop"
  /\ UNCHANGED <<init, pressed, dropped, waking, woken>>

\* Mutation: the second pop is left out.
RepopSkipped ==
  /\ pc = "repop"
  /\ pc' = "waiting"
  /\ UNCHANGED <<init, queue, pressed, taken, dropped, stored, waking, woken>>

\* ... or Pending.
RepopEmpty ==
  /\ pc = "repop"
  /\ queue = <<>>
  /\ pc' = "waiting"
  /\ UNCHANGED <<init, queue, pressed, taken, dropped, stored, waking, woken>>

\* The executor polls the woken task; a stale wake polls it as well.
Poll == /\ pc = "waiting"
        /\ woken
        /\ woken' = FALSE
        /\ pc' = "pop"
        /\ UNCHANGED <<init, queue, pressed, taken, dropped, stored, waking>>
-----------------------------------------------------------------------------
\* AtomicWaker::wake.
Wake == IF pc = "registering"
          THEN waking' = TRUE /\ UNCHANGED <<stored, woken>>
          ELSE /\ woken' = (woken \/ stored)
               /\ stored' = FALSE
               /\ UNCHANGED waking

\* Mutation: a full queue gives up its oldest scancode.
AddScancodeOverwrites ==
  /\ pressed < MaxScancodes
  /\ pressed' = pressed + 1
  /\ IF init
       THEN /\ queue' = IF Len(queue) < Capacity THEN Append(queue, pressed')
                        ELSE Append(Tail(queue), pressed')
            /\ Wake
            /\ UNCHANGED dropped
       ELSE /\ dropped' = dropped \cup {pressed'}
            /\ UNCHANGED <<queue, stored, waking, woken>>
  /\ UNCHANGED <<init, taken, pc>>

\* keyboard_interrupt_handler: a scancode is queued and the task woken, or it is
\* dropped because there is no queue yet or no room.
AddScancode ==
  /\ pressed < MaxScancodes
  /\ pressed' = pressed + 1
  /\ IF init /\ Len(queue) < Capacity
       THEN /\ queue' = Append(queue, pressed')
            /\ Wake
            /\ UNCHANGED dropped
       ELSE /\ dropped' = dropped \cup {pressed'}
            /\ UNCHANGED <<queue, stored, waking, woken>>
  /\ UNCHANGED <<init, taken, pc>>

TaskStep == \/ New \/ PopReady \/ PopEmpty \/ RegisterBegin \/ RegisterEnd
            \/ RepopReady \/ RepopEmpty \/ Poll

\* Every key has been pressed and the task waits for more.
NoMoreKeys == pc = "waiting" /\ ~woken /\ pressed = MaxScancodes /\ UNCHANGED vars

Next == TaskStep \/ AddScancode \/ NoMoreKeys

Spec == Init /\ [][Next]_vars
-----------------------------------------------------------------------------
(* Properties *)

\* No scancode is stranded: while the task waits with scancodes in the queue, its
\* wake is on the way, wherever in poll_next the interrupts came.
NoStrandedScancode == pc = "waiting" /\ queue # <<>> => woken

\* Scancodes come out in the order of the key presses, each once, and every one
\* that was not dropped is either taken or still queued, in a queue that never
\* outgrows its allocation.
OrderKept ==
  LET out == taken \o queue
  IN  /\ Len(queue) <= Capacity
      /\ \A i, j \in DOMAIN out : i < j => out[i] < out[j]
      /\ {out[i] : i \in DOMAIN out} = (1 .. pressed) \ dropped
=============================================================================
