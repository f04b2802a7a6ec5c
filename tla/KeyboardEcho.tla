---------------------------- MODULE KeyboardEcho ----------------------------
(***************************************************************************)
(* print_keypresses (keyboard.rs): the scancodes that come out of the      *)
(* stream of module Keyboard are decoded and printed by VgaWriter.  Which  *)
(* character a scancode gives, if any, is the pc_keyboard crate's choice.  *)
(* The print is part of the step that takes the scancode; interrupts only  *)
(* touch the queue.                                                        *)
(***************************************************************************)
EXTENDS Keyboard, VgaWriter

CONSTANT MaxLine  \* bound: lines the cursor may go below the screen

allVars == <<vars, writerVars>>

EchoInit == Init /\ WriterInit

\* A scancode is taken and printed, or decodes to no character.
TakeAndPrint ==
  /\ PopReady \/ RepopReady
  /\ \/ \E c \in Characters : /\ c = "line_feed" => y_pos < info.height + 15 * MaxLine
                              /\ PrintChar(c)
     \/ ~panicked /\ UNCHANGED writerVars

\* The other steps of the task.
StreamStep == /\ New \/ PopEmpty \/ RegisterBegin \/ RegisterEnd \/ RepopEmpty \/ Poll
              /\ ~panicked
              /\ UNCHANGED writerVars

\* A panic ends the kernel.
KeyPressed == AddScancode /\ ~panicked /\ UNCHANGED writerVars

Stopped == (NoMoreKeys \/ panicked) /\ UNCHANGED allVars

EchoNext == TakeAndPrint \/ StreamStep \/ KeyPressed \/ Stopped

EchoSpec == EchoInit /\ [][EchoNext]_allVars
\* The task's poll runs on, and the executor polls it when it is woken.
EchoFairSpec == EchoSpec /\ WF_allVars(TakeAndPrint \/ StreamStep)
-----------------------------------------------------------------------------
\* A queued scancode is taken and echoed, unless the writer has panicked.
KeysAreEchoed ==
  \A k \in 1 .. MaxScancodes :
    (\E i \in DOMAIN queue : queue[i] = k)
      ~> (panicked \/ \E i \in DOMAIN taken : taken[i] = k)
=============================================================================
