------------------------------- MODULE Tracer -------------------------------
(***************************************************************************)
(* The spans of SimpleLogger (tracer.rs). new_span, enter and exit each    *)
(* run with interrupts masked; between two of them a handler may come,     *)
(* which opens and closes a span of its own. The operations the running    *)
(* code still has to make, in its order, are in todo.                      *)
(***************************************************************************)
EXTENDS Naturals, Sequences, Functions

VARIABLES spans,  \* the metadata of the spans; the id of a span is its place
          stack,  \* the ids of the spans entered
          todo    \* operations of the running code: <<operation, span>>

tracerVars == <<spans, stack, todo>>

TracerInit == spans = <<>> /\ stack = <<>> /\ todo = <<>>

\* new_span: one id for all spans with the same metadata.
NewSpan(known, s) == IF s \in Range(known) THEN known ELSE Append(known, s)

IdOf(s) == CHOOSE i \in DOMAIN spans : spans[i] = s

\* exit pops whatever is on top.
Popped == IF stack = <<>> THEN <<>> ELSE SubSeq(stack, 1, Len(stack) - 1)

\* One call into the subscriber.
TraceStep ==
  LET op == todo[1]
  IN  /\ todo # <<>>
      /\ todo' = Tail(todo)
      /\ \/ op[1] = "new" /\ spans' = NewSpan(spans, op[2]) /\ UNCHANGED stack
         \/ op[1] = "enter" /\ stack' = Append(stack, IdOf(op[2])) /\ UNCHANGED spans
         \/ op[1] = "exit" /\ stack' = Popped /\ UNCHANGED spans

\* #[instrument] on a function called in a handler: opened and closed in one step.
HandlerSpan(s) == spans' = NewSpan(spans, s) /\ UNCHANGED <<stack, todo>>

Open(s)  == <<<<"new", s>>, <<"enter", s>>>>
Enter(s) == <<<<"enter", s>>>>
Exit(s)  == <<<<"exit", s>>>>

\* "this technically assumes that all spans are entered and exited in heirarchical
\* order": they are. An exit finds its own span on top of the stack, and event finds
\* the metadata of every span on the stack.
SpansHierarchical ==
  /\ \A i \in DOMAIN stack : stack[i] \in DOMAIN spans
  /\ todo # <<>> /\ todo[1][1] = "exit" =>
       stack # <<>> /\ spans[stack[Len(stack)]] = todo[1][2]
=============================================================================
