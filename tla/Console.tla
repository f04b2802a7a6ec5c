------------------------------- MODULE Console -------------------------------
(***************************************************************************)
(* Who draws on the screen, who logs, and what interrupts them: the clock  *)
(* task between its sleeps (display/clock.rs), prints of the keyboard task *)
(* (vga_buffer.rs), the events and spans of the tracer, the handlers that  *)
(* log or panic, and the panic handler (main.rs). It composes SleepService,*)
(* Display and Tracer. Tasks run one at a time, so the processor is at one *)
(* place, cpu; handlers come wherever interrupts are enabled. Serial output*)
(* is masked and touches nothing else. Three settings look at the parts:   *)
(* every drawing, every sleeper, and the kernel with its clock task.       *)
(***************************************************************************)
EXTENDS SleepService, Display, Tracer

CONSTANTS Settings,  \* a subset of {"pixels", "sleepers", "kernel"}
          Clock      \* the task that runs draw_clock

ASSUME ConsoleAssumption == Clock \in Tasks /\ \E c \in Colors : c # <<0, 0, 0>>

Supported == {i \in Infos : \/ i.pixel_format \in {"Rgb", "Bgr"} /\ i.bytes_per_pixel = 4
                            \/ i.pixel_format = "U8" /\ i.bytes_per_pixel = 1}

\* What texts and clock hands are drawn in, on black.
Ink == CHOOSE c \in Colors : c # <<0, 0, 0>>

VARIABLES
  setting,
  cpu,             \* where the processor is; "free": between polls or in SleepFuture
  caller,          \* where _print returns to
  display_locked, writer_locked,  \* the locks of DISPLAY and WRITER
  should_use_screen,              \* SHOULD_USE_SCREEN
  logger           \* "ok", or what an event met: the display taken, or no end

consoleVars == <<setting, cpu, caller, display_locked, writer_locked,
                 should_use_screen, logger>>
allVars == <<vars, displayVars, tracerVars, consoleVars>>

Booting == {"start", "boot", "main", "greeted"}
Drawing == {"clock_size", "clock_sized", "clock_lock", "clock_clear", "clock_hands",
            "clock_frame", "clock_unlock", "clock_sleep"}
Printing == {"glyph", "flush"}
Panicking == {"panic", "panic_lock", "panic_clear", "panic_text"}
Dead == {"exited", "overflow"}

ConsoleTypeOK ==
  /\ TypeOK /\ setting \in Settings
  /\ cpu \in {"free"} \cup Booting \cup Drawing \cup Printing \cup Panicking \cup Dead
  /\ {display_locked, writer_locked, should_use_screen} \subseteq BOOLEAN
  /\ logger \in {"ok", "warned", "recursing"}

ConsoleInit ==
  /\ NoSleeper /\ DisplayInit /\ TracerInit
  /\ setting \in Settings
  /\ cpu = IF setting = "kernel" THEN "start" ELSE "free"
  /\ interrupts = (cpu = "free")
  /\ caller = "boot" /\ display_locked = FALSE /\ writer_locked = FALSE
  /\ should_use_screen = TRUE /\ logger = "ok"
  /\ setting # "pixels" => info = CHOOSE i \in Supported : i.stride > i.width

Goes(from, to) == cpu = from /\ todo = <<>> /\ cpu' = to
-----------------------------------------------------------------------------
(* The sleeps of the tasks, with their spans *)

DrawsClock(t) == setting = "kernel" /\ t = Clock
InDrawClock(t) == DrawsClock(t) /\ "draw_clock" \in Range(spans)
Around(t, ops) == IF InDrawClock(t) THEN ops ELSE <<>>

\* The clock task sleeps for long at first (3 s), then for less (50 ms).
BeginSleep(t, d) ==
  /\ setting = "sleepers" \/ DrawsClock(t)
  /\ \/ Goes("free", "free") /\ (DrawsClock(t) => d = Max(Durations))
     \/ Goes("clock_sleep", "free") /\ d < Max(Durations)
  /\ New(t, d)
  /\ todo' = Open("sleep")
  /\ UNCHANGED <<displayVars, spans, stack, setting, caller, display_locked,
                 writer_locked, should_use_screen, logger>>

\* A poll of the task enters its spans from the outside in.
PollAgain(t) ==
  /\ cpu = "free" /\ todo = <<>>
  /\ todo' = Around(t, Enter("draw_clock")) \o Enter("sleep")
  /\ UNCHANGED <<displayVars, spans, stack, consoleVars>>

\* The sleep is over; the clock task goes on with its loop, and enters it first.
SleepEnds(t) ==
  /\ Goes("free", IF ~DrawsClock(t) THEN "free"
                  ELSE IF InDrawClock(t) THEN "clock_lock" ELSE "clock_size")
  /\ PollReady(t)
  /\ todo' = Exit("sleep") \o
       (IF DrawsClock(t) /\ ~InDrawClock(t) THEN Open("draw_clock") ELSE <<>>)
  /\ UNCHANGED <<displayVars, spans, stack, setting, caller, display_locked,
                 writer_locked, should_use_screen, logger>>

SleepWaits(t) ==
  /\ cpu = "free" /\ todo = <<>>
  /\ PollPending(t)
  /\ todo' = IF registered[t] THEN Exit("sleep") \o Around(t, Exit("draw_clock"))
             ELSE Open("register_sleep")
  /\ UNCHANGED <<displayVars, spans, stack, consoleVars>>

\* Mutation: the span is left when the sleep is over, not at the end of each poll.
RegistersSpanHeld(t) ==
  /\ cpu = "free" /\ todo = <<>>
  /\ \/ RegisterLock(t) /\ UNCHANGED todo
     \/ RegisterInsert(t) /\ todo' = Exit("register_sleep")
  /\ UNCHANGED <<displayVars, spans, stack, consoleVars>>

Registers(t) ==
  /\ cpu = "free" /\ todo = <<>>
  /\ \/ RegisterLock(t) /\ UNCHANGED todo
     \/ /\ RegisterInsert(t)
        /\ todo' = Exit("register_sleep") \o Exit("sleep") \o Around(t, Exit("draw_clock"))
  /\ UNCHANGED <<displayVars, spans, stack, consoleVars>>

Polled(t) == SleepEnds(t) \/ SleepWaits(t) \/ Registers(t)

Traces == /\ cpu \notin Panicking \cup Dead
          /\ TraceStep
          /\ UNCHANGED <<vars, displayVars, consoleVars>>
-----------------------------------------------------------------------------
(* The clock task awake. Its use of RTC is module Rtc's; interrupts it leaves masked
   (module IntMutex) only take interleavings away from these. *)

\* The look at the time: if it is the same as before, back to sleep.
ClockUnchanged ==
  /\ Goes("clock_lock", "clock_sleep")
  /\ UNCHANGED <<vars, displayVars, tracerVars, setting, caller, display_locked,
                 writer_locked, should_use_screen, logger>>

\* DISPLAY is taken once before the loop, for the size of the screen, and for every
\* picture of the clock.
ClockLock ==
  /\ Goes("clock_size", "clock_sized") \/ Goes("clock_lock", "clock_clear")
  /\ ~display_locked
  /\ display_locked' = TRUE
  /\ UNCHANGED <<vars, displayVars, tracerVars, setting, caller, writer_locked,
                 should_use_screen, logger>>

\* Computed before the loop.
Crop == [x |-> Width - 1, y |-> 0, width |-> 1, height |-> Height]

\* Mutation: the task sleeps before it has shown the frame.
ClockDrawsNotShown ==
  /\ \/ Goes("clock_clear", "clock_hands") /\ FillSolid(Crop, <<0, 0, 0>>)
     \/ Goes("clock_hands", "clock_unlock") /\ DrawPixel(Width - 1, 0, Ink)
  /\ UNCHANGED <<vars, tracerVars, setting, caller, display_locked, writer_locked,
                 should_use_screen, logger>>

\* The drawing, with interrupts enabled; its geometry is one pixel.
ClockDraws ==
  /\ \/ Goes("clock_clear", "clock_hands") /\ FillSolid(Crop, <<0, 0, 0>>)
     \/ Goes("clock_hands", "clock_frame") /\ DrawPixel(Width - 1, 0, Ink)
     \/ Goes("clock_frame", "clock_unlock") /\ DrawFrame
  /\ UNCHANGED <<vars, tracerVars, setting, caller, display_locked, writer_locked,
                 should_use_screen, logger>>

\* The guard is dropped before the loop, and before the sleep.
ClockUnlock ==
  /\ Goes("clock_sized", "clock_lock") \/ Goes("clock_unlock", "clock_sleep")
  /\ display_locked' = FALSE
  /\ UNCHANGED <<vars, displayVars, tracerVars, setting, caller, writer_locked,
                 should_use_screen, logger>>
-----------------------------------------------------------------------------
(* _print of vga_buffer.rs *)

\* The warning is an event, and prints to the screen again if events do: with the
\* display still taken, without end.
Warn(to) ==
  /\ logger' = IF should_use_screen THEN "recursing" ELSE "warned"
  /\ cpu' = IF should_use_screen THEN "overflow" ELSE to
  /\ interrupts' = (interrupts /\ ~should_use_screen)
  /\ UNCHANGED <<display_locked, writer_locked>>

WriteText(to) ==
  /\ caller' = to
  /\ IF display_locked THEN Warn(to)
     ELSE /\ ~writer_locked
          /\ display_locked' = TRUE /\ writer_locked' = TRUE
          /\ interrupts' = FALSE
          /\ cpu' = "glyph"
          /\ UNCHANGED logger
  /\ UNCHANGED <<mono, service, locked, woken, running, pc, futureVars, displayVars,
                 tracerVars, setting, should_use_screen>>

\* The keyboard task echoes a key.
Echo == /\ setting = "kernel" /\ cpu = "free" /\ todo = <<>> /\ running = {}
        /\ WriteText("free")

\* write_fmt: a glyph, or a full screen is cleared.
Glyph ==
  /\ cpu = "glyph" /\ cpu' = "flush"
  /\ \/ DrawPixel(0, 0, Ink)
     \/ Clear(<<0, 0, 0>>)
  /\ UNCHANGED <<vars, tracerVars, setting, caller, display_locked, writer_locked,
                 should_use_screen, logger>>

\* Backspace at the top left panics inside write_fmt, with both guards alive.
GlyphPanics ==
  /\ cpu = "glyph" /\ caller = "free"
  /\ cpu' = "panic"
  /\ UNCHANGED <<vars, displayVars, tracerVars, setting, caller, display_locked,
                 writer_locked, should_use_screen, logger>>

Flush ==
  /\ cpu = "flush" /\ cpu' = caller
  /\ DrawFrame
  /\ display_locked' = FALSE /\ writer_locked' = FALSE
  /\ interrupts' = (caller \notin Booting \cup Panicking)
  /\ UNCHANGED <<mono, service, locked, woken, running, pc, futureVars, tracerVars,
                 setting, caller, should_use_screen, logger>>
-----------------------------------------------------------------------------
(* Boot and handlers *)

sleepVars == <<mono, service, locked, woken, running, pc, futureVars>>

\* kernel::init clears the back buffer before the first event ...
BootClear ==
  /\ Goes("start", "boot") /\ ~display_locked
  /\ Clear(<<0, 0, 0>>)
  /\ UNCHANGED <<vars, tracerVars, setting, caller, display_locked, writer_locked,
                 should_use_screen, logger>>

\* ... and every event is text on the screen, ...
BootText == cpu = "boot" /\ WriteText("boot")

\* Mutation: kernel_main leaves events on the screen.
UseSerialOnlyForgotten ==
  /\ Goes("boot", "main")
  /\ UNCHANGED <<vars, displayVars, tracerVars, setting, caller, display_locked,
                 writer_locked, should_use_screen, logger>>

\* ... until kernel_main turns that off.
UseSerialOnly ==
  /\ Goes("boot", "main")
  /\ should_use_screen' = FALSE
  /\ UNCHANGED <<vars, displayVars, tracerVars, setting, caller, display_locked,
                 writer_locked, logger>>

\* "Hello World!", once the tasks are spawned.
Greet == cpu = "main" /\ WriteText("greeted")

\* run(): the executor enables interrupts.
Run ==
  /\ Goes("greeted", "free")
  /\ interrupts' = TRUE
  /\ UNCHANGED <<sleepVars, displayVars, tracerVars, setting, caller, display_locked,
                 writer_locked, should_use_screen, logger>>

ClockTick ==
  /\ ClockInterrupt \/ ClockAtBound
  /\ HandlerSpan("wake_sleep")
  /\ UNCHANGED <<displayVars, consoleVars>>

\* An event of a handler: the scancode queue is full.
HandlerWarns ==
  /\ setting = "kernel" /\ interrupts
  /\ IF should_use_screen THEN WriteText(cpu) ELSE UNCHANGED allVars

\* A boot step fails, or a handler panics (an error or spurious interrupt).
Panics ==
  /\ cpu \in {"boot", "main"} \/ (setting = "kernel" /\ interrupts)
  /\ cpu' = "panic" /\ interrupts' = FALSE
  /\ UNCHANGED <<sleepVars, displayVars, tracerVars, setting, caller, display_locked,
                 writer_locked, should_use_screen, logger>>
-----------------------------------------------------------------------------
(* The panic handler of main.rs *)

PanicEvent ==
  /\ cpu = "panic"
  /\ IF should_use_screen THEN WriteText("panic_lock")
     ELSE /\ cpu' = "panic_lock"
          /\ UNCHANGED <<vars, displayVars, tracerVars, setting, caller, display_locked,
                         writer_locked, should_use_screen, logger>>

\* Mutation: the handler waits for the guard of the code that panicked.
PanicLockWaits ==
  /\ cpu = "panic_lock"
  /\ IF display_locked THEN UNCHANGED <<cpu, display_locked>>
     ELSE cpu' = "panic_clear" /\ display_locked' = TRUE

\* force_unlock, then spin_lock, with interrupts masked.
PanicLock ==
  /\ cpu = "panic_lock"
  /\ cpu' = "panic_clear"
  /\ display_locked' = TRUE

\* No frame is shown: the message stays in the back buffer.
PanicDraws ==
  \/ cpu = "panic_clear" /\ cpu' = "panic_text" /\ Clear(<<0, 0, 0>>)
  \/ cpu = "panic_text" /\ cpu' = "exited" /\ DrawPixel(0, 0, Ink)

PanicStep ==
  \/ PanicEvent
  \/ /\ PanicLock
     /\ UNCHANGED <<vars, displayVars, tracerVars, setting, caller, writer_locked,
                    should_use_screen, logger>>
  \/ /\ PanicDraws
     /\ UNCHANGED <<vars, tracerVars, setting, caller, display_locked, writer_locked,
                    should_use_screen, logger>>
-----------------------------------------------------------------------------
\* The display by itself.
Pixels ==
  /\ setting = "pixels" /\ ~unsupported
  /\ DrawSomething \/ DrawFrame
  /\ UNCHANGED <<vars, tracerVars, consoleVars>>

Halted == /\ cpu \in Dead \/ setting = "pixels"
          /\ UNCHANGED allVars

CpuStep == \/ Traces \/ ClockUnchanged \/ ClockLock \/ ClockDraws \/ ClockUnlock
           \/ Glyph \/ GlyphPanics \/ Flush \/ PanicStep

Woken(t) == PollWoken(t) /\ PollAgain(t)
Spurious(t) == PollSpurious(t) /\ PollAgain(t)

ConsoleNext ==
  \/ \E t \in Tasks : \/ \E d \in Durations : BeginSleep(t, d)
                      \/ Woken(t) \/ Spurious(t) \/ Polled(t)
  \/ CpuStep \/ Echo
  \/ BootClear \/ BootText \/ UseSerialOnly \/ Greet \/ Run
  \/ setting # "pixels" /\ (ClockTick \/ HandlerWarns \/ Panics)
  \/ Pixels \/ Halted

\* The processor goes on with what it is at, the executor polls woken tasks, however
\* often others are polled in between (WokenIsPolled of module Executor), and a clock
\* interrupt that comes while interrupts are masked is kept until they are not.
ConsoleFairness ==
  /\ \A t \in Tasks : WF_allVars(Polled(t)) /\ SF_allVars(Woken(t))
  /\ WF_allVars(CpuStep)
  /\ SF_allVars(ClockTick)

ConsoleSpec == ConsoleInit /\ [][ConsoleNext]_allVars /\ ConsoleFairness
-----------------------------------------------------------------------------
(* Properties *)

\* The ticks wakers are stored for, within the bound.
Deadlines == 1 .. MaxTime - 2

\* A sleeper finishes once the clock has passed the latest deadline stored, whatever
\* other tasks, prints and handlers do in between, unless the kernel panics or a
\* deadline that is later still is stored first. wake_sleep returns early while one
\* deadline lies ahead, so a task that goes on storing later ones keeps everybody
\* asleep. Those behaviours, which the bound on the clock cuts off, are excepted here.
SleepersFinish ==
  \A t \in Tasks, k \in Deadlines :
    pc[t] = "pending" /\ (\A e \in service : e[1] <= k)
      ~> \/ pc[t] = "idle" \/ cpu \in Panicking \cup Dead
         \/ \E e \in service : e[1] > k

\* Spans nest as exit assumes, and no span stays open from one poll to the next: each
\* poll of a sleeping task enters its spans and leaves them, whatever handlers do.
SpansClosed ==
  /\ ConsoleTypeOK
  /\ SpansHierarchical
  /\ cpu = "free" /\ running = {} /\ todo = <<>> => stack = <<>>

\* Nobody finds the display taken: "Tried to write to screen while someone else is"
\* is never logged (while events go to the screen it would be without end), and the
\* clock task never waits for it.
DisplayFree == /\ logger = "ok"
               /\ cpu \in {"clock_size", "clock_lock"} => ~display_locked

\* Between polls the screen shows everything that was drawn, and nothing of what the
\* bootloader left on it: the clear of kernel::init shows no frame, the greeting does.
ScreenUpToDate == setting = "kernel" /\ cpu = "free" => Shown = Drawn

\* A panic during boot, in a handler or in the code that holds the display ends in
\* exit_qemu.
PanicEnds == cpu \in Panicking ~> cpu = "exited"
=============================================================================
