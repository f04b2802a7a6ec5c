# A formal model of zoom-os

zoom-os is a small x86-64 kernel in Rust. It runs on one core, starts a cooperative
executor of async tasks and lets interrupt handlers wake them. This directory holds TLA+
modules for the parts in which steps of several actors meet or long sequences of calls
matter, the TLC configurations that check them on small instances, and proofs checked by
TLAPS. Paths below are relative to `src/kernel/src/`.

## The system

| Part | Source | Talks to | Model |
|---|---|---|---|
| Executor: spawn, ready queue, idle | `task/executor.rs`, `task/mod.rs` | all tasks; woken by handlers | `Executor`, `TaskLifecycle` |
| Waker list, `yield_now` | `util/async/waker_list.rs`, `util/async/mod.rs` | executor, mutex | in `Executor` and `Mutex` |
| Async mutex | `util/async/mutex.rs` | executor, every shared structure | `Mutex`; `force_unlock` in `Console` |
| Interrupt-masking mutex | `util/async/mutex.rs` | only instance: `RTC` | `IntMutex` |
| Sleep service | `util/async/sleep_future.rs` | clock handler, executor | `SleepService`, in `Console` |
| One-time cell and `Lazy` | `util/once.rs` | all statics | `OnceLock` |
| Frame allocation | `memory.rs` | heap, page mapping | `FrameAllocator`, in `Boot` |
| Heap: size classes over a linked-list heap | `allocator.rs`, `allocator/block.rs` | everything that allocates, handlers included | `BlockAllocator` |
| Real-time clock | `rtc.rs` | clock handler, clock task, boot | `Rtc` over `IntMutex` |
| Keyboard stream and echo | `keyboard.rs` | keyboard handler, screen writer | `Keyboard`, `KeyboardEcho` |
| Screen text writer | `vga_buffer.rs` | display, tracer | `VgaWriter`; `_print` in `Console` |
| Interrupt handlers | `interrupts.rs` | all of the above | one action in each module concerned |
| Display | `framebuffer.rs`, `display/mod.rs` | writer, clock task, panic | `Display`, `Picture` |
| Clock task | `display/clock.rs` | RTC, display, sleep | `Console`; its locking of RTC in `Rtc` |
| Tracer, serial port | `tracer.rs`, `serial.rs` | everything that logs | `Tracer`, in `Console` |
| Page mapping, ACPI | `memory/mapping.rs`, `acpi.rs` | frames, controllers | `AcpiWindow`, in `Boot` |
| Interrupt controllers | `apic.rs`, `pic.rs` | page mapping, handlers | `InterruptControllers`, in `Boot` |
| Boot, panic | `main.rs`, `lib.rs`, `gdt.rs` | everything | `Boot` (memory to controllers), `Console` (screen, panic), `Rtc` |
| Linked-list allocator | `allocator/linked_list.rs` | nothing (unused) | `LinkedList` |
| Tests, build, emulator exit | `testing.rs`, `test.rs`, `qemu.rs`, `util/mod.rs`, `build.rs` | | not modelled |

Concurrency. There is one core. Handlers are behind interrupt gates, so a handler is not
interrupted, and is one step of a model unless it waits for a lock (`IntMutex`, `Rtc`).
It is taken only while the interrupt flag is set. Tasks switch only where they await; but
a handler may come between any two steps of a task, so a task's call is split at every
access to state that a handler shares. `Mutex` and `OnceLock` are also used as libraries:
they are modelled at the granularity of their atomic operations, and checked and proved
for several cores or threads as well. Memory is taken to be sequentially consistent.

## The modules

**Executor** implements **TaskLifecycle**. State: `spawn_queue`, `task_queue`, the keys of
`task_waker_list`, the wakers that event sources hold (`registered`), the interrupt flag,
`hlt`, and the position of `run`. Actions: `Run`, `DrainSpawn`/`DrainDone`,
`PopTask`/`PopEmpty`, the poll's two results, `Disable`/`EnableAndHlt`/`Enable` for
`sleep_if_idle`, and for the polled task everything a future may do: spawn, store its
waker, yield, be notified, leave with interrupts masked. `WakeInterrupt` and
`IdleInterrupt` are the handlers. TaskLifecycle says what a future may rely on: it is
started once, polled one at a time and only when woken, and no wake is forgotten without
a later poll. The refinement maps queues to sets.

**SleepService**. State: the clock, the wakers stored by deadline, their lock, the flag,
and each task's `SleepFuture`. A poll is the steps check, lock, insert; `ClockInterrupt` is
the handler with the whole of `wake_sleep`, its early return included. `due` remembers the
tick at which the whole duration has passed.

**Console** composes SleepService, **Display** and **Tracer**: who draws, who logs and what
interrupts them. Tasks run one at a time, so the processor is at one place, `cpu`: in boot
(the first `clear`, texts, `SHOULD_USE_SCREEN` turned off, the greeting, `run`), in the
clock task's drawing, in `_print`, in the panic handler, or free. The clock task takes the
display twice: before its loop, for the size, and for every picture. Handlers tick the clock,
log or panic wherever interrupts are enabled. A poll enters the spans of its task and
leaves them again, one call of the subscriber at a time (`todo`), with handlers in
between. A panic strikes in boot, in a handler, or inside `_print` with both guards alive. The
variable `setting` is chosen in `ConsoleInit`: the display with every drawing, two
sleepers, or the kernel from the first `clear` on with its clock task, prints and panics.

**Display** is the back buffer and the framebuffer as functions from offsets to bytes. A
copy through a raw pointer writes wherever its arithmetic leads, and a write outside a
buffer would enlarge its domain. `Display::new` zeroes the back buffer only, so the
framebuffer begins with whatever the bootloader left in it (`BootScreens`). Display
implements **Picture**, which knows points and shades only: a drawing gives one shade to a
rectangle of the hidden picture, a frame makes the whole of it visible, and what is
visible at first is arbitrary. **Tracer** is the span table and the span stack.

**Mutex**. One mutex, its flag and waker list; tasks that call `lock`, `try_lock`,
`spin_lock`, and may await with the guard. The variable `setting` is chosen in `Init`: how
many tasks run at a time, which operations they call, whether tasks are also polled
without a wake.

**IntMutex** and **Rtc**. IntMutex is the mutex that masks interrupts, with its two global
counters, used by the contexts "task" and "handler" after a number of guards taken during
boot (two in the kernel; zero shows the type by itself, and only there does a drop find
the count at one). Rtc composes it with what the holders do to the chip: a guard's life is
a sequence of register accesses, each a selection and a transfer, for `rtc::init`,
`read_date_time` and `clear_interrup_mask`. The chip updates seconds and minutes one at a
time under its update-in-progress bit, in binary or in BCD, and raises a periodic interrupt only
after register C has been read. What its registers show, date by date, is one of `Chips`
and need not be a date: `read_date_time` then tries again under the same guard, with
interrupts masked, which `UpdateGuard` does together with the loop around an update. One
assumption on time: an update does not begin and end within one masked pass over the
registers (a pass takes microseconds, updates come once a second).

**OnceLock**. Threads that call any of its operations; the write of the value takes two
steps, so that a reader could see it half done. The variable `machine` says whether they run
on cores of their own, as the type allows, or on the kernel's one. There a call that begins
while another is in progress is a handler's, and nobody else runs until it has returned.

**Boot** composes **FrameAllocator**, **AcpiWindow** and **InterruptControllers** to
`kernel::init`. FrameAllocator is the boot-time walk of the memory map, step by step, the
hand-over, and the range allocator with sorting and joining. The sort, the joining and the
loop over the overrides are functions of how many elements they have gone through, so that
TLC computes them and the proofs can go through them by induction. AcpiWindow is the kernel's
address layout and the window in which the acpi crate maps physical regions, page by
page, and gives them back in any order; `reordered` remembers whether one was dropped before
a younger one. InterruptControllers is the choice between APIC and PIC, the redirection
tables with their overrides, and where the end of an interrupt is told. Two things the
kernel never sets are what the firmware left: the local APIC's enable bit (the call of
`enable` is commented out, `apic.rs:88`) and the masks of the 8259 pair, which `initialize`
writes back. `CheckLapic` and `MapLapic` have the errors with which `apic::init` ends the
boot. They meet in `map_to`: page
tables are frames of the frame allocator, and a page that is present, or a frame that is
not to be had, is an error that the callers unwrap. `MCBoot` gives memory maps, regions
and interrupt models; `MCFrameAllocator` the maps for FrameAllocator alone.

**BlockAllocator**, **LinkedList**. BlockAllocator is the lists of cached blocks over the
heap (external: first fit, where what is left of a hole on either side is nothing or a
hole), by a task in three steps (mask and lock, serve, unlock and restore the flag) and by
handlers in between. The task may have masked interrupts itself (`SetFlag`).
Requests are layouts; sizes are in units of 8 bytes. LinkedList is the kernel's own
list of free regions, which it does not use. `MCHeap` gives both the same five layouts.

**Keyboard**, **VgaWriter**, **KeyboardEcho**. `Keyboard` is the queue filled by the handler and
the stream's `poll_next` with the two halves of `AtomicWaker::register`. `VgaWriter` is the cursor
in pixels, wrapping, clearing and backspace, and the set of glyphs on the screen.
`KeyboardEcho` composes them to `print_keypresses`; `MCKeyboardEcho` gives screens.

## The runs

`tlc -config X.cfg M` for each; the largest, `console`, takes about two minutes.

| Run | Module, cfg | Shows |
|---|---|---|
| executor | `Executor`, `Executor.cfg` | `HaltIsWakeable`, `NoLostWakeup`, `TaskIdentity`; refinement `ImplementsLifecycle`; `WokenIsPolled`, `SpawnedStarts` |
| console | `MCConsole`, `Console.cfg` | `LockFreeInInterrupt`, `NoForgottenSleeper`, `SleepLasts`, `SleepersFinish`; `SpansClosed`, `DisplayFree`, `ScreenUpToDate`, `PanicEnds`; `BuffersKept`, refinement `ImplementsPicture` |
| sleep_late | `SleepService`, `SleepLate.cfg` | counterexample to `DueSleepersWoken` |
| mutex | `MCMutex`, `Mutex.cfg` | `OneGuard`; on one core `WaiterHasWaker`, `LockReturns` |
| rtc | `MCRtc`, `Rtc.cfg` | `HandlerNeverSpins`, `DateIsWhole`, `InterruptsReturn`, `ClockGoesOn` |
| int_mutex_restore | `IntMutex`, `IntMutexRestore.cfg` | counterexample to `LastGuardRestores` |
| once_lock | `OnceLock`, `OnceLock.cfg` | `StatusGuardsCell`, `ReadersAgree`, `CallsReturn` |
| once_lock_oks | `OnceLock`, `OnceLockOks.cfg` | counterexample to `AtMostOneOk` |
| boot | `MCBoot`, `Boot.cfg` | `FramesHaveOneOwner`, `FramesConserved`; `WindowSound`, `RegionShown`; `RefusalsExplained`, `DevicesReachHandlers` |
| frames_usable | `MCFrameAllocator`, `FramesUsable.cfg` | counterexample to `OnlyUsableFrames` |
| keyboard | `MCKeyboardEcho`, `Keyboard.cfg` | `NoStrandedScancode`, `OrderKept`, `TextKept`, `KeysAreEchoed` |
| heap | `MCHeap`, `Heap.cfg` | `HeapLockFree`, `MemorySound`, `LossExplained` |

Properties of one question are one definition: `OneGuard` is mutual exclusion and a
truthful flag; `WindowSound` is `WindowApart`, `RegionsApart` and an empty window at the
end; `TextKept` is `GlyphsOnScreen` and `TextBeforeCursor`; `MemorySound` (no overlap,
alignment) and `LossExplained` (which memory is lost) speak of both allocators. The type
invariant is a property of its own in `executor`; elsewhere it is a conjunct of one
(`OneGuard`, `DateIsWhole`, `StatusGuardsCell`, `SpansClosed`, `DevicesReachHandlers`,
`MemorySound`, `TextKept`).

The four counterexamples are disagreements between the code and its comments or tests:

- `sleep_future.rs:50`: the map is keyed by `Reverse`, so the early return looks at the
  *latest* deadline. Sleepers are woken only when the last of all has passed. Nobody is
  forgotten (run `console`): they are late, and if later and later deadlines go on being
  registered, they are never woken.
- `mutex.rs:307`: boot drops two guards that were not counted, the count wraps, and from
  then on no drop re-enables interrupts. They come back through the executor's idle path
  (`InterruptsReturn`), and the same wrap is what keeps the clock handler from meeting a
  lock that drop has not yet released (`HandlerNeverSpins`).
- `once.rs:88`: two racing calls of `try_init_once` can both return `Ok`.
- `memory.rs:115`: the filter keeps the regions that are *not* usable.

Properties whose statements have limits:

- `SleepLasts` allows a sleep to end one tick early. The subtraction in `SleepFuture::new`
  fits the handler, which is given the time before the tick; a poll for another reason
  compares with the time after it.
- `RegionShown` says which bytes of a region are seen through its mapping: those of its
  first frame if it begins on one, and *no others*. Every page of a region is mapped to the
  frame of its first byte, and the offset in that frame is left out (`acpi.rs:98-102`).
- `RefusalsExplained` lets `map_physical_region` meet a mapped page, and panic, after a
  region was dropped before a younger one. `start_addr` counts the pages in use; it is the
  end of the window only if the youngest region goes first.
- `DevicesReachHandlers` excludes tables that move the keyboard or the clock to another
  line, or another source to theirs (`Rewired`). For all others it says that the devices
  reach their handlers if the firmware has enabled the local APIC or, without APIC, has left
  their lines unmasked, and are silent otherwise. The repository's README
  (`README.md:10`) reports that APIC initialisation "works in QEMU but not on real hardware";
  the enable bit is one thing the kernel leaves to chance there.
- `SleepersFinish` is about the sleepers that no later deadline overtakes: one finishes once
  the clock has passed the latest deadline stored, unless a later one is stored first.
  With a clock without bound such deadlines can starve it for ever.
- `SleepersFinish` and `ScreenUpToDate` are about a kernel that has not panicked. The
  panic handler shows no frame: its message stays in the back buffer.
- `PanicEnds` is about displays whose pixel format is supported: on another one the
  handler's own `clear` would panic again. Panics of code that holds the lock of the
  serial port or of the heap are not modelled; the handler prints, and would need them.
- `WaiterHasWaker` and `LockReturns` are about tasks that are polled only when woken
  (`Orderly`). A task polled without a wake registers a second time, and a notification
  that goes to the waker left over is swallowed.
- `CallsReturn` is about one core, and excepts a handler that would initialise the cell
  while the task below it does: it spins for ever (`once.rs:113`). The kernel's handlers
  initialise nothing: they call `try_get`, and the one `Lazy` they print through, `SERIAL1`,
  boot has used.
- `InterruptsReturn` and `ClockGoesOn` are about chips that show a date in the end
  (`ShowsDate`). While the registers hold none, a PM bit or a leap second,
  `read_date_time` goes round with interrupts masked, and for ever if they never do.

Bounds, and why they are enough:

- *Executor*: three tasks and three queued wakes. Two tasks and a handler already give
  every order of wake, pop and halt; the third lets a task spawn behind a task that yields.
- *Console*: two tasks, since the map's order matters between two deadlines;
  durations 1, 2 and 3 give equal, nested and overlapping sleeps. The clock stops at 5,
  where `ClockAtBound` goes on waking; deadlines up to 3 can be stored, so that each of
  the smaller ones can be overtaken, and `SleepersFinish` counts on none beyond. The
  framebuffer is full of the bootloader's bytes, padding included. Screens are 2 by 2 pixels, with rows of 2 to 4 in
  the framebuffer, in each format, and areas reach over every edge; two colours, one with
  three different channels. A negative coordinate becomes one larger by 64 in place of
  2^64, far beyond every screen. The clock task's two sleeps are the longest duration and
  any shorter one.
- *Mutex*: three tasks are a holder, a waiter, and one that takes the lock in between.
  One or two calls each; the list of wakers is bounded only for polls without a wake.
- *Rtc*: four guards after boot and two updates. The count is a counter modulo 16 in
  place of 2^64; the bound on calls keeps it from going all the way round, as the machine's
  life does. Three chips: both fields change and cross from one digit to two, where BCD
  and binary differ; a leap second; registers that hold no date from the first update on.
- *OnceLock*: three threads (one initialises, one waits, one reads), two calls each; on
  one core any of them may be the handler.
- *Boot*: five maps, in which the heap ends inside a region, at its end, spans two
  regions, or does not fit, or in which frames for page tables run out. A window of five
  pages in tables of four entries and two levels, so that it needs tables in the middle
  of a region; three regions at a time, of less than, exactly and more than a page, that begin
  on a frame or inside one, dropped in any order. Four interrupt models: overrides of other
  lines, of the devices' own lines, moved devices, and two I/O APICs in one page or in two.
  The local APIC is enabled or not, and the 8259 lines masked are none, the cascade, the
  clock's, or all but the first two. Allocation and deallocation afterwards are
  unbounded.
- *Keyboard*: a queue of two and five keys, so that it fills and empties several times;
  screens of one or two lines, with pixels left over or not and with a stride beyond the
  width, beginning in every line, so that five characters wrap, clear and run over
  line ends in both directions.
- *BlockAllocator*: 16 units, four live blocks, lists that take two blocks (17 in the
  kernel); layouts that fill their class, are smaller, are in it for their alignment only,
  or fit no class. *LinkedList*: 13 units, three live blocks, the same layouts. The
  sequence of requests is unbounded.

Fairness. Code that is running goes on (WF of its steps). In `OnceLock` that is one
condition for the one core and not one for each thread: a task below a handler that spins
gets no turn. The periodic interrupt comes
(WF of `IdleInterrupt`): `rtc::init` enables it and `ClockGoesOn` shows each one
acknowledged. In `Console` it is SF of `ClockTick`: prints and registrations mask
interrupts again and again, and the controller keeps what comes meanwhile. Woken tasks
are polled (SF of `Poll`, `Woken`): that is
`WokenIsPolled` of the executor. In `Mutex` a holder that awaits goes on in the end. In
`Rtc` the ready queue runs empty again and again (SF of `SleepIfIdle`), as all the kernel's
tasks end up awaiting an interrupt, a pending interrupt is delivered if the flag is set again
and again, and an update ends; that the chip shows a date in the end is a premise of the
properties. `SpawnedStarts` has its own premise: `run_ready_tasks`
reads the spawn queue once per call, so a task that yields for ever starves new tasks.

## The proofs

`tlapm M.tla` for each. They hold for every value of the constants that satisfies the
named assumptions of the modules.

- **ExecutorProofs** (from `BoundsAssumption`). `ExecutorTypes`, `HaltSafe`, `WakesKept`,
  `IdentitiesUnique`, and `Refinement` (the executor implements `TaskLifecycle`). The
  inductive invariant `IInv` joins the types with `HaltInv`, `TaskIdentity` and `WakeInv`.
  `HaltInv`: a halted core is in `run` before the next `run_ready_tasks`, with the flag set
  and the ready queue empty; the position is what excludes that anybody but a handler
  pushes meanwhile. `WakeInv`: `NoLostWakeup`, and the task being polled is unfinished,
  which the refinement needs for the end of a poll. Lemmas turn queue operations into
  operations on the set of elements.
- **LockProofs** (from `MutexAssumption` and `OnceLockAssumption`). `Exclusion`: at most one guard, and the flag
  is set exactly when there is one. Neither is inductive alone. `WaitersAreWoken`: on one
  core no free lock has all its waiters asleep. `QueueInv` is what it needs: a task that
  has seen the lock taken still finds it so when it registers, because nobody else
  runs in between, and the list holds exactly the tasks that wait and are not woken, each
  once; with polls without a wake it does not, and they are excluded.
  For `OnceLock`, `CellIsGuarded` and `OneCompleteValue`: `StatusGuardsCell` is itself
  inductive.
- **RtcProofs** (from `IntMutexAssumption` and `RtcAssumption`), for any number of guards, of
  updates, and any width of the count that the guards begun do not exhaust (2^64 in the
  kernel). `HandlerGoesOn`: the invariant `CountInv` says that the
  count is never one, being zero only until the first drop or under a counted guard, and
  otherwise below zero, wrapped, by no more than the guards begun. So the branch that would
  enable interrupts under the lock is never taken. `ReadDateIsWhole`: `PassInv` follows a
  pass over the registers and says of which date each field read so far is; by the
  model's assumption on time, an update that began in between is still on when the bit is
  looked at again, before the pass is accepted. A pass that made no valid date is not
  accepted either, whatever the chip shows.
- **HeapProofs** (from `BlockAssumption` and `ListAssumption`), for every heap length, size
  classes and layouts: `HeapLockIsFree`, `MemoryIsSound` and `LossIsExplained`, of both
  allocators. That blocks are disjoint is not inductive: a cached block comes back under
  another layout of its class. `ExtentsInv` speaks of all the units the heap gave away for a
  block, and says that each is aligned to its class and not only to the layout it was first
  asked for with. The proof needs that a class that is not smaller than an alignment is a
  multiple of it (`BlockAssumption`): sizes and alignments are powers of two in the
  code. For the list of regions, `ListInv` says that each region has room for its node;
  lemmas say what `find_region`'s unlinking and the prepended rest do to every region.
- **EchoProofs** (from `InfosAssumption`: room for one glyph, stride not below the
  width; and `KeyboardAssumption`). `ScreenTextKept`: no glyph is cut off and none is drawn over another, for any screen
  and any typing. The invariant adds that the glyphs and the cursor lie on the grid of 9
  by 15 pixels and that no glyph lies at the cursor or behind it, so that what a backspace
  makes room for is free. It does not say that a backspace takes away the last glyph: where
  the stride is greater than the width, or the width a multiple of 9, the last column a
  backspace computes at the start of a line need not be the one the text ended in.
  `NothingStranded` and `ScancodesInOrder`, for any queue size: the invariant `StreamInv`
  says for each place in `poll_next` who will look at the queue next.
- **FrameProofs** (from `MapAssumption`), for every memory map and every order of calls:
  `FramesOwnedOnce` and `FramesAreConserved`, by the invariant `FrameInv`. That frames have one
  owner is not inductive before the hand-over, when nothing is handed out: `HeapBelow`
  says that the frames the heap took lie below the rest of the region being read and below
  all regions still to be read, which is what makes the hand-over give away no frame of
  the heap; it needs the map to be sorted. That the hand-over takes the wrong kind of region
  (`OnlyUsableFrames`, above) does not disturb this: the frames are not usable, but they
  have one owner. What giving a frame back does rests on `CoallesceFacts`: of ranges
  that are apart, the sort, the joining and the dropping of empty ones make ranges that
  are apart and cover the same frames. Both theorems have the hypothesis `Sizes = {1}`.
  The kernel asks for 4 KiB frames only, and for larger ones they are false:
  `allocate_frame` rounds the address of a frame down to its size, and may return memory
  in front of the range.
  - *Induction.* `InductionUpTo` is induction over a set of numbers, `RecursionUpTo` says
    that a recursive function over `0 .. n` exists and has the type of its steps. They
    give what the joining has made of the first ranges (`CoalescedFacts`) and, in
    BootProofs, what the overrides have made of a redirection table. `InOrderFacts` says
    that ranking the elements of a finite set by a total order enumerates it in that order.
- **BootProofs** (from `SpaceAssumption`, `MapAssumption`, `MadtAssumption` and
  `PagingAssumption`), for every layout, memory map, set of regions and interrupt model.
  - *The window.* `WindowIsSound`, `RegionsAreShown`, `RefusalsAreExplained`, for every order
    of drops. The invariant `SpaceInv` says that `start_addr` counts the pages mapped, that
    each region and the call in progress have pages of their own, which show the frame
    of the region's first byte, and that all lie below the local APIC's page. It
    is not enough to say when `map_to` refuses a page: as long as no region was dropped
    before a younger one (`reordered`), `WindowInv` holds too. It says that the window is one
    run of pages from its base to `start_addr`, filled by the live regions in order and
    without gaps, with the call in progress at its end. An empty window is such a run again
    (`EmptyRun`). `ByteSeen` computes what is seen of each byte. For the controllers, `ControllersInv`
    adds that the pages of devices are those of the local APIC and of the I/O APICs set up
    so far.
  - *The frames.* `BootImplementsFrames`: every step of boot is a step of the frame
    allocator or leaves it alone. So what FrameProofs shows holds through the whole of boot,
    page tables included (`BootKeepsFrames`).
  - *The controllers.* `DevicesAreReached`: `DeliveryInv` says what the controllers have been
    told at each stage of `kernel::init`, that what the firmware left has not been touched,
    and that every redirection table is the one `apic::init` writes. `IoTableFacts` says of such a table, after any overrides, that the
    entries of the keyboard and the clock hold their vectors, unmasked. That a table is
    there when the APIC is used needs that an interrupt model has an I/O APIC
    (`MadtAssumption`). The hypothesis `1 \in Sizes` is for the frames of page tables.
- **ConsoleProofs** (from `SleepAssumption`, `DisplayAssumption` and `ConsoleAssumption`,
  which asks for a clock task and for a colour other than black to draw in), for any tasks, durations and screens: `RegisterIsFree`, `NobodyForgotten`, `SleepsLast`,
  `DisplayIsFree`, `WritesStayInside`, `PictureImplemented`, `ScreenIsUpToDate` and
  `SpansAreClosed`. Every step of Console is a step of the sleepers or leaves them
  alone, and draws once or leaves the buffers alone (two projection lemmas). So the
  invariant is a conjunction: `SleepInv` (a registered task has its entry or its
  deadline has passed, a deadline is at most one tick short, the lock is held in one poll
  only), `BuffersKept`, and
  `ControlInv`: the display is held only while the clock task draws, in a print and after
  a panic; events go to the screen only during boot, when no interrupt comes. The bounds
  of the copies rest on `RowsApart`, that rows of equal length do not meet.
  - *The picture.* Under the refinement mapping a drawing of `Display` gives its shade to
    exactly the points of its rectangle, and a frame shows all of them: the offset of a
    point determines it, and the copy of a row takes whole rows.
  - *The screen.* `ShowInv` names the places at which the screen shows what was drawn. Boot
    is none of them, for the first clear shows no frame and the bootloader's text may
    still be seen; the greeting of `kernel_main` ends with a frame of the whole picture.
  - *The spans.* `TraceInv`: the calls of the subscriber that a poll still has to make lead
    from the spans entered now to those its place in the code is in (`Leads`), so that
    each exit finds its own span on top. `PollInv`: one task is polled at a time, and a span
    is entered again only once it has an id. `BootInv`: while events go to the
    screen nothing is traced; without it, a panic in boot is not covered.

Only model-checked, and why:

- *Liveness*, because fairness and ENABLED are beyond the prover: `WokenIsPolled`,
  `SpawnedStarts`, `SleepersFinish`, `PanicEnds`, `LockReturns`, `InterruptsReturn`,
  `ClockGoesOn`, `CallsReturn` and `KeysAreEchoed`.

Every invariant and every action property of a passing run is stated by a theorem. The
library's induction theorems have an operator as parameter, which the provers do not
instantiate. Where data is walked through, the proofs use induction over a set
(`InductionUpTo`), and where a search is a least element, as in `list_index`, first fit and
`find_region`, the well-foundedness of the naturals (`LeastNatural`).

## Not modelled

- *Geometry of the clock*: floating-point angles and the embedded-graphics crate's lines
  and circles. In `Console` it is one drawing; that every drawing stays inside the buffer is
  proved for all points and areas.
- *Contents of the ACPI tables*, parsed by the acpi crate; what the kernel takes from them
  is input. Register encodings of the controllers are their crates'. `translate_addr`
  (`memory/mapping.rs`) is called by nothing.
- *`framebuffer::init`'s page flags, GDT, loading of the IDT*: constant data, written once
  before anything else runs.
- *The firmware's wiring* beyond the local APIC's enable bit and the 8259 masks (virtual wire
  mode through LINT0, lines left pending).
- *Exceptions* that print to the serial port and return: no state of the kernel.
- *Queues of crossbeam* are one step per operation; a handler that interrupts a push into
  the same queue at a block boundary may have to wait inside the crate.
- *Release arithmetic*: `VgaWriter` has the development build's panic on overflow, which a
  backspace at the top left corner reaches. The screen's properties are claimed up to it;
  `PanicEnds` shows what follows.
- *An unsupported pixel format* in the running kernel: `clear` in `kernel::init` panics, and
  the panic handler's `clear` panics again. `Display` has the panic, `Console`'s kernel
  starts from supported formats.
- *Tests, build scripts, emulator exit port*.

## Plan

*Composition* of `Console` with `Executor`, so that fairness of the polls is replaced by
the real ready queue, and with `Rtc`, so that the interrupts the clock task leaves masked
stay masked while it draws. Both enlarge the state space beyond a few minutes.

New compositions take the place of the run of the component they contain, as `rtc` and
`keyboard` do, so that each run stays one question about the system.
