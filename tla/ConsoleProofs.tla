---------------------------- MODULE ConsoleProofs ----------------------------
(***************************************************************************)
(* The kernel at work, for any tasks, durations and screens: sleeps last   *)
(* and are not forgotten, no write leaves its buffer, the buffers show the *)
(* picture that was drawn, nobody finds the display taken, and spans nest. *)
(* A step of Console moves the sleepers as SleepService does or not at     *)
(* all, and draws once or not at all: the first two parts are about those  *)
(* steps by themselves. What remains is the control.                       *)
(***************************************************************************)
EXTENDS Console, TLAPS

\* What a leaf may take of each prover: seconds of wall time, which a busy machine
\* stretches.
USE SMTT(30), ZenonT(30)
-----------------------------------------------------------------------------
(* The sleepers *)

\* The inductive invariant. Only the task being polled is inside a poll, and the lock
\* is held exactly while that task is in register_sleep. A registered sleep has its
\* entry in the service until its deadline has passed. A suspended one is registered
\* and, once its entry is gone, woken.
SleepInv ==
  /\ mono \in Nat
  /\ service \subseteq Nat \X Tasks
  /\ locked \in BOOLEAN
  /\ woken \subseteq Tasks
  /\ pc \in [Tasks -> {"idle", "poll", "register", "locked", "pending"}]
  /\ end_tick \in [Tasks -> Nat]
  /\ registered \in [Tasks -> BOOLEAN]
  /\ due \in [Tasks -> Nat]
  /\ \A t \in Tasks : pc[t] \in {"poll", "register", "locked"} => running = {t}
  /\ \A t \in Tasks : pc[t] = "locked" => locked
  /\ locked => \E t \in Tasks : pc[t] = "locked"
  /\ \A t \in Tasks : due[t] <= end_tick[t] + 1 /\ due[t] <= MaxTime
  /\ \A t \in Tasks : pc[t] = "pending" => registered[t]
  /\ \A t \in Tasks : pc[t] \in {"poll", "pending"} /\ registered[t] =>
       <<end_tick[t], t>> \in service \/ end_tick[t] <= mono
  /\ NoForgottenSleeper

\* A sleep that is begun is not registered, and its deadline is one tick short.
LEMMA NewSleep ==
  ASSUME SleepInv, NEW t \in Tasks, NEW d \in Durations, New(t, d)
  PROVE  SleepInv'
<1>1. d \in Nat /\ d >= 1 /\ MaxTime \in Nat
  BY SleepAssumption
<1>2. mono + (d - 1) \in Nat /\ mono + d \in Nat /\ mono + d <= mono + (d - 1) + 1
      /\ mono + d <= MaxTime
  BY <1>1 DEF SleepInv, New
<1>3. end_tick' = [end_tick EXCEPT ![t] = mono + (d - 1)]
      /\ registered' = [registered EXCEPT ![t] = FALSE]
      /\ due' = [due EXCEPT ![t] = mono + d]
      /\ pc' = [pc EXCEPT ![t] = "poll"] /\ running' = {t} /\ pc[t] = "idle"
      /\ running = {}
      /\ UNCHANGED <<mono, service, locked, interrupts, woken>>
  BY DEF New, Goto
<1> QED
  BY <1>2, <1>3 DEF SleepInv, NoForgottenSleeper

\* The steps inside a poll.
LEMMA PollReadyInv ==
  ASSUME SleepInv, NEW t \in Tasks, PollReady(t)
  PROVE  SleepInv'
BY DEF SleepInv, NoForgottenSleeper, PollReady, Goto, futureVars

\* A registered task is suspended only before its deadline, so its entry is there.
LEMMA PollPendingInv ==
  ASSUME SleepInv, NEW t \in Tasks, PollPending(t)
  PROVE  SleepInv'
<1>1. CASE registered[t]
  <2>1. <<end_tick[t], t>> \in service
    BY <1>1 DEF SleepInv, PollPending
  <2> QED
    BY <1>1, <2>1 DEF SleepInv, NoForgottenSleeper, PollPending, Goto, futureVars
<1>2. CASE ~registered[t]
  BY <1>2 DEF SleepInv, NoForgottenSleeper, PollPending, Goto, futureVars
<1> QED
  BY <1>1, <1>2

\* Taking the lock masks interrupts.
LEMMA RegisterLockInv ==
  ASSUME SleepInv, NEW t \in Tasks, RegisterLock(t)
  PROVE  SleepInv'
BY DEF SleepInv, NoForgottenSleeper, RegisterLock, Goto, futureVars

\* The inserted entry is what keeps the task from being forgotten.
LEMMA RegisterInsertInv ==
  ASSUME SleepInv, NEW t \in Tasks, RegisterInsert(t)
  PROVE  SleepInv'
<1>1. <<end_tick[t], t>> \in Nat \X Tasks
  BY DEF SleepInv
<1>2. \A u \in Tasks : pc[u] = "locked" => u = t
  BY DEF SleepInv, RegisterInsert
<1>3. /\ pc[t] = "locked"
      /\ service' = service \cup {<<end_tick[t], t>>}
      /\ locked' = FALSE /\ running' = {}
      /\ registered' = [registered EXCEPT ![t] = TRUE]
      /\ pc' = [pc EXCEPT ![t] = "pending"]
      /\ UNCHANGED <<mono, woken, end_tick, due>>
  BY DEF RegisterInsert, Goto
<1>4. \A u \in Tasks : pc'[u] \notin {"poll", "register", "locked"}
  <2> TAKE u \in Tasks
  <2>1. u # t => pc'[u] = pc[u] /\ pc[u] \notin {"poll", "register", "locked"}
    BY <1>3 DEF SleepInv
  <2> QED
    BY <1>3, <2>1 DEF SleepInv
<1>5. \A u \in Tasks : pc'[u] = "pending" => u = t \/ pc[u] = "pending"
  BY <1>3 DEF SleepInv
<1>6. \A u \in Tasks : pc'[u] = "pending" => registered'[u]
  BY <1>3, <1>5 DEF SleepInv
<1>7. \A u \in Tasks : pc'[u] = "pending" =>
        <<end_tick[u], u>> \in service' \/ (end_tick[u] <= mono /\ u \in woken)
  <2> SUFFICES ASSUME NEW u \in Tasks, u # t, pc[u] = "pending"
               PROVE  <<end_tick[u], u>> \in service' \/ (end_tick[u] <= mono /\ u \in woken)
    BY <1>3, <1>5
  <2> QED
    BY <1>3 DEF SleepInv, NoForgottenSleeper
<1> QED
  BY <1>1, <1>3, <1>4, <1>6, <1>7, Zenon DEF SleepInv, NoForgottenSleeper

\* A task polled again is no longer waiting.
LEMMA PolledAgainInv ==
  ASSUME SleepInv, NEW t \in Tasks, PollWoken(t) \/ PollSpurious(t)
  PROVE  SleepInv'
<1>1. CASE PollWoken(t)
  BY <1>1 DEF SleepInv, NoForgottenSleeper, PollWoken, Goto, futureVars
<1>2. CASE PollSpurious(t)
  BY <1>2 DEF SleepInv, NoForgottenSleeper, PollSpurious, Goto, futureVars
<1> QED
  BY <1>1, <1>2

\* wake_sleep removes an entry only at its deadline, and wakes its task.
LEMMA WakeSleepRemoves ==
  ASSUME SleepInv, WakeSleep(mono)
  PROVE  /\ service' \subseteq service
         /\ woken \subseteq woken' /\ woken' \subseteq Tasks
         /\ \A e \in service \ service' : e[1] <= mono /\ e[2] \in woken'
<1>1. CASE UNCHANGED <<service, woken>>
  BY <1>1 DEF SleepInv
<1>2. CASE /\ service' = service \ DueAt(mono)
           /\ woken' = woken \cup {e[2] : e \in DueAt(mono)}
  BY <1>2 DEF SleepInv, DueAt
<1> QED
  BY <1>1, <1>2 DEF WakeSleep

\* The clock interrupt: whoever leaves the register is woken.
LEMMA TickInv ==
  ASSUME SleepInv, ClockInterrupt \/ ClockAtBound
  PROVE  SleepInv'
<1>1. /\ WakeSleep(mono) /\ mono' \in Nat /\ mono <= mono'
      /\ UNCHANGED <<locked, running, pc, end_tick, registered, due>>
  BY DEF SleepInv, ClockInterrupt, ClockAtBound, futureVars
<1>2. /\ service' \subseteq service
      /\ woken \subseteq woken' /\ woken' \subseteq Tasks
      /\ \A e \in service \ service' : e[1] <= mono /\ e[2] \in woken'
  BY <1>1, WakeSleepRemoves
<1>3. \A t \in Tasks : <<end_tick[t], t>> \in service =>
        \/ <<end_tick[t], t>> \in service'
        \/ end_tick[t] <= mono /\ t \in woken'
  BY <1>2
<1>4. \A t \in Tasks : end_tick[t] <= mono => end_tick[t] <= mono'
  BY <1>1 DEF SleepInv
<1> QED
  BY <1>1, <1>2, <1>3, <1>4 DEF SleepInv, NoForgottenSleeper

\* The invariant depends on nothing outside the sleep service.
LEMMA SleepUnchanged ==
  ASSUME SleepInv, UNCHANGED <<mono, service, locked, woken, running, pc, futureVars>>
  PROVE  SleepInv'
BY DEF SleepInv, NoForgottenSleeper, futureVars

\* Nobody sleeps at the start.
LEMMA SleepInvInit == NoSleeper => SleepInv
<1> SUFFICES ASSUME NoSleeper PROVE SleepInv
  OBVIOUS
<1>1. MaxTime \in Nat
  BY SleepAssumption
<1>2. \A t \in Tasks : pc[t] = "idle" /\ end_tick[t] = 0 /\ due[t] = 0
  BY DEF NoSleeper
<1>3. /\ mono \in Nat /\ service \subseteq Nat \X Tasks /\ locked = FALSE
      /\ woken \subseteq Tasks
      /\ pc \in [Tasks -> {"idle", "poll", "register", "locked", "pending"}]
      /\ end_tick \in [Tasks -> Nat] /\ registered \in [Tasks -> BOOLEAN]
      /\ due \in [Tasks -> Nat]
  BY DEF NoSleeper
<1>4. \A t \in Tasks : due[t] <= end_tick[t] + 1 /\ due[t] <= MaxTime
  BY <1>1, <1>2
<1>5. \A t \in Tasks : pc[t] \notin {"poll", "register", "locked", "pending"}
  BY <1>2
<1> QED
  BY <1>3, <1>4, <1>5, Zenon DEF SleepInv, NoForgottenSleeper

\* SleepLasts of one step.
SleepLastsStep ==
  \A t \in Tasks :
    /\ <<end_tick[t], t>> \in service \ service' => due[t] <= mono'
    /\ pc[t] = "poll" /\ pc'[t] = "idle" => due[t] <= mono + 1

\* The handler is given the time before the tick, so what it takes is due after it.
LEMMA TickLasts ==
  ASSUME SleepInv, ClockInterrupt \/ ClockAtBound
  PROVE  SleepLastsStep
<1>1. WakeSleep(mono) /\ UNCHANGED <<pc, end_tick, due>>
  BY DEF ClockInterrupt, ClockAtBound, futureVars
<1>2. \A e \in service \ service' : e[1] <= mono
  BY <1>1, WakeSleepRemoves
<1>3. mono' = mono + 1 \/ (mono' = mono /\ mono = MaxTime)
  BY DEF ClockInterrupt, ClockAtBound
<1>4. ASSUME NEW t \in Tasks, <<end_tick[t], t>> \in service \ service'
      PROVE  due[t] <= mono'
  <2>1. end_tick[t] <= mono
    BY <1>2, <1>4
  <2> QED
    BY <1>3, <2>1 DEF SleepInv
<1> QED
  BY <1>1, <1>4 DEF SleepLastsStep

\* poll compares with the time after the tick, hence the one tick.
LEMMA PollReadyLasts ==
  ASSUME SleepInv, NEW t \in Tasks, PollReady(t)
  PROVE  SleepLastsStep
<1>1. service' = service /\ pc' = [pc EXCEPT ![t] = "idle"] /\ end_tick[t] <= mono
  BY DEF PollReady, Goto, SleepInv
<1>2. due[t] <= mono + 1
  BY <1>1 DEF SleepInv
<1> QED
  BY <1>1, <1>2 DEF SleepLastsStep, SleepInv

\* No other step removes an entry or ends a sleep.
LEMMA OthersLast ==
  ASSUME SleepInv, service \subseteq service',
         \A t \in Tasks : pc[t] = "poll" => pc'[t] # "idle"
  PROVE  SleepLastsStep
BY DEF SleepLastsStep
-----------------------------------------------------------------------------
(* The buffers of the display *)

\* Rows of s bytes: a lower row ends before the next one begins.
LEMMA RowsApart ==
  ASSUME NEW a \in Nat, NEW b \in Nat, NEW s \in Nat, a < b
  PROVE  a * s + s <= b * s
<1>1. PICK k \in Nat : b = a + 1 + k
  <2>1. b - a - 1 \in Nat /\ b = a + 1 + (b - a - 1)
    OBVIOUS
  <2> QED
    BY <2>1
<1>2. b * s = a * s + s + k * s
  BY <1>1
<1>3. k * s \in Nat /\ a * s \in Nat
  OBVIOUS
<1> QED
  BY <1>2, <1>3

\* What the constants say of a machine.
LEMMA InfoFacts ==
  ASSUME info \in Infos
  PROVE  /\ Width \in Nat \ {0} /\ Height \in Nat \ {0} /\ info.stride \in Nat
         /\ Bpp \in 1 .. 4 /\ Width <= info.stride
         /\ info.pixel_format \in {"Rgb", "Bgr"} => Bpp >= 3
BY DisplayAssumption DEF Width, Height, Bpp

\* n pixels from column x of row y on lie in the back buffer if they lie in the row.
LEMMA RowInside ==
  ASSUME info \in Infos, NEW x \in Nat, NEW y \in Nat, NEW n \in Nat,
         y < Height, x + n <= Width, NEW m \in Nat, m <= n * Bpp
  PROVE  Row(x, y, m) \subseteq 0 .. BackLen - 1
<1>1. Width \in Nat /\ Height \in Nat /\ Bpp \in Nat
  BY InfoFacts
<1> DEFINE p == y * Width + x
<1>2. p \in Nat /\ p + n <= Width * Height
  <2>1. y * Width \in Nat /\ y * Width + Width <= Height * Width
    BY <1>1, RowsApart
  <2>2. Height * Width = Width * Height
    BY <1>1
  <2> QED
    BY <1>1, <2>1, <2>2
<1>3. p * Bpp \in Nat /\ p * Bpp + n * Bpp <= Width * Height * Bpp
  <2> HIDE DEF p
  <2>1. Width * Height \in Nat
    BY <1>1
  <2>2. PICK k \in Nat : Width * Height = p + n + k
    <3>1. Width * Height - (p + n) \in Nat
          /\ Width * Height = p + n + (Width * Height - (p + n))
      BY <1>2, <2>1
    <3> QED
      BY <3>1
  <2>3. (p + n + k) * Bpp = p * Bpp + n * Bpp + k * Bpp
    BY <1>1, <1>2
  <2>4. p * Bpp \in Nat /\ n * Bpp \in Nat /\ k * Bpp \in Nat
    BY <1>1, <1>2
  <2> QED
    BY <2>2, <2>3, <2>4
<1>4. n * Bpp \in Nat /\ Width * Height * Bpp \in Nat
  BY <1>1
<1> QED
  BY <1>3, <1>4 DEF Row, ByteOffset, BackLen

\* draw_pixel, at any point: the conversion to usize leaves no negative offset.
LEMMA DrawPixelKeeps ==
  ASSUME info \in Infos, BuffersKept,
         NEW x \in Int, NEW y \in Int, NEW c, DrawPixel(x, y, c)
  PROVE  info' \in Infos /\ BuffersKept'
<1> DEFINE ux == AsUsize(x)
           uy == AsUsize(y)
           n  == IF info.pixel_format = "U8" THEN 1 ELSE 3
<1>1. ux \in Nat /\ uy \in Nat
  BY DisplayAssumption DEF AsUsize
<1>2. CASE info.pixel_format = "Unknown"
  BY <1>2 DEF DrawPixel, Unsupported, BuffersKept, BackLen, FrameLen, Width, Height, Bpp
<1>3. CASE info.pixel_format # "Unknown"
  <2>1. ux < Width /\ uy < Height
    BY DEF DrawPixel
  <2>2. n \in Nat /\ n <= 1 * Bpp
    BY <1>3, DisplayAssumption DEF Bpp, PixelFormats
  <2>3. ux + 1 <= Width
    BY <1>1, <2>1, InfoFacts
  <2>4. Row(ux, uy, n) \subseteq 0 .. BackLen - 1
    BY <1>1, <2>1, <2>2, <2>3, RowInside
  <2>5. /\ DOMAIN backbuffer' = DOMAIN backbuffer \cup Row(ux, uy, n)
        /\ UNCHANGED <<info, bootscreen, framebuffer>>
    BY <1>3 DEF DrawPixel
  <2> QED
    BY <2>4, <2>5 DEF BuffersKept, BackLen, FrameLen, Width, Height, Bpp
<1> QED
  BY <1>2, <1>3

\* The row copies of fill_solid and clear, of n pixels in rows of the screen.
LEMMA FillRowsKeeps ==
  ASSUME info \in Infos, BuffersKept, NEW x \in Nat, NEW n \in Nat, NEW c,
         NEW rows \in SUBSET (0 .. Height - 1), x + n <= Width, FillRows(x, rows, n, c)
  PROVE  info' \in Infos /\ BuffersKept'
<1>1. Width \in Nat /\ Height \in Nat /\ Bpp \in Nat
  BY InfoFacts
<1>2. \A y \in rows : Row(x, y, n * Bpp) \subseteq 0 .. BackLen - 1
  <2> TAKE y \in rows
  <2>1. y \in Nat /\ y < Height
    BY <1>1
  <2>2. n * Bpp \in Nat /\ n * Bpp <= n * Bpp
    BY <1>1
  <2> QED
    BY <2>1, <2>2, RowInside
<1>3. /\ DOMAIN backbuffer' = DOMAIN backbuffer \cup UNION {Row(x, y, n * Bpp) : y \in rows}
      /\ UNCHANGED <<info, bootscreen, framebuffer>>
  BY DEF FillRows
<1>4. UNION {Row(x, y, n * Bpp) : y \in rows} \subseteq 0 .. BackLen - 1
  BY <1>2
<1> QED
  BY <1>3, <1>4 DEF BuffersKept, BackLen, FrameLen, Width, Height, Bpp

\* The columns, or rows, of an area on the screen are a range of its columns.
LEMMA ClipRange ==
  ASSUME NEW a \in Int, NEW n \in Nat, NEW limit \in Nat, Clip(a, n, limit) # {}
  PROVE  \E lo, hi \in 0 .. limit - 1 :
           /\ Clip(a, n, limit) = lo .. hi /\ lo <= hi
           /\ Min(Clip(a, n, limit)) = lo /\ Breadth(Clip(a, n, limit)) = hi - lo + 1
<1> DEFINE C  == Clip(a, n, limit)
           lo == IF a < 0 THEN 0 ELSE a
           hi == IF a + n < limit THEN a + n - 1 ELSE limit - 1
<1>1. lo \in Int /\ hi \in Int /\ 0 <= lo /\ hi <= limit - 1
  OBVIOUS
<1>2. C = lo .. hi
  <2>1. \A v \in Int : v \in a .. a + n - 1 /\ 0 <= v /\ v < limit <=> lo <= v /\ v <= hi
    OBVIOUS
  <2>2. \A v : v \in C <=> v \in Int /\ lo <= v /\ v <= hi
    BY <2>1 DEF Clip
  <2> HIDE DEF C, lo, hi
  <2>3. \A v : v \in lo .. hi <=> v \in Int /\ lo <= v /\ v <= hi
    BY <1>1
  <2>4. \A v \in C : v \in lo .. hi
    BY <2>2, <2>3
  <2>5. \A v \in lo .. hi : v \in C
    BY <2>2, <2>3
  <2> QED
    BY <2>4, <2>5, Zenon
<1>3. lo <= hi
  BY <1>1, <1>2
<1>4. Min(C) = lo
  <2>1. lo \in C /\ \A v \in C : lo <= v /\ v \in Int
    BY <1>1, <1>2, <1>3
  <2>2. \A m \in C : (\A v \in C : m <= v) => m = lo
    BY <1>1, <2>1
  <2> HIDE DEF lo, C
  <2> QED
    BY <2>1, <2>2 DEF Min
<1>5. Breadth(C) = hi - lo + 1
  <2>1. hi \in C /\ \A v \in C : hi >= v /\ v \in Int
    BY <1>1, <1>2, <1>3
  <2>2. \A m \in C : (\A v \in C : m >= v) => m = hi
    BY <1>1, <2>1
  <2> HIDE DEF lo, hi, C
  <2>3. Max(C) = hi
    BY <2>1, <2>2 DEF Max
  <2> QED
    BY <1>1, <1>4, <2>3 DEF Breadth
<1>6. lo \in 0 .. limit - 1 /\ hi \in 0 .. limit - 1
  BY <1>1, <1>3
<1>7. \E l, h \in 0 .. limit - 1 : C = l .. h /\ l <= h /\ Min(C) = l /\ Breadth(C) = h - l + 1
  <2> HIDE DEF C, lo, hi
  <2> QED BY <1>2, <1>3, <1>4, <1>5, <1>6
<1> QED BY <1>7

\* Their number, from the first on, ends at the edge of the screen.
LEMMA ClipInside ==
  ASSUME NEW a \in Int, NEW n \in Nat, NEW limit \in Nat, Clip(a, n, limit) # {}
  PROVE  /\ Min(Clip(a, n, limit)) \in Nat
         /\ Breadth(Clip(a, n, limit)) \in Nat
         /\ Min(Clip(a, n, limit)) + Breadth(Clip(a, n, limit)) <= limit
         /\ Clip(a, n, limit) \subseteq 0 .. limit - 1
<1>1. PICK lo, hi \in 0 .. limit - 1 :
        /\ Clip(a, n, limit) = lo .. hi /\ lo <= hi
        /\ Min(Clip(a, n, limit)) = lo /\ Breadth(Clip(a, n, limit)) = hi - lo + 1
  BY ClipRange, ZenonT(30)
<1> QED
  BY <1>1

\* fill_solid of any area.
LEMMA FillSolidKeeps ==
  ASSUME info \in Infos, BuffersKept, NEW c,
         NEW area \in [x : Int, y : Int, width : Nat, height : Nat], FillSolid(area, c)
  PROVE  info' \in Infos /\ BuffersKept'
<1> DEFINE columns == Clip(area.x, area.width, Width)
           rows    == Clip(area.y, area.height, Height)
<1>1. columns # {} /\ rows # {}
  BY DEF FillSolid
<1>2. /\ Min(columns) \in Nat /\ Breadth(columns) \in Nat
      /\ Min(columns) + Breadth(columns) <= Width
  BY <1>1, ClipInside, InfoFacts
<1>3. rows \in SUBSET (0 .. Height - 1)
  BY <1>1, ClipInside, InfoFacts, Zenon
<1>4. CASE Fillable
  <2>1. FillRows(Min(columns), rows, Breadth(columns), c)
    BY <1>4 DEF FillSolid
  <2> HIDE DEF columns, rows
  <2> QED
    BY <1>2, <1>3, <2>1, FillRowsKeeps
<1>5. CASE ~Fillable
  BY <1>5 DEF FillSolid, Unsupported, BuffersKept, BackLen, FrameLen, Width, Height, Bpp
<1> QED
  BY <1>4, <1>5

\* clear.
LEMMA ClearKeeps ==
  ASSUME info \in Infos, BuffersKept, NEW c, Clear(c)
  PROVE  info' \in Infos /\ BuffersKept'
<1>1. CASE Fillable
  <2>1. FillRows(0, 0 .. Height - 1, Width, c)
    BY <1>1 DEF Clear
  <2>2. Width \in Nat /\ 0 + Width <= Width
    BY InfoFacts
  <2> QED
    BY <2>1, <2>2, FillRowsKeeps, Zenon
<1>2. CASE ~Fillable
  BY <1>2 DEF Clear, Unsupported, BuffersKept, BackLen, FrameLen, Width, Height, Bpp
<1> QED
  BY <1>1, <1>2

\* draw_frame copies into the rows of the framebuffer and not between them.
LEMMA DrawFrameKeeps ==
  ASSUME info \in Infos, BuffersKept, DrawFrame
  PROVE  info' \in Infos /\ BuffersKept'
<1> DEFINE S == info.stride * Bpp
           W == Width * Bpp
           H == Height
           start(y) == y * info.stride * Bpp
           covered  == UNION {start(y) .. start(y) + W - 1 : y \in 0 .. H - 1}
<1>1. H \in Nat /\ S \in Nat /\ W \in Nat /\ W <= S
  <2>1. Width \in Nat /\ info.stride \in Nat /\ Bpp \in Nat /\ Width <= info.stride /\ H \in Nat
    BY InfoFacts
  <2>2. PICK k \in Nat : info.stride = Width + k
    <3>1. info.stride - Width \in Nat /\ info.stride = Width + (info.stride - Width)
      BY <2>1
    <3> QED
      BY <3>1
  <2>3. (Width + k) * Bpp = Width * Bpp + k * Bpp /\ k * Bpp \in Nat /\ Width * Bpp \in Nat
    BY <2>1
  <2> QED
    BY <2>1, <2>2, <2>3
<1>2. \A y \in Nat : start(y) = y * S /\ y * S \in Nat
  BY InfoFacts
<1>3. FrameLen = H * S
  BY InfoFacts DEF FrameLen
<1>4. /\ DOMAIN framebuffer' = DOMAIN framebuffer \cup covered
      /\ \A i \in DOMAIN framebuffer \ covered : framebuffer'[i] = framebuffer[i]
      /\ UNCHANGED <<info, bootscreen, backbuffer>>
  BY DEF DrawFrame
<1> HIDE DEF S, W, H
<1>5. covered \subseteq 0 .. FrameLen - 1
  <2> SUFFICES ASSUME NEW y \in 0 .. H - 1, NEW i \in start(y) .. start(y) + W - 1
               PROVE  i \in 0 .. FrameLen - 1
    OBVIOUS
  <2>1. y \in Nat /\ y < H
    BY <1>1
  <2>2. start(y) = y * S /\ y * S \in Nat
    BY <1>2, <2>1
  <2>3. y * S + S <= H * S
    BY <1>1, <2>1, RowsApart
  <2>4. H * S \in Nat
    BY <1>1
  <2> QED
    BY <1>1, <1>3, <2>2, <2>3, <2>4
<1>6. ASSUME NEW y \in 0 .. H - 1, NEW i \in W .. S - 1
      PROVE  start(y) + i \in (0 .. FrameLen - 1) \ covered
  <2>1. y \in Nat /\ y < H /\ i \in Nat /\ W <= i /\ i < S
    BY <1>1
  <2>2. start(y) = y * S /\ y * S \in Nat
    BY <1>2, <2>1
  <2>3. start(y) + i \in 0 .. FrameLen - 1
    <3>1. y * S + S <= H * S
      BY <1>1, <2>1, RowsApart
    <3> QED
      BY <1>1, <1>3, <2>1, <2>2, <3>1
  <2>4. ASSUME NEW z \in 0 .. H - 1
        PROVE  start(y) + i \notin start(z) .. start(z) + W - 1
    <3>1. z \in Nat
      BY <1>1
    <3>2. start(z) = z * S /\ z * S \in Nat
      BY <1>2, <3>1
    <3>3. CASE y < z
      <4>1. y * S + S <= z * S
        BY <1>1, <2>1, <3>1, <3>3, RowsApart
      <4> QED
        BY <1>1, <2>1, <2>2, <3>2, <4>1
    <3>4. CASE z < y
      <4>1. z * S + S <= y * S
        BY <1>1, <2>1, <3>1, <3>4, RowsApart
      <4> QED
        BY <1>1, <2>1, <2>2, <3>2, <4>1
    <3>5. CASE y = z
      BY <1>1, <2>1, <2>2, <3>5
    <3> QED
      BY <2>1, <3>1, <3>3, <3>4, <3>5
  <2> QED
    BY <2>3, <2>4
<1>7. \A y \in 0 .. H - 1, i \in W .. S - 1 :
        framebuffer'[start(y) + i] = bootscreen[start(y) + i]
  <2> SUFFICES ASSUME NEW y \in 0 .. H - 1, NEW i \in W .. S - 1
               PROVE  framebuffer'[start(y) + i] = bootscreen[start(y) + i]
    OBVIOUS
  <2>1. start(y) + i \in DOMAIN framebuffer /\ start(y) + i \notin covered
    BY <1>6 DEF BuffersKept
  <2>2. framebuffer[start(y) + i] = bootscreen[start(y) + i]
    BY DEF BuffersKept, H, W, S
  <2> QED
    BY <1>4, <2>1, <2>2
<1>8. DOMAIN framebuffer' = 0 .. FrameLen - 1
  BY <1>4, <1>5 DEF BuffersKept
<1> QED
  BY <1>4, <1>7, <1>8 DEF BuffersKept, BackLen, FrameLen, Width, Height, Bpp, H, W, S

\* Display::new.
LEMMA DisplayStarts == DisplayInit => info \in Infos /\ BuffersKept
<1> SUFFICES ASSUME DisplayInit PROVE info \in Infos /\ BuffersKept
  OBVIOUS
<1>1. info \in Infos
  BY DEF DisplayInit
<1>2. framebuffer \in [0 .. FrameLen - 1 -> Nat]
  BY <1>1, DisplayAssumption DEF DisplayInit, FrameLen, Height, Bpp
<1>3. DOMAIN backbuffer = 0 .. BackLen - 1 /\ bootscreen = framebuffer
  BY DEF DisplayInit
<1> QED
  BY <1>1, <1>2, <1>3 DEF BuffersKept
-----------------------------------------------------------------------------
(* The picture *)

\* A place in rows of n determines the row and the place in it.
LEMMA SameQuotient ==
  ASSUME NEW a \in Nat, NEW c \in Nat, NEW n \in Nat, NEW r \in 0 .. n - 1, NEW s \in 0 .. n - 1,
         a * n + r = c * n + s
  PROVE  a = c /\ r = s
<1>1. a * n \in Nat /\ c * n \in Nat
  OBVIOUS
<1>2. CASE a < c
  BY <1>1, <1>2, RowsApart
<1>3. CASE c < a
  BY <1>1, <1>3, RowsApart
<1> QED BY <1>1, <1>2, <1>3

\* What is left of it.
LEMMA PlaceInRow ==
  ASSUME NEW q \in Nat, NEW n \in Nat, NEW k \in 0 .. n - 1
  PROVE  (q * n + k) % n = k
<1> DEFINE a == q * n + k
<1>1. a \in Nat /\ n \in Nat \ {0}
  OBVIOUS
<1>2. a \div n \in Nat /\ a % n \in 0 .. n - 1 /\ a = (a \div n) * n + (a % n)
  <2> HIDE DEF a
  <2> QED BY <1>1
<1>3. PICK d \in Nat, r \in 0 .. n - 1 : d = a \div n /\ r = a % n
  BY <1>2
<1>4. q * n + k = d * n + r
  BY <1>2, <1>3
<1>5. r = k
  BY <1>4, SameQuotient
<1> QED BY <1>3, <1>5

\* A byte of a pixel lies among the bytes of n pixels of a row exactly if the pixel is
\* one of them, and its place in the copied colour is its place in the pixel.
LEMMA ByteInRow ==
  ASSUME NEW w \in Nat, NEW b \in Nat \ {0}, NEW x \in 0 .. w - 1, NEW y \in Nat,
         NEW k \in 0 .. b - 1, NEW u \in Nat, NEW v \in Nat, NEW n \in Nat, u + n <= w
  PROVE  LET i == (y * w + x) * b + k
             o == (v * w + u) * b
         IN  /\ i \in Nat /\ o \in Nat
             /\ i \in o .. o + n * b - 1 <=> y = v /\ u <= x /\ x < u + n
             /\ y = v /\ u <= x => (i - o) % b = k /\ i - o = (x - u) * b + k
<1> DEFINE i == (y * w + x) * b + k
           o == (v * w + u) * b
<1>1. y * w \in Nat /\ v * w \in Nat /\ n * b \in Nat
  OBVIOUS
<1>2. y * w + x \in Nat /\ v * w + u \in Nat
  BY <1>1
<1>3. (y * w + x) * b \in Nat /\ o \in Nat
  BY <1>2
<1>4. i \in Nat
  BY <1>3
<1>5. ASSUME y = v, u <= x
      PROVE  /\ i - o = (x - u) * b + k /\ (i - o) % b = k
             /\ x < u + n => i \in o .. o + n * b - 1
  <2>1. PICK d \in Nat : x = u + d
    <3>1. x - u \in Nat /\ x = u + (x - u)
      BY <1>5
    <3> QED BY <3>1
  <2>2. d * b \in Nat /\ x - u = d
    BY <2>1
  <2>3. (y * w + x) * b = (v * w + u) * b + d * b
    BY <1>1, <1>5, <2>1
  <2> HIDE DEF o
  <2>4. i = o + d * b + k
    BY <1>3, <2>2, <2>3 DEF o
  <2>5. i - o = d * b + k
    BY <1>3, <2>2, <2>4
  <2>6. (d * b + k) % b = k
    BY PlaceInRow
  <2>7. ASSUME x < u + n PROVE i \in o .. o + n * b - 1
    <3>1. d < n
      BY <2>1, <2>7
    <3>2. d * b + b <= n * b
      BY <3>1, RowsApart
    <3> HIDE DEF i
    <3> QED BY <1>1, <1>3, <1>4, <2>2, <2>4, <3>2
  <2> QED BY <2>2, <2>5, <2>6, <2>7
<1>6. ASSUME i \in o .. o + n * b - 1
      PROVE  y = v /\ u <= x /\ x < u + n
  <2> DEFINE j == i - o
             q == j \div b
             r == j % b
  <2>1. j \in Nat /\ j < n * b /\ i = o + j
    <3> HIDE DEF i, o
    <3> QED BY <1>1, <1>3, <1>4, <1>6
  <2>2. q \in Nat /\ r \in 0 .. b - 1 /\ j = q * b + r
    <3> HIDE DEF j
    <3> QED BY <2>1
  <2> HIDE DEF j, q, r
  <2>3. q < n
    <3> SUFFICES ASSUME ~(q < n) PROVE FALSE
      OBVIOUS
    <3>1. n * b <= q * b
      <4>1. CASE n < q
        BY <1>1, <2>2, <4>1, RowsApart
      <4>2. CASE n = q
        BY <4>2
      <4> QED BY <2>2, <4>1, <4>2
    <3>2. q * b \in Nat
      BY <2>2
    <3> QED BY <1>1, <2>1, <2>2, <3>1, <3>2
  <2>4. (y * w + x) * b + k = (v * w + (u + q)) * b + r
    <3>1. (v * w + (u + q)) * b = (v * w + u) * b + q * b
      BY <1>1, <2>2
    <3>2. q * b \in Nat /\ (v * w + u) * b \in Nat
      BY <1>2, <2>2
    <3>3. i = (v * w + u) * b + (q * b + r)
      BY <2>1, <2>2 DEF o
    <3> QED BY <1>3, <2>2, <3>1, <3>2, <3>3
  <2>5. y * w + x = v * w + (u + q)
    <3>1. v * w + (u + q) \in Nat
      BY <1>1, <2>2
    <3> QED BY <1>2, <2>2, <2>4, <3>1, SameQuotient
  <2>6. PICK z \in 0 .. w - 1 : z = u + q
    BY <2>2, <2>3
  <2>7. y = v /\ x = z
    <3>1. y * w + x = v * w + z
      BY <2>5, <2>6
    <3> QED BY <3>1, SameQuotient
  <2> QED BY <2>2, <2>3, <2>6, <2>7
<1> HIDE DEF i, o
<1>7. i \in o .. o + n * b - 1 <=> y = v /\ u <= x /\ x < u + n
  BY <1>5, <1>6
<1> QED BY <1>3, <1>4, <1>5, <1>7 DEF i, o

\* A colour in the machine's pixel format.
Shade(c) == IF info.pixel_format \in {"Rgb", "Bgr"} THEN c ELSE <<Gray(c)>>

\* The bytes of a point, in a buffer whose rows are w pixels apart.
PixelByte(w, p, k) == (p[2] * w + p[1]) * Bpp + k

\* A point of the screen.
LEMMA PointFacts ==
  ASSUME info \in Infos, NEW p \in Screen
  PROVE  /\ p = <<p[1], p[2]>> /\ p[1] \in 0 .. Width - 1 /\ p[2] \in 0 .. Height - 1
         /\ p[1] \in Nat /\ p[2] \in Nat
BY InfoFacts DEF Screen

\* Same bytes, same colour.
LEMMA SeenSame ==
  ASSUME info \in Infos, NEW f, NEW g, NEW v \in Nat, NEW w \in Nat, NEW p \in Screen,
         \A k \in 0 .. Bpp - 1 : f[PixelByte(v, p, k)] = g[PixelByte(w, p, k)]
  PROVE  Seen(f, v, p) = Seen(g, w, p)
<1> DEFINE a == (p[2] * v + p[1]) * Bpp
           b == (p[2] * w + p[1]) * Bpp
<1>1. Bpp \in Nat \ {0} /\ (info.pixel_format \in {"Rgb", "Bgr"} => Bpp >= 3)
  BY InfoFacts
<1>2. a \in Nat /\ b \in Nat
  <2>1. p[2] * v \in Nat /\ p[2] * w \in Nat /\ p[1] \in Nat
    BY PointFacts
  <2> QED BY <1>1, <2>1
<1>3. \A k \in 0 .. Bpp - 1 : f[a + k] = g[b + k]
  BY DEF PixelByte
<1> HIDE DEF a, b
<1>4. f[a] = g[b]
  <2>1. f[a + 0] = g[b + 0]
    BY <1>1, <1>3
  <2>2. a + 0 = a /\ b + 0 = b
    BY <1>2
  <2> QED BY <2>1, <2>2
<1>5. Bpp >= 3 => f[a + 1] = g[b + 1] /\ f[a + 2] = g[b + 2]
  BY <1>1, <1>3
<1>6. /\ Seen(f, v, p) = IF info.pixel_format = "Rgb" THEN <<f[a], f[a + 1], f[a + 2]>>
                         ELSE IF info.pixel_format = "Bgr" THEN <<f[a + 2], f[a + 1], f[a]>>
                         ELSE <<f[a]>>
      /\ Seen(g, w, p) = IF info.pixel_format = "Rgb" THEN <<g[b], g[b + 1], g[b + 2]>>
                         ELSE IF info.pixel_format = "Bgr" THEN <<g[b + 2], g[b + 1], g[b]>>
                         ELSE <<g[b]>>
  BY DEF Seen, a, b
<1>7. CASE info.pixel_format \in {"Rgb", "Bgr"}
  BY <1>1, <1>4, <1>5, <1>6, <1>7
<1>8. CASE info.pixel_format \notin {"Rgb", "Bgr"}
  BY <1>4, <1>6, <1>8
<1> QED BY <1>7, <1>8

\* Points whose bytes a drawing leaves alone.
LEMMA BackSame ==
  ASSUME info \in Infos, NEW f, NEW p \in Screen,
         \A k \in 0 .. Bpp - 1 : f[PixelByte(Width, p, k)] = backbuffer[PixelByte(Width, p, k)]
  PROVE  Seen(f, Width, p) = Seen(backbuffer, Width, p)
<1>1. PICK w \in Nat : w = Width
  BY InfoFacts
<1>2. PICK g : g = backbuffer
  OBVIOUS
<1>3. \A k \in 0 .. Bpp - 1 : f[PixelByte(w, p, k)] = g[PixelByte(w, p, k)]
  BY <1>1, <1>2
<1>4. Seen(f, w, p) = Seen(g, w, p)
  BY <1>3, SeenSame, ZenonT(30)
<1> QED BY <1>1, <1>2, <1>4

\* Points a frame copies.
LEMMA FrameSame ==
  ASSUME info \in Infos, NEW f, NEW p \in Screen,
         \A k \in 0 .. Bpp - 1 : f[PixelByte(info.stride, p, k)] = backbuffer[PixelByte(Width, p, k)]
  PROVE  Seen(f, info.stride, p) = Seen(backbuffer, Width, p)
<1>1. PICK w \in Nat, v \in Nat : w = Width /\ v = info.stride
  BY InfoFacts
<1>2. PICK g : g = backbuffer
  OBVIOUS
<1>3. \A k \in 0 .. Bpp - 1 : f[PixelByte(v, p, k)] = g[PixelByte(w, p, k)]
  BY <1>1, <1>2
<1>4. Seen(f, v, p) = Seen(g, w, p)
  BY <1>3, SeenSame
<1> QED BY <1>1, <1>2, <1>4

\* The bytes of a colour show it.
LEMMA SeenColor ==
  ASSUME info \in Infos, NEW f, NEW p \in Screen, NEW c \in Nat \X Nat \X Nat,
         \A k \in 0 .. (IF info.pixel_format \in {"Rgb", "Bgr"} THEN 2 ELSE 0) :
           f[PixelByte(Width, p, k)] = ColorBytes(c)[k + 1]
  PROVE  Seen(f, Width, p) = Shade(c)
<1> DEFINE a == (p[2] * Width + p[1]) * Bpp
<1>1. a \in Nat
  <2>1. p[2] * Width \in Nat /\ p[1] \in Nat /\ Bpp \in Nat
    BY PointFacts, InfoFacts
  <2> QED BY <2>1
<1>2. \A k \in 0 .. (IF info.pixel_format \in {"Rgb", "Bgr"} THEN 2 ELSE 0) :
        f[a + k] = ColorBytes(c)[k + 1]
  BY DEF PixelByte
<1>3. Seen(f, Width, p) = IF info.pixel_format = "Rgb" THEN <<f[a], f[a + 1], f[a + 2]>>
                      ELSE IF info.pixel_format = "Bgr" THEN <<f[a + 2], f[a + 1], f[a]>>
                      ELSE <<f[a]>>
  BY DEF Seen
<1> HIDE DEF a
<1>4. a + 0 = a /\ 0 + 1 = 1 /\ 1 + 1 = 2 /\ 2 + 1 = 3
  BY <1>1
<1>5. c = <<c[1], c[2], c[3]>>
  OBVIOUS
<1>6. CASE info.pixel_format \in {"Rgb", "Bgr"}
  <2>1. /\ f[a + 0] = ColorBytes(c)[0 + 1] /\ f[a + 1] = ColorBytes(c)[1 + 1]
        /\ f[a + 2] = ColorBytes(c)[2 + 1]
    BY <1>2, <1>6
  <2>2. f[a] = ColorBytes(c)[1] /\ f[a + 1] = ColorBytes(c)[2] /\ f[a + 2] = ColorBytes(c)[3]
    BY <1>4, <2>1
  <2>3. CASE info.pixel_format = "Rgb"
    <3>1. f[a] = c[1] /\ f[a + 1] = c[2] /\ f[a + 2] = c[3]
      BY <2>2, <2>3 DEF ColorBytes
    <3> QED BY <1>3, <1>5, <2>3, <3>1 DEF Shade
  <2>4. CASE info.pixel_format = "Bgr"
    <3>1. f[a] = c[3] /\ f[a + 1] = c[2] /\ f[a + 2] = c[1]
      BY <2>2, <2>4 DEF ColorBytes
    <3> QED BY <1>3, <1>5, <2>4, <3>1 DEF Shade
  <2> QED BY <1>6, <2>3, <2>4
<1>7. CASE info.pixel_format \notin {"Rgb", "Bgr"}
  <2>1. f[a + 0] = ColorBytes(c)[0 + 1]
    BY <1>2, <1>7
  <2>2. f[a] = Gray(c)
    BY <1>4, <1>7, <2>1 DEF ColorBytes
  <2> QED BY <1>3, <1>7, <2>2 DEF Shade
<1> QED BY <1>6, <1>7

\* What is seen after a step of the same machine.
LEMMA PictureNext ==
  ASSUME info' = info
  PROVE  /\ Screen' = Screen
         /\ Drawn' = [p \in Screen |-> Seen(backbuffer', Width, p)]
         /\ Shown' = [p \in Screen |-> Seen(framebuffer', info.stride, p)]
BY DEF Screen, Drawn, Shown, Seen, Width, Height, Bpp

\* The bytes of the points lie in the back buffer.
LEMMA PixelInside ==
  ASSUME info \in Infos, BuffersKept, NEW p \in Screen, NEW k \in 0 .. Bpp - 1
  PROVE  PixelByte(Width, p, k) \in DOMAIN backbuffer
<1>1. Width \in Nat /\ Bpp \in Nat \ {0}
  BY InfoFacts
<1>2. p[1] \in Nat /\ p[2] \in Nat /\ p[2] < Height /\ p[1] + 1 <= Width
  BY PointFacts, InfoFacts
<1>3. Row(p[1], p[2], 1 * Bpp) \subseteq 0 .. BackLen - 1
  <2>1. 1 * Bpp \in Nat /\ 1 * Bpp <= 1 * Bpp
    BY <1>1
  <2> QED BY <1>2, <2>1, RowInside
<1>4. PixelByte(Width, p, k) \in Row(p[1], p[2], 1 * Bpp)
  <2>1. (p[2] * Width + p[1]) * Bpp \in Nat
    BY <1>1, <1>2
  <2> QED BY <1>1, <2>1 DEF PixelByte, Row, ByteOffset
<1> QED BY <1>3, <1>4 DEF BuffersKept

\* Which bytes of the back buffer a run of n pixels from <<x, y>> on covers.
LEMMA RowHits ==
  ASSUME info \in Infos, NEW p \in Screen, NEW k \in 0 .. Bpp - 1,
         NEW x \in Nat, NEW y \in Nat, NEW n \in Nat, x + n <= Width
  PROVE  LET i == PixelByte(Width, p, k)
         IN  /\ i \in Nat /\ ByteOffset(x, y) \in Nat
             /\ i \in Row(x, y, n * Bpp) <=> p[2] = y /\ x <= p[1] /\ p[1] < x + n
             /\ p[2] = y /\ x <= p[1] =>
                  (i - ByteOffset(x, y)) % Bpp = k /\ i - ByteOffset(x, y) = (p[1] - x) * Bpp + k
<1>1. Width \in Nat /\ Bpp \in Nat \ {0} /\ p[1] \in 0 .. Width - 1 /\ p[2] \in Nat
  BY InfoFacts, PointFacts
<1>2. PICK w \in Nat, b \in Nat \ {0}, u \in Nat, v \in Nat :
        w = Width /\ b = Bpp /\ u = p[1] /\ v = p[2]
  BY <1>1
<1>3. k \in 0 .. b - 1 /\ x + n <= w /\ u \in 0 .. w - 1
  BY <1>1, <1>2
<1> DEFINE i == (v * w + u) * b + k
           o == (y * w + x) * b
<1>4. /\ i \in Nat /\ o \in Nat
      /\ i \in o .. o + n * b - 1 <=> v = y /\ x <= u /\ u < x + n
      /\ v = y /\ x <= u => (i - o) % b = k /\ i - o = (u - x) * b + k
  BY <1>3, ByteInRow
<1>5. i = PixelByte(Width, p, k) /\ o = ByteOffset(x, y) /\ Row(x, y, n * Bpp) = o .. o + n * b - 1
  BY <1>2 DEF PixelByte, ByteOffset, Row
<1> HIDE DEF i, o
<1> QED BY <1>2, <1>4, <1>5, ZenonT(30)

\* fill_solid's and clear's row copies draw the colour, and nothing else.
LEMMA FillRowsDrawn ==
  ASSUME info \in Infos, BuffersKept, Fillable, NEW x \in Nat, NEW n \in Nat, x + n <= Width,
         NEW rows \in SUBSET (0 .. Height - 1), NEW c \in Nat \X Nat \X Nat,
         FillRows(x, rows, n, c)
  PROVE  /\ Drawn' = [p \in Screen |-> IF x <= p[1] /\ p[1] < x + n /\ p[2] \in rows
                                       THEN Shade(c) ELSE Drawn[p]]
         /\ Screen' = Screen /\ Shown' = Shown
<1> DEFINE hit(i) == {y \in rows : i \in Row(x, y, n * Bpp)}
           wide == ColorBytes(c)
           in(p) == x <= p[1] /\ p[1] < x + n /\ p[2] \in rows
<1>1. info' = info /\ framebuffer' = framebuffer
  BY DEF FillRows
<1>2. ASSUME NEW i \in DOMAIN backbuffer
      PROVE  backbuffer'[i] = IF hit(i) = {} THEN backbuffer[i]
                              ELSE wide[((i - ByteOffset(x, Max(hit(i)))) % Bpp) + 1]
  BY DEF FillRows
<1>3. rows \subseteq Nat
  BY InfoFacts
<1>4. Width \in Nat /\ Bpp \in Nat \ {0} /\ (info.pixel_format \in {"Rgb", "Bgr"} => Bpp >= 3)
  BY InfoFacts
<1>5. ASSUME NEW p \in Screen
      PROVE  Seen(backbuffer', Width, p) = IF in(p) THEN Shade(c) ELSE Seen(backbuffer, Width, p)
  <2> DEFINE i(k) == PixelByte(Width, p, k)
  <2>1. \A k \in 0 .. Bpp - 1 : i(k) \in DOMAIN backbuffer
    BY PixelInside
  <2>2. \A k \in 0 .. Bpp - 1, y \in rows :
          i(k) \in Row(x, y, n * Bpp) <=> p[2] = y /\ x <= p[1] /\ p[1] < x + n
    BY <1>3, RowHits
  <2> HIDE DEF i
  <2>3. CASE in(p)
    <3>1. p[2] \in rows /\ p[2] \in Nat /\ x <= p[1]
      BY <1>3, <2>3, Zenon
    <3>2. ASSUME NEW k \in 0 .. Bpp - 1
          PROVE  backbuffer'[i(k)] = wide[k + 1]
      <4>1. hit(i(k)) = {p[2]}
        BY <2>2, <2>3, Zenon
      <4>2. Max({p[2]}) = p[2]
        BY <3>1 DEF Max
      <4>3. (i(k) - ByteOffset(x, p[2])) % Bpp = k
        BY <3>1, RowHits DEF i
      <4>4. i(k) \in DOMAIN backbuffer
        BY <2>1
      <4>5. backbuffer'[i(k)] = wide[((i(k) - ByteOffset(x, Max(hit(i(k))))) % Bpp) + 1]
        BY <1>2, <4>1, <4>4
      <4> QED BY <4>1, <4>2, <4>3, <4>5, Zenon
    <3>3. \A k \in 0 .. (IF info.pixel_format \in {"Rgb", "Bgr"} THEN 2 ELSE 0) : k \in 0 .. Bpp - 1
      BY <1>4
    <3>4. \A k \in 0 .. (IF info.pixel_format \in {"Rgb", "Bgr"} THEN 2 ELSE 0) :
            backbuffer'[PixelByte(Width, p, k)] = ColorBytes(c)[k + 1]
      BY <3>2, <3>3, Zenon DEF i
    <3>5. Seen(backbuffer', Width, p) = Shade(c)
      BY <3>4, SeenColor
    <3> QED BY <2>3, <3>5
  <2>4. CASE ~in(p)
    <3>1. \A k \in 0 .. Bpp - 1 : hit(i(k)) = {}
      BY <2>2, <2>4, Zenon
    <3>2. \A k \in 0 .. Bpp - 1 : backbuffer'[PixelByte(Width, p, k)] = backbuffer[PixelByte(Width, p, k)]
      BY <1>2, <2>1, <3>1, ZenonT(30) DEF i
    <3>3. Seen(backbuffer', Width, p) = Seen(backbuffer, Width, p)
      BY <3>2, BackSame
    <3> QED BY <2>4, <3>3
  <2> QED BY <2>3, <2>4
<1> HIDE DEF in
<1>6. Drawn' = [p \in Screen |-> IF in(p) THEN Shade(c) ELSE Drawn[p]]
  BY <1>1, <1>5, PictureNext DEF Drawn
<1>7. Shown' = Shown
  BY <1>1, PictureNext DEF Shown
<1> QED BY <1>1, <1>6, <1>7, PictureNext DEF in

\* draw_pixel draws its point.
LEMMA DrawPixelDrawn ==
  ASSUME info \in Infos, BuffersKept, NEW x \in Int, NEW y \in Int, NEW c \in Nat \X Nat \X Nat,
         DrawPixel(x, y, c), info.pixel_format # "Unknown"
  PROVE  /\ <<AsUsize(x), AsUsize(y)>> \in Screen
         /\ Drawn' = [p \in Screen |-> IF p = <<AsUsize(x), AsUsize(y)>> THEN Shade(c) ELSE Drawn[p]]
         /\ Screen' = Screen /\ Shown' = Shown
<1> DEFINE ux == AsUsize(x)
           uy == AsUsize(y)
           n  == IF info.pixel_format = "U8" THEN 1 ELSE 3
           R  == Row(ux, uy, n)
<1>1. ux \in Nat /\ uy \in Nat /\ ux < Width /\ uy < Height
  BY DisplayAssumption DEF AsUsize, DrawPixel
<1>2. /\ info' = info /\ framebuffer' = framebuffer
      /\ \A i \in DOMAIN backbuffer :
           backbuffer'[i] = IF i \in R THEN ColorBytes(c)[i - ByteOffset(ux, uy) + 1]
                            ELSE backbuffer[i]
  BY DEF DrawPixel
<1>3. /\ Bpp \in Nat \ {0} /\ Width \in Nat /\ Height \in Nat /\ n \in 1 .. Bpp
      /\ 0 .. (IF info.pixel_format \in {"Rgb", "Bgr"} THEN 2 ELSE 0) = 0 .. n - 1
  BY InfoFacts, DisplayAssumption DEF PixelFormats
<1> HIDE DEF ux, uy, n
<1>4. <<ux, uy>> \in Screen
  BY <1>1, <1>3 DEF Screen
<1>5. ASSUME NEW p \in Screen
      PROVE  Seen(backbuffer', Width, p) = IF p = <<ux, uy>> THEN Shade(c) ELSE Seen(backbuffer, Width, p)
  <2> DEFINE i(k) == PixelByte(Width, p, k)
  <2>1. \A k \in 0 .. Bpp - 1 : i(k) \in DOMAIN backbuffer
    BY PixelInside
  <2>2. \A k \in 0 .. Bpp - 1 :
          /\ i(k) \in Nat /\ ByteOffset(ux, uy) \in Nat
          /\ i(k) \in Row(ux, uy, 1 * Bpp) <=> p[2] = uy /\ ux <= p[1] /\ p[1] < ux + 1
          /\ p[2] = uy /\ ux <= p[1] => i(k) - ByteOffset(ux, uy) = (p[1] - ux) * Bpp + k
    <3>1. ux + 1 <= Width
      BY <1>1, <1>3
    <3> QED BY <1>1, <3>1, RowHits
  <2> HIDE DEF i
  <2>3. CASE p = <<ux, uy>>
    <3>1. ASSUME NEW k \in 0 .. n - 1
          PROVE  backbuffer'[i(k)] = ColorBytes(c)[k + 1]
      <4>1. k \in 0 .. Bpp - 1 /\ k \in Nat /\ k < n
        BY <1>3
      <4>2. (p[1] - ux) * Bpp + k = k /\ p[2] = uy /\ ux <= p[1]
        BY <1>1, <1>3, <2>3, <4>1
      <4>3. i(k) - ByteOffset(ux, uy) = k /\ i(k) \in Nat /\ ByteOffset(ux, uy) \in Nat
        BY <2>2, <4>1, <4>2
      <4>4. i(k) \in R
        BY <1>3, <4>1, <4>3 DEF Row
      <4> QED BY <1>2, <2>1, <4>1, <4>3, <4>4
    <3>2. \A k \in 0 .. (IF info.pixel_format \in {"Rgb", "Bgr"} THEN 2 ELSE 0) :
            backbuffer'[PixelByte(Width, p, k)] = ColorBytes(c)[k + 1]
      BY <1>3, <3>1, ZenonT(30) DEF i
    <3>3. Seen(backbuffer', Width, p) = Shade(c)
      BY <3>2, SeenColor
    <3> QED BY <2>3, <3>3
  <2>4. CASE p # <<ux, uy>>
    <3>1. ~(p[2] = uy /\ ux <= p[1] /\ p[1] < ux + 1)
      BY <1>1, <2>4, PointFacts
    <3>2. R \subseteq Row(ux, uy, 1 * Bpp)
      <4>1. 0 \in 0 .. Bpp - 1
        BY <1>3
      <4>2. ByteOffset(ux, uy) \in Nat
        BY <2>2, <4>1
      <4> QED BY <1>3, <4>2 DEF Row
    <3>3. \A k \in 0 .. Bpp - 1 : i(k) \notin R
      BY <2>2, <3>1, <3>2
    <3>4. \A k \in 0 .. Bpp - 1 : backbuffer'[PixelByte(Width, p, k)] = backbuffer[PixelByte(Width, p, k)]
      BY <1>2, <2>1, <3>3 DEF i
    <3>5. Seen(backbuffer', Width, p) = Seen(backbuffer, Width, p)
      BY <3>4, BackSame
    <3> QED BY <2>4, <3>5
  <2> QED BY <2>3, <2>4
<1>6. Drawn' = [p \in Screen |-> IF p = <<ux, uy>> THEN Shade(c) ELSE Drawn[p]]
  BY <1>2, <1>5, PictureNext DEF Drawn
<1>7. Shown' = Shown /\ Screen' = Screen
  BY <1>2, PictureNext DEF Shown
<1> QED BY <1>4, <1>6, <1>7 DEF ux, uy

\* draw_frame shows what was drawn, whatever the stride.
LEMMA DrawFrameShows ==
  ASSUME info \in Infos, BuffersKept, DrawFrame
  PROVE  Shown' = Drawn /\ Drawn' = Drawn /\ Screen' = Screen
<1> DEFINE start(y) == y * info.stride * Bpp
           hit(i)   == {y \in 0 .. Height - 1 : i \in start(y) .. start(y) + Width * Bpp - 1}
           covered  == UNION {start(y) .. start(y) + Width * Bpp - 1 : y \in 0 .. Height - 1}
<1>1. /\ info' = info /\ backbuffer' = backbuffer
      /\ \A i \in covered :
           framebuffer'[i] = IF hit(i) = {} THEN framebuffer[i]
                             ELSE backbuffer[ByteOffset(0, Max(hit(i))) + (i - start(Max(hit(i))))]
  BY DEF DrawFrame
<1>2. /\ Bpp \in Nat \ {0} /\ Width \in Nat /\ Height \in Nat /\ info.stride \in Nat
      /\ Width <= info.stride
  BY InfoFacts
<1>3. \A y \in Nat : start(y) = (y * info.stride + 0) * Bpp
  BY <1>2
<1> HIDE DEF start
<1>4. ASSUME NEW p \in Screen
      PROVE  Seen(framebuffer', info.stride, p) = Seen(backbuffer, Width, p)
  <2>1. /\ p[1] \in 0 .. Width - 1 /\ p[1] \in 0 .. info.stride - 1
        /\ p[2] \in 0 .. Height - 1 /\ p[2] \in Nat /\ p[1] \in Nat
    BY <1>2, PointFacts
  <2>2. ASSUME NEW k \in 0 .. Bpp - 1
        PROVE  framebuffer'[PixelByte(info.stride, p, k)] = backbuffer[PixelByte(Width, p, k)]
    <3> DEFINE i == PixelByte(info.stride, p, k)
    <3>1. \A y \in Nat :
            /\ i \in start(y) .. start(y) + Width * Bpp - 1 <=> p[2] = y /\ 0 <= p[1] /\ p[1] < 0 + Width
            /\ p[2] = y /\ 0 <= p[1] => i - start(y) = (p[1] - 0) * Bpp + k
      <4> SUFFICES ASSUME NEW y \in Nat
                   PROVE  /\ i \in start(y) .. start(y) + Width * Bpp - 1
                               <=> p[2] = y /\ 0 <= p[1] /\ p[1] < 0 + Width
                          /\ p[2] = y /\ 0 <= p[1] => i - start(y) = (p[1] - 0) * Bpp + k
        OBVIOUS
      <4>1. PICK w \in Nat, b \in Nat \ {0}, u \in Nat, v \in Nat, n \in Nat :
              w = info.stride /\ b = Bpp /\ u = p[1] /\ v = p[2] /\ n = Width
        BY <1>2, <2>1
      <4>2. 0 + n <= w /\ 0 \in Nat /\ u \in 0 .. w - 1 /\ k \in 0 .. b - 1
        BY <1>2, <2>1, <4>1
      <4> DEFINE j == (v * w + u) * b + k
                 o == (y * w + 0) * b
      <4>3. /\ j \in o .. o + n * b - 1 <=> v = y /\ 0 <= u /\ u < 0 + n
            /\ v = y /\ 0 <= u => j - o = (u - 0) * b + k
        BY <4>2, ByteInRow
      <4>4. j = i /\ o = start(y)
        BY <1>3, <4>1 DEF PixelByte
      <4> HIDE DEF j, o, i
      <4> QED BY <4>1, <4>3, <4>4
    <3> HIDE DEF i
    <3>2. 0 <= p[1] /\ p[1] < 0 + Width /\ (p[1] - 0) * Bpp + k = p[1] * Bpp + k
      BY <1>2, <2>1
    <3>3. i \in start(p[2]) .. start(p[2]) + Width * Bpp - 1 /\ i - start(p[2]) = p[1] * Bpp + k
      BY <2>1, <3>1, <3>2
    <3>4. 0 .. Height - 1 \subseteq Nat
      BY <1>2
    <3>5. hit(i) = {p[2]}
      BY <2>1, <3>1, <3>3, <3>4
    <3>6. i \in covered
      BY <2>1, <3>3
    <3>7. Max({p[2]}) = p[2]
      BY <2>1 DEF Max
    <3>8. framebuffer'[i] = backbuffer[ByteOffset(0, p[2]) + (p[1] * Bpp + k)]
      <4>1. framebuffer'[i] = backbuffer[ByteOffset(0, Max(hit(i))) + (i - start(Max(hit(i))))]
        BY <1>1, <3>5, <3>6
      <4> QED BY <3>3, <3>5, <3>7, <4>1, ZenonT(30)
    <3>9. ByteOffset(0, p[2]) + (p[1] * Bpp + k) = PixelByte(Width, p, k)
      <4>1. p[2] * Width \in Nat /\ p[1] * Bpp \in Nat /\ (p[2] * Width) * Bpp \in Nat
        BY <1>2, <2>1
      <4>2. (p[2] * Width + p[1]) * Bpp = (p[2] * Width) * Bpp + p[1] * Bpp
        BY <1>2, <2>1, <4>1
      <4>3. (p[2] * Width + 0) * Bpp = (p[2] * Width) * Bpp
        BY <4>1
      <4> QED BY <1>2, <4>1, <4>2, <4>3 DEF PixelByte, ByteOffset
    <3> QED BY <3>8, <3>9 DEF i
  <2>3. \A k \in 0 .. Bpp - 1 :
          framebuffer'[PixelByte(info.stride, p, k)] = backbuffer[PixelByte(Width, p, k)]
    BY <2>2
  <2> QED BY <2>3, FrameSame
<1>5. Shown' = Drawn
  BY <1>1, <1>4, PictureNext DEF Drawn
<1> QED BY <1>1, <1>5, PictureNext DEF Drawn

\* What a point can show.
AllShades == Colors \cup {<<Gray(c)>> : c \in Colors}

\* Drawing a colour on the points of a rectangle is a step of the picture.
LEMMA RectangleDrawn ==
  ASSUME NEW a \in Screen, NEW b \in Screen, NEW c \in Colors,
         Drawn' = [p \in Screen |-> IF p \in P!Rectangle(a, b) THEN Shade(c) ELSE Drawn[p]],
         Screen' = Screen, Shown' = Shown
  PROVE  P!PNext
<1>1. Shade(c) \in AllShades
  BY DEF Shade, AllShades
<1>2. P!Draw(P!Rectangle(a, b), Shade(c))
  BY DEF P!Draw
<1> QED BY <1>1, <1>2 DEF P!PNext, AllShades

\* draw_pixel is a drawing of one point, or panics.
LEMMA PixelPicture ==
  ASSUME info \in Infos, BuffersKept, NEW x \in Int, NEW y \in Int, NEW c \in Colors,
         DrawPixel(x, y, c)
  PROVE  P!PNext \/ UNCHANGED <<Screen, Drawn, Shown>>
<1>1. CASE info.pixel_format = "Unknown"
  <2>1. UNCHANGED <<info, backbuffer, framebuffer>>
    BY <1>1 DEF DrawPixel, Unsupported
  <2> QED BY <2>1, PictureNext DEF Drawn, Shown
<1>2. CASE info.pixel_format # "Unknown"
  <2> DEFINE a == <<AsUsize(x), AsUsize(y)>>
             area == P!Rectangle(a, a)
  <2>1. c \in Nat \X Nat \X Nat
    BY DisplayAssumption
  <2>2. /\ a \in Screen /\ Screen' = Screen /\ Shown' = Shown
        /\ Drawn' = [p \in Screen |-> IF p = a THEN Shade(c) ELSE Drawn[p]]
    BY <1>2, <2>1, DrawPixelDrawn
  <2> HIDE DEF a
  <2>3. ASSUME NEW p \in Screen PROVE p \in area <=> p = a
    <3>1. /\ p = <<p[1], p[2]>> /\ p[1] \in Nat /\ p[2] \in Nat
          /\ a = <<a[1], a[2]>> /\ a[1] \in Nat /\ a[2] \in Nat
      BY <2>2, PointFacts
    <3> QED BY <3>1 DEF P!Rectangle
  <2> HIDE DEF area
  <2>4. Drawn' = [p \in Screen |-> IF p \in area THEN Shade(c) ELSE Drawn[p]]
    BY <2>2, <2>3
  <2> QED BY <2>2, <2>4, RectangleDrawn, ZenonT(30) DEF area
<1> QED BY <1>1, <1>2

\* Rows of the same columns are a rectangle.
LEMMA RowsPicture ==
  ASSUME info \in Infos, BuffersKept, Fillable, NEW c \in Colors,
         NEW l \in 0 .. Width - 1, NEW r \in 0 .. Width - 1, l <= r,
         NEW t \in 0 .. Height - 1, NEW u \in 0 .. Height - 1, t <= u,
         FillRows(l, t .. u, r - l + 1, c)
  PROVE  P!PNext
<1> DEFINE a == <<l, t>>
           b == <<r, u>>
           area == P!Rectangle(a, b)
           in(p) == l <= p[1] /\ p[1] < l + (r - l + 1) /\ p[2] \in t .. u
<1>1. c \in Nat \X Nat \X Nat
  BY DisplayAssumption
<1>2. Width \in Nat /\ Height \in Nat
  BY InfoFacts
<1>3. /\ l \in Nat /\ r - l + 1 \in Nat /\ l + (r - l + 1) <= Width
      /\ t .. u \in SUBSET (0 .. Height - 1)
  BY <1>2
<1>4. /\ Drawn' = [p \in Screen |-> IF in(p) THEN Shade(c) ELSE Drawn[p]]
      /\ Screen' = Screen /\ Shown' = Shown
  BY <1>1, <1>3, FillRowsDrawn, ZenonT(30)
<1>5. ASSUME NEW p \in Screen PROVE p \in area <=> in(p)
  <2>1. p[1] \in Nat /\ p[2] \in Nat
    BY PointFacts
  <2> QED BY <1>2, <2>1 DEF P!Rectangle
<1>6. a \in Screen /\ b \in Screen
  BY DEF Screen
<1> HIDE DEF area, in, a, b
<1>7. Drawn' = [p \in Screen |-> IF p \in area THEN Shade(c) ELSE Drawn[p]]
  BY <1>4, <1>5
<1> QED BY <1>4, <1>6, <1>7, RectangleDrawn, ZenonT(30) DEF area

\* fill_solid, of whatever part of the area is on the screen.
LEMMA SolidPicture ==
  ASSUME info \in Infos, BuffersKept, NEW c \in Colors,
         NEW area \in [x : Int, y : Int, width : Nat, height : Nat], FillSolid(area, c)
  PROVE  P!PNext \/ UNCHANGED <<Screen, Drawn, Shown>>
<1> DEFINE columns == Clip(area.x, area.width, Width)
           rows    == Clip(area.y, area.height, Height)
<1>1. CASE ~Fillable
  <2>1. UNCHANGED <<info, backbuffer, framebuffer>>
    BY <1>1 DEF FillSolid, Unsupported
  <2> QED BY <2>1, PictureNext DEF Drawn, Shown
<1>2. CASE Fillable
  <2>1. columns # {} /\ rows # {} /\ FillRows(Min(columns), rows, Breadth(columns), c)
    BY <1>2 DEF FillSolid
  <2>2. Width \in Nat /\ Height \in Nat /\ area.x \in Int /\ area.y \in Int /\ area.width \in Nat
        /\ area.height \in Nat
    BY InfoFacts
  <2>3. PICK l, r \in 0 .. Width - 1 :
          /\ columns = l .. r /\ l <= r
          /\ Min(columns) = l /\ Breadth(columns) = r - l + 1
    BY <2>1, <2>2, ClipRange, ZenonT(30)
  <2>4. PICK t, u \in 0 .. Height - 1 :
          /\ rows = t .. u /\ t <= u
          /\ Min(rows) = t /\ Breadth(rows) = u - t + 1
    BY <2>1, <2>2, ClipRange, ZenonT(30)
  <2> HIDE DEF columns, rows
  <2>5. FillRows(l, t .. u, r - l + 1, c)
    BY <2>1, <2>3, <2>4
  <2> QED BY <1>2, <2>3, <2>4, <2>5, RowsPicture
<1> QED BY <1>1, <1>2

\* clear, of the whole screen.
LEMMA ClearPicture ==
  ASSUME info \in Infos, BuffersKept, NEW c \in Colors, Clear(c)
  PROVE  P!PNext \/ UNCHANGED <<Screen, Drawn, Shown>>
<1>1. CASE ~Fillable
  <2>1. UNCHANGED <<info, backbuffer, framebuffer>>
    BY <1>1 DEF Clear, Unsupported
  <2> QED BY <2>1, PictureNext DEF Drawn, Shown
<1>2. CASE Fillable
  <2>1. FillRows(0, 0 .. Height - 1, Width, c)
    BY <1>2 DEF Clear
  <2>2. /\ 0 \in 0 .. Width - 1 /\ Width - 1 \in 0 .. Width - 1 /\ 0 <= Width - 1
        /\ 0 \in 0 .. Height - 1 /\ Height - 1 \in 0 .. Height - 1 /\ 0 <= Height - 1
        /\ Width - 1 - 0 + 1 = Width
    BY InfoFacts
  <2>3. FillRows(0, 0 .. Height - 1, Width - 1 - 0 + 1, c)
    BY <2>1, <2>2
  <2> QED BY <1>2, <2>2, <2>3, RowsPicture
<1> QED BY <1>1, <1>2

\* draw_frame.
LEMMA FramePicture ==
  ASSUME info \in Infos, BuffersKept, DrawFrame
  PROVE  P!PNext
<1>1. P!Show
  BY DrawFrameShows DEF P!Show
<1> QED BY <1>1 DEF P!PNext

\* Zeroes are black.
LEMMA SeenZero ==
  ASSUME info \in Infos, NEW f, NEW w \in Nat, NEW p \in Screen,
         \A k \in 0 .. Bpp - 1 : f[PixelByte(w, p, k)] = 0
  PROVE  Seen(f, w, p) = Shade(<<0, 0, 0>>)
<1> DEFINE a == (p[2] * w + p[1]) * Bpp
<1>1. Bpp \in Nat \ {0} /\ (info.pixel_format \in {"Rgb", "Bgr"} => Bpp >= 3)
  BY InfoFacts
<1>2. a \in Nat
  <2>1. p[2] * w \in Nat /\ p[1] \in Nat
    BY PointFacts
  <2> QED BY <1>1, <2>1
<1>3. \A k \in 0 .. Bpp - 1 : f[a + k] = 0
  BY DEF PixelByte
<1> HIDE DEF a
<1>4. f[a] = 0
  <2>1. f[a + 0] = 0
    BY <1>1, <1>3
  <2>2. a + 0 = a
    BY <1>2
  <2> QED BY <2>1, <2>2
<1>5. Bpp >= 3 => f[a + 1] = 0 /\ f[a + 2] = 0
  BY <1>1, <1>3
<1>6. Gray(<<0, 0, 0>>) = 0
  BY DEF Gray
<1>7. Seen(f, w, p) = IF info.pixel_format = "Rgb" THEN <<f[a], f[a + 1], f[a + 2]>>
                      ELSE IF info.pixel_format = "Bgr" THEN <<f[a + 2], f[a + 1], f[a]>>
                      ELSE <<f[a]>>
  BY DEF Seen, a
<1>8. CASE info.pixel_format \in {"Rgb", "Bgr"}
  BY <1>1, <1>4, <1>5, <1>7, <1>8 DEF Shade
<1>9. CASE info.pixel_format \notin {"Rgb", "Bgr"}
  BY <1>4, <1>6, <1>7, <1>9 DEF Shade
<1> QED BY <1>8, <1>9

Black == [p \in Screen |-> Shade(<<0, 0, 0>>)]

\* Display::new: the hidden picture is black.
LEMMA StartsBlack ==
  ASSUME DisplayInit
  PROVE  Drawn = Black
<1>1. info \in Infos /\ BuffersKept
  BY DisplayStarts
<1>2. \A i \in DOMAIN backbuffer : backbuffer[i] = 0
  BY DEF DisplayInit
<1>4. PICK v \in Nat : v = Width
  BY <1>1, InfoFacts
<1>5. ASSUME NEW p \in Screen PROVE Seen(backbuffer, Width, p) = Shade(<<0, 0, 0>>)
  <2>1. \A k \in 0 .. Bpp - 1 : backbuffer[PixelByte(v, p, k)] = 0
    BY <1>1, <1>2, <1>4, PixelInside
  <2>2. Seen(backbuffer, v, p) = Shade(<<0, 0, 0>>)
    BY <1>1, <2>1, SeenZero
  <2> QED BY <1>4, <2>2
<1> QED BY <1>5 DEF Drawn, Black

\* So the picture starts as a picture may.
LEMMA PictureInit ==
  ASSUME DisplayInit
  PROVE  P!PInit
<1>1. <<0, 0, 0>> \in Colors
  BY DisplayAssumption
<1>2. Shade(<<0, 0, 0>>) \in AllShades
  BY <1>1 DEF Shade, AllShades
<1>3. Black \in [Screen -> AllShades]
  BY <1>2 DEF Black
<1>4. DOMAIN Shown = Screen
  BY DEF Shown
<1> QED BY <1>3, <1>4, StartsBlack DEF P!PInit, AllShades
-----------------------------------------------------------------------------
(* The kernel *)

Holding == {"clock_sized", "clock_clear", "clock_hands", "clock_frame", "clock_unlock"} \cup Printing

\* The lock of the sleep register is held in polls only, with interrupts masked. The
\* display is taken while the clock task draws, in a print, and after a panic. Events
\* go to the screen during boot only, where no interrupt comes, and a panic that logs
\* to the screen has not struck code that holds the display.
ControlInv ==
  /\ locked => cpu = "free" /\ ~interrupts
  /\ setting # "kernel" => cpu = "free" /\ ~display_locked
  /\ display_locked => cpu \in Holding \cup Panicking \cup Dead
  /\ setting = "kernel" /\ should_use_screen =>
       /\ ~interrupts
       /\ cpu \in {"start", "boot"} \cup Printing \cup Panicking \cup Dead
       /\ cpu = "panic" => ~display_locked
  /\ cpu \in Printing => /\ caller \in {"boot", "greeted", "free", "panic_lock"}
                         /\ should_use_screen => caller \in {"boot", "panic_lock"}
  /\ logger = "ok"

ConsoleInv == SleepInv /\ info \in Infos /\ BuffersKept /\ ControlInv

SleepMove ==
  \/ \E t \in Tasks : \/ \E d \in Durations : New(t, d)
                      \/ PollReady(t) \/ PollPending(t) \/ RegisterLock(t)
                      \/ RegisterInsert(t) \/ PollWoken(t) \/ PollSpurious(t)
  \/ ClockInterrupt \/ ClockAtBound
  \/ UNCHANGED sleepVars

DrawMove ==
  \/ \E x, y \in Int : \E c \in Colors \cup {Ink} : DrawPixel(x, y, c)
  \/ \E area \in [x : Int, y : Int, width : Nat, height : Nat] :
       \E c \in Colors \cup {Ink} : FillSolid(area, c)
  \/ \E c \in Colors \cup {Ink} : Clear(c)
  \/ DrawFrame
  \/ UNCHANGED displayVars

\* Every step of the kernel is one of the sleepers, or leaves them alone.
LEMMA SleepProjection == ConsoleNext => SleepMove
<1> SUFFICES ASSUME ConsoleNext PROVE SleepMove
  OBVIOUS
<1>1. ASSUME NEW t \in Tasks, NEW d \in Durations, BeginSleep(t, d) PROVE SleepMove
  BY <1>1 DEF BeginSleep, SleepMove
<1>2. ASSUME NEW t \in Tasks, Woken(t) \/ Spurious(t) PROVE SleepMove
  BY <1>2 DEF Woken, Spurious, SleepMove
<1>3. ASSUME NEW t \in Tasks, Polled(t) PROVE SleepMove
  BY <1>3 DEF Polled, SleepEnds, SleepWaits, Registers, SleepMove
<1>4. CASE CpuStep
  <2>1. UNCHANGED sleepVars
    BY <1>4, ZenonT(30) DEF CpuStep, Traces, ClockUnchanged, ClockLock, ClockDraws, ClockUnlock, Glyph,
                GlyphPanics, Flush, PanicStep, PanicEvent, WriteText, vars, sleepVars, futureVars
  <2> QED
    BY <2>1 DEF SleepMove
<1>5. CASE Echo \/ BootClear \/ BootText \/ UseSerialOnly \/ Greet \/ Run
  <2>1. UNCHANGED sleepVars
    BY <1>5 DEF Echo, BootClear, BootText, UseSerialOnly, Greet, Run, WriteText, vars, sleepVars, futureVars
  <2> QED
    BY <2>1 DEF SleepMove
<1>6. CASE ClockTick
  BY <1>6 DEF ClockTick, SleepMove
<1>7. CASE HandlerWarns \/ Panics \/ Pixels \/ Halted
  <2>1. UNCHANGED sleepVars
    BY <1>7 DEF HandlerWarns, Panics, Pixels, Halted, WriteText, allVars, vars, sleepVars, futureVars
  <2> QED
    BY <2>1 DEF SleepMove
<1> QED
  BY <1>1, <1>2, <1>3, <1>4, <1>5, <1>6, <1>7 DEF ConsoleNext

\* Every step of the kernel draws once, or leaves the buffers alone.
LEMMA DrawProjection ==
  ASSUME info \in Infos, ConsoleNext
  PROVE  DrawMove
<1>0. /\ <<0, 0, 0>> \in Colors /\ Width - 1 \in Int /\ 0 \in Int
      /\ Crop \in [x : Int, y : Int, width : Nat, height : Nat]
  BY InfoFacts, DisplayAssumption DEF Crop
<1>1. ASSUME NEW t \in Tasks, NEW d \in Durations, BeginSleep(t, d) PROVE DrawMove
  BY <1>1 DEF BeginSleep, DrawMove
<1>2. ASSUME NEW t \in Tasks, Woken(t) \/ Spurious(t) PROVE DrawMove
  BY <1>2 DEF Woken, Spurious, PollAgain, DrawMove
<1>3. ASSUME NEW t \in Tasks, Polled(t) PROVE DrawMove
  BY <1>3 DEF Polled, SleepEnds, SleepWaits, Registers, DrawMove
<1>4. CASE Traces \/ ClockUnchanged \/ ClockLock \/ ClockUnlock \/ GlyphPanics
  BY <1>4 DEF Traces, ClockUnchanged, ClockLock, ClockUnlock, GlyphPanics, DrawMove
<1>5. CASE ClockDraws
  BY <1>0, <1>5 DEF ClockDraws, DrawMove
<1>6. CASE Glyph
  BY <1>0, <1>6 DEF Glyph, DrawMove
<1>7. CASE Flush
  BY <1>7 DEF Flush, DrawMove
<1>8. CASE PanicStep
  <2>1. CASE PanicDraws
    BY <1>0, <2>1 DEF PanicDraws, DrawMove
  <2>2. CASE UNCHANGED displayVars
    BY <2>2 DEF DrawMove
  <2> QED
    BY <1>8, <2>1, <2>2 DEF PanicStep, PanicEvent, WriteText
<1>9. CASE BootClear
  BY <1>0, <1>9 DEF BootClear, DrawMove
<1>10. CASE Echo \/ BootText \/ UseSerialOnly \/ Greet \/ Run \/ ClockTick \/ HandlerWarns \/ Panics
            \/ Halted
  BY <1>10 DEF Echo, BootText, UseSerialOnly, Greet, Run, ClockTick, HandlerWarns, Panics, Halted,
               WriteText, allVars, DrawMove
<1>11. CASE Pixels
  <2>1. CASE DrawFrame
    BY <2>1 DEF DrawMove
  <2>2. CASE \E c \in Colors, x, y \in Coordinates : DrawPixel(x, y, c)
    BY <2>2, DisplayAssumption DEF DrawMove
  <2>3. CASE \E c \in Colors, area \in Areas : FillSolid(area, c)
    <3>1. Areas \subseteq [x : Int, y : Int, width : Nat, height : Nat]
      <4>1. Coordinates \subseteq Int /\ {0, 1, 2} \subseteq Nat
        BY DisplayAssumption
      <4> QED
        BY <4>1, ZenonT(30) DEF Areas
    <3> QED
      BY <2>3, <3>1 DEF DrawMove
  <2>4. CASE \E c \in Colors : Clear(c)
    BY <2>4 DEF DrawMove
  <2> QED
    BY <1>11, <2>1, <2>2, <2>3, <2>4 DEF Pixels, DrawSomething
<1> QED
  BY <1>1, <1>2, <1>3, <1>4, <1>5, <1>6, <1>7, <1>8, <1>9, <1>10, <1>11
     DEF ConsoleNext, CpuStep

\* No drawing of the kernel leaves its buffer.
LEMMA DrawStep ==
  ASSUME info \in Infos, BuffersKept, ConsoleNext
  PROVE  info' \in Infos /\ BuffersKept'
<1>1. CASE UNCHANGED displayVars
  BY <1>1 DEF displayVars, BuffersKept, BackLen, FrameLen, Width, Height, Bpp
<1> QED
  BY <1>1, DrawProjection, DrawPixelKeeps, FillSolidKeeps, ClearKeeps, DrawFrameKeeps
     DEF DrawMove

\* No step of the kernel disturbs the sleepers.
LEMMA SleepStep ==
  ASSUME SleepInv, ConsoleNext
  PROVE  SleepInv'
<1>1. CASE UNCHANGED sleepVars
  BY <1>1, SleepUnchanged DEF sleepVars
<1> QED
  BY <1>1, SleepProjection, NewSleep, PollReadyInv, PollPendingInv, RegisterLockInv,
     RegisterInsertInv, PolledAgainInv, TickInv DEF SleepMove

\* The states of the processor are different.
LEMMA Places ==
  /\ Printing = {"glyph", "flush"}
  /\ Panicking = {"panic", "panic_lock", "panic_clear", "panic_text"}
  /\ Dead = {"exited", "overflow"}
  /\ Holding = {"clock_sized", "clock_clear", "clock_hands", "clock_frame", "clock_unlock",
                "glyph", "flush"}
  /\ Booting = {"start", "boot", "main", "greeted"}
BY DEF Printing, Panicking, Dead, Holding, Booting

\* A task that holds the lock of the register is the one being polled.
LEMMA LockedIsPolled ==
  ASSUME SleepInv, locked
  PROVE  \E t \in Tasks : pc[t] = "locked" /\ running = {t}
BY DEF SleepInv

\* The steps of the sleepers.
LEMMA SleepersControl ==
  ASSUME SleepInv, ControlInv, NEW t \in Tasks,
         \/ \E d \in Durations : BeginSleep(t, d)
         \/ Woken(t) \/ Spurious(t) \/ Polled(t)
  PROVE  ControlInv'
<1>1. ASSUME NEW d \in Durations, BeginSleep(t, d) PROVE ControlInv'
  BY <1>1, Places, ZenonT(30) DEF BeginSleep, Goes, New, ControlInv
<1>2. CASE Woken(t) \/ Spurious(t)
  <2>1. UNCHANGED <<consoleVars, locked, interrupts>>
    BY <1>2, ZenonT(30) DEF Woken, Spurious, PollWoken, PollSpurious, PollAgain
  <2> QED
    BY <2>1, ZenonT(30) DEF consoleVars, ControlInv
<1>3. CASE SleepEnds(t)
  <2>1. ~locked
    BY <1>3, LockedIsPolled, Zenon DEF SleepEnds, PollReady, SleepInv
  <2> QED
    BY <1>3, <2>1, Places, ZenonT(30) DEF SleepEnds, PollReady, Goes, DrawsClock, ControlInv
<1>4. CASE SleepWaits(t)
  BY <1>4, Places, Zenon DEF SleepWaits, PollPending, consoleVars, ControlInv
<1>5. CASE Registers(t)
  BY <1>5, Places, Zenon DEF Registers, RegisterLock, RegisterInsert, consoleVars, ControlInv
<1> QED
  BY <1>1, <1>2, <1>3, <1>4, <1>5 DEF Polled

\* The steps of the clock task, of a print and of the panic handler.
LEMMA CpuControl ==
  ASSUME SleepInv, ControlInv, CpuStep
  PROVE  ControlInv'
<1>1. CASE Traces
  BY <1>1, Places DEF Traces, vars, consoleVars, ControlInv
<1>2. CASE ClockUnchanged
  BY <1>2, Places DEF ClockUnchanged, Goes, vars, ControlInv
<1>3. CASE ClockLock
  BY <1>3, Places DEF ClockLock, Goes, vars, ControlInv
<1>4. CASE ClockDraws
  BY <1>4, Places DEF ClockDraws, Goes, vars, ControlInv
<1>5. CASE ClockUnlock
  BY <1>5, Places DEF ClockUnlock, Goes, vars, ControlInv
<1>6. CASE Glyph
  BY <1>6, Places DEF Glyph, vars, ControlInv
<1>7. CASE GlyphPanics
  BY <1>7, Places DEF GlyphPanics, vars, ControlInv
<1>8. CASE Flush
  BY <1>8, Places, ZenonT(30) DEF Flush, ControlInv
<1>9. CASE PanicEvent
  BY <1>9, Places DEF PanicEvent, WriteText, vars, ControlInv
<1>10. CASE PanicStep /\ ~PanicEvent
  BY <1>10, Places DEF PanicStep, PanicLock, PanicDraws, vars, ControlInv
<1> QED
  BY <1>1, <1>2, <1>3, <1>4, <1>5, <1>6, <1>7, <1>8, <1>9, <1>10 DEF CpuStep

\* Prints, boot and handlers.
LEMMA OtherControl ==
  ASSUME SleepInv, ControlInv,
         \/ Echo \/ BootClear \/ BootText \/ UseSerialOnly \/ Greet \/ Run
         \/ ClockTick \/ HandlerWarns \/ Panics \/ Pixels \/ Halted
  PROVE  ControlInv'
<1>1. CASE Echo
  <2>1. ~locked
    BY <1>1, LockedIsPolled DEF Echo
  <2> QED
    BY <1>1, <2>1, Places DEF Echo, WriteText, ControlInv
<1>2. CASE BootClear
  BY <1>2, Places DEF BootClear, Goes, vars, ControlInv
<1>3. CASE BootText \/ Greet
  BY <1>3, Places DEF BootText, Greet, WriteText, ControlInv
<1>4. CASE UseSerialOnly
  BY <1>4, Places DEF UseSerialOnly, Goes, vars, ControlInv
<1>5. CASE Run
  BY <1>5, Places DEF Run, Goes, sleepVars, ControlInv
<1>6. CASE ClockTick
  BY <1>6, Places DEF ClockTick, ClockInterrupt, ClockAtBound, consoleVars, ControlInv
<1>7. CASE HandlerWarns
  BY <1>7, Places, ZenonT(30) DEF HandlerWarns, allVars, vars, consoleVars, ControlInv
<1>8. CASE Panics
  BY <1>8, Places DEF Panics, sleepVars, ControlInv
<1>9. CASE Pixels \/ Halted
  BY <1>9, Places DEF Pixels, Halted, allVars, vars, consoleVars, ControlInv
<1> QED
  BY <1>1, <1>2, <1>3, <1>4, <1>5, <1>6, <1>7, <1>8, <1>9

\* ConsoleInv is inductive.
LEMMA ConsoleInvariant == ConsoleSpec => []ConsoleInv
<1>1. ConsoleInit => ConsoleInv
  <2> SUFFICES ASSUME ConsoleInit PROVE ConsoleInv
    OBVIOUS
  <2>1. ControlInv
    BY Places, Zenon DEF ConsoleInit, NoSleeper, ControlInv
  <2> QED
    BY <2>1, SleepInvInit, DisplayStarts DEF ConsoleInit, ConsoleInv
<1>2. ConsoleInv /\ [ConsoleNext]_allVars => ConsoleInv'
  <2> SUFFICES ASSUME ConsoleInv, [ConsoleNext]_allVars PROVE ConsoleInv'
    OBVIOUS
  <2>1. CASE ConsoleNext
    <3>1. ControlInv'
      BY <2>1, SleepersControl, CpuControl, OtherControl DEF ConsoleInv, ConsoleNext
    <3> QED
      BY <2>1, <3>1, SleepStep, DrawStep DEF ConsoleInv
  <2>2. CASE UNCHANGED allVars
    <3>1. SleepInv'
      BY <2>2, SleepUnchanged DEF ConsoleInv, allVars, vars, futureVars
    <3>2. info' \in Infos /\ BuffersKept'
      BY <2>2 DEF ConsoleInv, allVars, displayVars, BuffersKept, BackLen, FrameLen, Width,
                  Height, Bpp
    <3>3. ControlInv'
      BY <2>2, Places DEF ConsoleInv, allVars, vars, consoleVars, ControlInv
    <3> QED
      BY <3>1, <3>2, <3>3 DEF ConsoleInv
  <2> QED
    BY <2>1, <2>2
<1> QED
  BY <1>1, <1>2, PTL DEF ConsoleSpec

\* wake_sleep's try_lock never fails, whatever else runs in the kernel.
THEOREM RegisterIsFree == ConsoleSpec => []LockFreeInInterrupt
<1>1. ConsoleInv => LockFreeInInterrupt
  BY DEF ConsoleInv, ControlInv, LockFreeInInterrupt
<1> QED
  BY <1>1, ConsoleInvariant, PTL

\* No sleeper is forgotten.
THEOREM NobodyForgotten == ConsoleSpec => []NoForgottenSleeper
<1>1. ConsoleInv => NoForgottenSleeper
  BY DEF ConsoleInv, SleepInv
<1> QED
  BY <1>1, ConsoleInvariant, PTL

\* No drawing and no frame writes outside its buffer, or into the framebuffer's padding,
\* for screens of every size and stride and coordinates far outside them.
THEOREM WritesStayInside == ConsoleSpec => []BuffersKept
<1>1. ConsoleInv => BuffersKept
  BY DEF ConsoleInv
<1> QED
  BY <1>1, ConsoleInvariant, PTL

\* Neither a print, nor an event, nor the clock task ever finds the display taken.
THEOREM DisplayIsFree == ConsoleSpec => []DisplayFree
<1>1. ConsoleInv => DisplayFree
  BY Places DEF ConsoleInv, ControlInv, DisplayFree
<1> QED
  BY <1>1, ConsoleInvariant, PTL

\* wake_sleep removes an entry only when its sleep is due, and a sleep ends at most one
\* tick early.
THEOREM SleepsLast == ConsoleSpec => SleepLasts
<1>1. ConsoleInv /\ [ConsoleNext]_allVars => [SleepLastsStep]_vars
  <2> SUFFICES ASSUME ConsoleInv, ConsoleNext PROVE SleepLastsStep \/ UNCHANGED vars
    BY DEF allVars
  <2>0. SleepInv
    BY DEF ConsoleInv
  <2>1. CASE UNCHANGED sleepVars
    <3>1. service' = service /\ pc' = pc
      BY <2>1 DEF sleepVars
    <3> QED
      BY <2>0, <3>1, OthersLast
  <2>2. ASSUME NEW t \in Tasks, PollReady(t) PROVE SleepLastsStep
    BY <2>0, <2>2, PollReadyLasts
  <2>3. CASE ClockInterrupt \/ ClockAtBound
    BY <2>0, <2>3, TickLasts
  <2>4. ASSUME NEW t \in Tasks,
               \/ \E d \in Durations : New(t, d)
               \/ PollPending(t) \/ RegisterLock(t) \/ RegisterInsert(t)
               \/ PollWoken(t) \/ PollSpurious(t)
        PROVE  SleepLastsStep
    <3>1. service \subseteq service'
      BY <2>4 DEF New, PollPending, RegisterLock, RegisterInsert, PollWoken, PollSpurious
    <3>2. \E l \in {"poll", "register", "locked", "pending"} : pc' = [pc EXCEPT ![t] = l]
      BY <2>4 DEF New, PollPending, RegisterLock, RegisterInsert, PollWoken, PollSpurious, Goto
    <3>3. \A u \in Tasks : pc[u] = "poll" => pc'[u] # "idle"
      BY <2>0, <3>2 DEF SleepInv
    <3> QED
      BY <2>0, <3>1, <3>3, OthersLast
  <2> QED
    BY SleepProjection, <2>1, <2>2, <2>3, <2>4 DEF SleepMove
<1> QED
  BY <1>1, ConsoleInvariant, PTL DEF ConsoleSpec, SleepLasts, SleepLastsStep
-----------------------------------------------------------------------------
(* What is on the screen *)

\* Texts and hands are drawn in a colour of the machine.
LEMMA InkIsColor == Ink \in Colors
BY ConsoleAssumption DEF Ink

\* Bytes that stay show what they showed.
LEMMA PictureStays ==
  ASSUME UNCHANGED displayVars
  PROVE  Screen' = Screen /\ Drawn' = Drawn /\ Shown' = Shown
BY ZenonT(30) DEF displayVars, Screen, Drawn, Shown, Seen, Width, Height, Bpp

\* Every step of the kernel is a step of the double-buffered picture, or none: the
\* buffers implement module Picture, on every screen and in every pixel format.
THEOREM PictureImplemented == ConsoleSpec => ImplementsPicture
<1>1. ConsoleInit => P!PInit
  BY PictureInit DEF ConsoleInit
<1>2. ConsoleInv /\ [ConsoleNext]_allVars => [P!PNext]_<<Screen, Drawn, Shown>>
  <2> SUFFICES ASSUME ConsoleInv, [ConsoleNext]_allVars
               PROVE  P!PNext \/ UNCHANGED <<Screen, Drawn, Shown>>
    OBVIOUS
  <2>1. info \in Infos /\ BuffersKept /\ Colors \cup {Ink} = Colors
    BY InkIsColor DEF ConsoleInv
  <2>2. CASE UNCHANGED displayVars
    BY <2>2, PictureStays
  <2>3. CASE ConsoleNext
    <3>1. CASE \E x, y \in Int : \E c \in Colors : DrawPixel(x, y, c)
      BY <2>1, <3>1, PixelPicture
    <3>2. CASE \E area \in [x : Int, y : Int, width : Nat, height : Nat] :
                 \E c \in Colors : FillSolid(area, c)
      BY <2>1, <3>2, SolidPicture
    <3>3. CASE \E c \in Colors : Clear(c)
      BY <2>1, <3>3, ClearPicture
    <3>4. CASE DrawFrame
      BY <2>1, <3>4, FramePicture
    <3> QED BY <2>1, <2>2, <2>3, <3>1, <3>2, <3>3, <3>4, DrawProjection DEF DrawMove
  <2> QED BY <2>2, <2>3 DEF allVars
<1> QED BY <1>1, <1>2, ConsoleInvariant, PTL DEF ConsoleSpec, ImplementsPicture, P!PSpec

\* The places where nothing is drawn that is not shown. ScreenUpToDate is about one of
\* them, between polls; the others lead to it. Boot is none of them: the first frame
\* there is a text's, and the greeting is the last text.
Fresh == {"greeted", "free", "clock_size", "clock_sized", "clock_lock", "clock_clear",
          "clock_unlock", "clock_sleep"}
ShowInv == setting = "kernel" /\ cpu \in Fresh => Shown = Drawn

\* The steps that draw.
LEMMA DrawsShow ==
  ASSUME ConsoleInv, ShowInv, ClockDraws \/ Glyph \/ Flush \/ PanicStep \/ BootClear \/ Pixels
  PROVE  ShowInv'
<1>0. info \in Infos /\ BuffersKept
  BY DEF ConsoleInv
<1>1. CASE DrawFrame
  BY <1>0, <1>1, DrawFrameShows DEF ShowInv
<1>2. CASE BootClear
  BY <1>2 DEF BootClear, Goes, ShowInv, Fresh
<1>3. CASE Pixels
  BY <1>3 DEF Pixels, consoleVars, ShowInv
<1>4. CASE Flush
  BY <1>1, <1>4 DEF Flush
<1>5. CASE (ClockDraws /\ ~DrawFrame) \/ Glyph \/ PanicStep
  <2>1. cpu' \notin Fresh
    BY <1>5, Places, Zenon DEF ClockDraws, Glyph, PanicStep, PanicEvent, PanicLock, PanicDraws,
       WriteText, Warn, Goes, ConsoleInv, ControlInv, Fresh
  <2> QED BY <2>1 DEF ShowInv, Fresh
<1> QED BY <1>1, <1>2, <1>3, <1>4, <1>5

\* Where the other steps lead.
LEMMA OthersFresh ==
  ASSUME ConsoleInv, ConsoleNext, cpu' \in Fresh,
         ~(ClockDraws \/ Glyph \/ Flush \/ PanicStep \/ BootClear \/ Pixels)
  PROVE  UNCHANGED <<displayVars, setting>> /\ cpu \in Fresh
<1>1. ControlInv
  BY DEF ConsoleInv
<1>2. ASSUME NEW t \in Tasks, NEW d \in Durations, BeginSleep(t, d)
      PROVE  UNCHANGED <<displayVars, setting>> /\ cpu \in Fresh
  BY <1>2, ZenonT(30) DEF BeginSleep, Goes, Fresh
<1>3. ASSUME NEW t \in Tasks, Woken(t) \/ Spurious(t)
      PROVE  UNCHANGED <<displayVars, setting, cpu>>
  BY <1>3 DEF Woken, Spurious, PollAgain, consoleVars
<1>4. ASSUME NEW t \in Tasks, Polled(t)
      PROVE  UNCHANGED <<displayVars, setting>> /\ cpu \in Fresh
  BY <1>4 DEF Polled, SleepEnds, SleepWaits, Registers, Goes, consoleVars, Fresh
<1>5. CASE Traces \/ ClockTick \/ Halted
  BY <1>5 DEF Traces, ClockTick, Halted, consoleVars, allVars
<1>6. CASE ClockUnchanged \/ ClockLock \/ ClockUnlock \/ Run
  BY <1>6 DEF ClockUnchanged, ClockLock, ClockUnlock, Run, Goes, Fresh
<1>7. CASE GlyphPanics \/ Panics \/ UseSerialOnly
  BY <1>7 DEF GlyphPanics, Panics, UseSerialOnly, Goes, Fresh
<1>8. CASE Echo \/ BootText \/ Greet
  BY <1>1, <1>8, Places DEF Echo, BootText, Greet, WriteText, ControlInv, Fresh
<1>9. CASE setting # "pixels" /\ HandlerWarns
  BY <1>1, <1>9 DEF HandlerWarns, ControlInv, allVars, consoleVars
<1> QED BY <1>2, <1>3, <1>4, <1>5, <1>6, <1>7, <1>8, <1>9 DEF ConsoleNext, CpuStep

\* Between polls the screen shows everything that was drawn, whatever it showed before
\* the kernel.
THEOREM ScreenIsUpToDate == ConsoleSpec => []ScreenUpToDate
<1>1. ConsoleInit => ShowInv
  BY DEF ConsoleInit, ShowInv, Fresh
<1>2. ConsoleInv /\ ShowInv /\ [ConsoleNext]_allVars => ShowInv'
  <2> SUFFICES ASSUME ConsoleInv, ShowInv, [ConsoleNext]_allVars PROVE ShowInv'
    OBVIOUS
  <2>1. CASE ConsoleNext
    <3>1. CASE ClockDraws \/ Glyph \/ Flush \/ PanicStep \/ BootClear \/ Pixels
      BY <3>1, DrawsShow
    <3>2. CASE ~(ClockDraws \/ Glyph \/ Flush \/ PanicStep \/ BootClear \/ Pixels)
      BY <2>1, <3>2, OthersFresh, PictureStays DEF ShowInv, Fresh
    <3> QED BY <3>1, <3>2
  <2>2. CASE UNCHANGED allVars
    BY <2>2, PictureStays DEF allVars, consoleVars, ShowInv, Fresh
  <2> QED BY <2>1, <2>2
<1>3. ShowInv => ScreenUpToDate
  BY DEF ShowInv, ScreenUpToDate, Fresh
<1> QED BY <1>1, <1>2, <1>3, ConsoleInvariant, PTL DEF ConsoleSpec
-----------------------------------------------------------------------------
(* The spans *)

\* The names of the spans entered, the innermost last.
Names == [i \in 1 .. Len(stack) |-> spans[stack[i]]]

\* The calls w open span s; a span that is known has an id already.
Opening(s, w, known) == w = Open(s) \/ (w = Enter(s) /\ s \in known)

\* With the spans n entered, the calls w enter and leave what belongs together, and
\* leave the spans T entered.
Leads(n, w, T, known) ==
  \/ w = <<>> /\ n = T
  \/ /\ T = <<>>
     /\ \/ n = <<"sleep">> /\ w = Exit("sleep")
        \/ n = <<"draw_clock">> /\ w = Exit("draw_clock")
        \/ /\ n = <<"sleep", "register_sleep">>
           /\ w = <<<<"exit", "register_sleep">>, <<"exit", "sleep">>>>
        \/ /\ n = <<"draw_clock", "sleep">>
           /\ w = <<<<"exit", "sleep">>, <<"exit", "draw_clock">>>>
        \/ /\ n = <<"draw_clock", "sleep", "register_sleep">>
           /\ w = <<<<"exit", "register_sleep">>, <<"exit", "sleep">>, <<"exit", "draw_clock">>>>
  \/ /\ T = <<"draw_clock">>
     /\ \/ n = <<>> /\ Opening("draw_clock", w, known)
        \/ n = <<"draw_clock", "sleep">> /\ w = Exit("sleep")
        \/ /\ n = <<"sleep">>
           /\ w = <<<<"exit", "sleep">>, <<"new", "draw_clock">>, <<"enter", "draw_clock">>>>
  \/ T = <<"sleep">> /\ n = <<>> /\ Opening("sleep", w, known)
  \/ /\ T = <<"draw_clock", "sleep">>
     /\ \/ n = <<"draw_clock">> /\ Opening("sleep", w, known)
        \/ /\ n = <<>> /\ "draw_clock" \in known /\ "sleep" \in known
           /\ w = <<<<"enter", "draw_clock">>, <<"enter", "sleep">>>>
  \/ T = <<"sleep", "register_sleep">> /\ n = <<"sleep">> /\ Opening("register_sleep", w, known)
  \/ /\ T = <<"draw_clock", "sleep", "register_sleep">>
     /\ n = <<"draw_clock", "sleep">> /\ Opening("register_sleep", w, known)

\* The calls a poll still has to make, and the spans it is in, are sequences of at most
\* three. One element makes such a sequence, ...
LEMMA One ==
  ASSUME NEW E, NEW s \in Seq(E), Len(s) = 1
  PROVE  s = <<s[1]>>
<1>1. DOMAIN s = 1 .. 1
  OBVIOUS
<1>2. s = [i \in 1 .. 1 |-> s[i]]
  BY <1>1
<1>3. <<s[1]>> = [i \in 1 .. 1 |-> s[i]]
  OBVIOUS
<1> QED BY <1>2, <1>3

\* ... or two do, ...
LEMMA Pair ==
  ASSUME NEW E, NEW s \in Seq(E), Len(s) = 2
  PROVE  s = <<s[1], s[2]>>
<1>1. DOMAIN s = 1 .. 2
  OBVIOUS
<1>2. s = [i \in 1 .. 2 |-> s[i]]
  BY <1>1
<1>3. <<s[1], s[2]>> = [i \in 1 .. 2 |-> s[i]]
  OBVIOUS
<1> QED BY <1>2, <1>3

\* ... or three.
LEMMA Triple ==
  ASSUME NEW E, NEW s \in Seq(E), Len(s) = 3
  PROVE  s = <<s[1], s[2], s[3]>>
<1>1. DOMAIN s = 1 .. 3
  OBVIOUS
<1>2. s = [i \in 1 .. 3 |-> s[i]]
  BY <1>1
<1>3. <<s[1], s[2], s[3]>> = [i \in 1 .. 3 |-> s[i]]
  OBVIOUS
<1> QED BY <1>2, <1>3

\* What is left after the first call.
LEMMA ShortTails ==
  ASSUME NEW a, NEW b, NEW c
  PROVE  /\ Tail(<<a>>) = <<>> /\ Tail(<<a, b>>) = <<b>> /\ Tail(<<a, b, c>>) = <<b, c>>
         /\ <<a>> # <<>> /\ <<a, b>> # <<>> /\ <<a, b, c>> # <<>>
OBVIOUS

\* What is left when the innermost span is left.
LEMMA ShortFronts ==
  ASSUME NEW a, NEW b, NEW c
  PROVE  /\ SubSeq(<<a>>, 1, 0) = <<>> /\ SubSeq(<<a, b>>, 1, 1) = <<a>>
         /\ SubSeq(<<a, b, c>>, 1, 2) = <<a, b>>
<1> DEFINE E == {a, b, c}
<1>1. SubSeq(<<a>>, 1, 0) = <<>>
  OBVIOUS
<1>2. SubSeq(<<a, b>>, 1, 1) = <<a>>
  <2>1. /\ <<a, b>> \in Seq(E) /\ Len(<<a, b>>) = 2 /\ <<a, b>>[1] = a /\ <<a, b>>[2] = b
        /\ a \in E /\ b \in E /\ c \in E
    OBVIOUS
  <2> HIDE DEF E
  <2>2. PICK u \in Seq(E) : u = <<a, b>>
    BY <2>1, ZenonT(30)
  <2>3. Len(u) = 2
    BY <2>1, <2>2
  <2>4. SubSeq(u, 1, 1) \in Seq(E)
    BY <2>3
  <2>5. PICK v \in Seq(E) : v = SubSeq(u, 1, 1)
    BY <2>4, ZenonT(30)
  <2>6. Len(v) = 1 /\ v[1] = a
    BY <2>1, <2>2, <2>5
  <2> QED BY <2>2, <2>5, <2>6, One, ZenonT(30)
<1>3. SubSeq(<<a, b, c>>, 1, 2) = <<a, b>>
  <2>1. /\ <<a, b, c>> \in Seq(E) /\ Len(<<a, b, c>>) = 3
        /\ <<a, b, c>>[1] = a /\ <<a, b, c>>[2] = b /\ <<a, b, c>>[3] = c
        /\ a \in E /\ b \in E /\ c \in E
    OBVIOUS
  <2> HIDE DEF E
  <2>2. PICK u \in Seq(E) : u = <<a, b, c>>
    BY <2>1, ZenonT(30)
  <2>3. Len(u) = 3
    BY <2>1, <2>2
  <2>4. SubSeq(u, 1, 2) \in Seq(E)
    BY <2>3
  <2>5. PICK v \in Seq(E) : v = SubSeq(u, 1, 2)
    BY <2>4, Zenon
  <2>6. Len(v) = 2 /\ v[1] = a /\ v[2] = b
    BY <2>1, <2>2, <2>5
  <2> QED BY <2>2, <2>5, <2>6, Pair, ZenonT(30)
<1> QED BY <1>1, <1>2, <1>3

\* A span entered, and calls put together.
LEMMA ShortSums ==
  ASSUME NEW a, NEW b, NEW c
  PROVE  /\ Append(<<>>, a) = <<a>> /\ Append(<<a>>, b) = <<a, b>>
         /\ Append(<<a, b>>, c) = <<a, b, c>>
         /\ <<>> \o <<a>> = <<a>> /\ <<a>> \o <<>> = <<a>> /\ <<a>> \o <<b>> = <<a, b>>
         /\ <<a>> \o <<b, c>> = <<a, b, c>> /\ <<a, b>> \o <<>> = <<a, b>>
         /\ <<a, b>> \o <<c>> = <<a, b, c>>
<1> DEFINE E == {a, b, c}
<1>1. /\ Append(<<>>, a) = <<a>> /\ <<>> \o <<a>> = <<a>> /\ <<a>> \o <<>> = <<a>>
      /\ <<a, b>> \o <<>> = <<a, b>>
  OBVIOUS
<1>2. Append(<<a>>, b) = <<a, b>>
  <2>1. /\ <<a>> \in Seq(E) /\ Len(<<a>>) = 1 /\ <<a>>[1] = a
        /\ a \in E /\ b \in E /\ c \in E
    OBVIOUS
  <2> HIDE DEF E
  <2>2. PICK u \in Seq(E) : u = <<a>>
    BY <2>1, Zenon
  <2>3. Append(u, b) \in Seq(E)
    BY <2>1
  <2>4. PICK v \in Seq(E) : v = Append(u, b)
    BY <2>3, ZenonT(30)
  <2>5. Len(v) = 2 /\ v[1] = a /\ v[2] = b
    BY <2>1, <2>2, <2>4
  <2> QED BY <2>2, <2>4, <2>5, Pair, ZenonT(30)
<1>3. Append(<<a, b>>, c) = <<a, b, c>>
  <2>1. /\ <<a, b>> \in Seq(E) /\ Len(<<a, b>>) = 2 /\ <<a, b>>[1] = a /\ <<a, b>>[2] = b
        /\ a \in E /\ b \in E /\ c \in E
    OBVIOUS
  <2> HIDE DEF E
  <2>2. PICK u \in Seq(E) : u = <<a, b>>
    BY <2>1, Zenon
  <2>3. Append(u, c) \in Seq(E)
    BY <2>1
  <2>4. PICK v \in Seq(E) : v = Append(u, c)
    BY <2>3, Zenon
  <2>5. Len(v) = 3 /\ v[1] = a /\ v[2] = b /\ v[3] = c
    BY <2>1, <2>2, <2>4
  <2> QED BY <2>2, <2>4, <2>5, Triple, ZenonT(30)
<1>4. <<a>> \o <<b>> = <<a, b>>
  <2>1. /\ <<a>> \in Seq(E) /\ Len(<<a>>) = 1 /\ <<a>>[1] = a
        /\ <<b>> \in Seq(E) /\ Len(<<b>>) = 1 /\ <<b>>[1] = b
        /\ a \in E /\ b \in E /\ c \in E
    OBVIOUS
  <2> HIDE DEF E
  <2>2. PICK u \in Seq(E), w \in Seq(E) : u = <<a>> /\ w = <<b>>
    BY <2>1, ZenonT(30)
  <2>3. u \o w \in Seq(E)
    OBVIOUS
  <2>4. PICK v \in Seq(E) : v = u \o w
    BY <2>3, ZenonT(30)
  <2>5. Len(v) = 2 /\ v[1] = a /\ v[2] = b
    BY <2>1, <2>2, <2>4
  <2> QED BY <2>2, <2>4, <2>5, Pair, ZenonT(30)
<1>5. <<a>> \o <<b, c>> = <<a, b, c>>
  <2>1. /\ <<a>> \in Seq(E) /\ Len(<<a>>) = 1 /\ <<a>>[1] = a
        /\ <<b, c>> \in Seq(E) /\ Len(<<b, c>>) = 2 /\ <<b, c>>[1] = b /\ <<b, c>>[2] = c
        /\ a \in E /\ b \in E /\ c \in E
    OBVIOUS
  <2> HIDE DEF E
  <2>2. PICK u \in Seq(E), w \in Seq(E) : u = <<a>> /\ w = <<b, c>>
    BY <2>1, ZenonT(30)
  <2>3. u \o w \in Seq(E)
    OBVIOUS
  <2>4. PICK v \in Seq(E) : v = u \o w
    BY <2>3, Zenon
  <2>5. Len(v) = 3 /\ v[1] = a /\ v[2] = b /\ v[3] = c
    BY <2>1, <2>2, <2>4
  <2> QED BY <2>2, <2>4, <2>5, Triple, ZenonT(30)
<1>6. <<a, b>> \o <<c>> = <<a, b, c>>
  <2>1. /\ <<a, b>> \in Seq(E) /\ Len(<<a, b>>) = 2 /\ <<a, b>>[1] = a /\ <<a, b>>[2] = b
        /\ <<c>> \in Seq(E) /\ Len(<<c>>) = 1 /\ <<c>>[1] = c
        /\ a \in E /\ b \in E /\ c \in E
    OBVIOUS
  <2> HIDE DEF E
  <2>2. PICK u \in Seq(E), w \in Seq(E) : u = <<a, b>> /\ w = <<c>>
    BY <2>1, ZenonT(30)
  <2>3. u \o w \in Seq(E)
    OBVIOUS
  <2>4. PICK v \in Seq(E) : v = u \o w
    BY <2>3, Zenon
  <2>5. Len(v) = 3 /\ v[1] = a /\ v[2] = b /\ v[3] = c
    BY <2>1, <2>2, <2>4
  <2> QED BY <2>2, <2>4, <2>5, Triple, ZenonT(30)
<1> QED BY <1>1, <1>2, <1>3, <1>4, <1>5, <1>6

\* A call of the tracer goes on as the calls planned: exit finds its own span on top,
\* and enter finds the id of its span.
LEMMA LeadsOn ==
  ASSUME NEW n, NEW w, NEW T, NEW known, Leads(n, w, T, known), w # <<>>
  PROVE  /\ w[1][1] \in {"new", "enter", "exit"}
         /\ w[1][2] \in {"sleep", "register_sleep", "draw_clock"}
         /\ w[1][1] = "new" => Leads(n, Tail(w), T, known \cup {w[1][2]})
         /\ w[1][1] = "new" /\ w[1][2] = "draw_clock" => T = <<"draw_clock">>
         /\ w[1][1] = "enter" => /\ w[1][2] \in known
                                 /\ Leads(Append(n, w[1][2]), Tail(w), T, known)
         /\ w[1][1] = "exit" => /\ Len(n) > 0 /\ n[Len(n)] = w[1][2]
                                /\ Leads(SubSeq(n, 1, Len(n) - 1), Tail(w), T, known)
<1>1. ASSUME NEW s \in {"sleep", "register_sleep", "draw_clock"}, w = Open(s)
      PROVE  w[1] = <<"new", s>> /\ Tail(w) = Enter(s)
  BY <1>1, ShortTails DEF Open, Enter
<1>2. ASSUME NEW s \in {"sleep", "register_sleep", "draw_clock"}, w = Enter(s)
      PROVE  w[1] = <<"enter", s>> /\ Tail(w) = <<>>
  BY <1>2, ShortTails DEF Enter
<1>3. ASSUME NEW s \in {"sleep", "register_sleep", "draw_clock"}, w = Exit(s)
      PROVE  w[1] = <<"exit", s>> /\ Tail(w) = <<>>
  BY <1>3, ShortTails DEF Exit
<1>4. ASSUME NEW s \in {"sleep", "register_sleep", "draw_clock"}, T = Append(n, s),
             w = Open(s) => Leads(n, Enter(s), T, known \cup {s}),
             w = Open(s) /\ s = "draw_clock" => T = <<"draw_clock">>, Opening(s, w, known)
      PROVE  /\ w[1][1] \in {"new", "enter"} /\ w[1][2] = s
             /\ w[1][1] = "new" => Leads(n, Tail(w), T, known \cup {s})
             /\ w[1][1] = "new" /\ s = "draw_clock" => T = <<"draw_clock">>
             /\ w[1][1] = "enter" => s \in known /\ Leads(Append(n, s), Tail(w), T, known)
  <2>1. CASE w = Open(s)
    <3>1. w[1][1] = "new" /\ w[1][2] = s /\ Tail(w) = Enter(s)
      BY <1>1, <2>1
    <3> QED BY ONLY <1>4, <2>1, <3>1, ZenonT(30)
  <2>2. CASE w = Enter(s) /\ s \in known
    <3>1. w[1][1] = "enter" /\ w[1][2] = s /\ Tail(w) = <<>>
      BY <1>2, <2>2
    <3>2. Leads(Append(n, s), <<>>, T, known)
      BY <1>4, Zenon DEF Leads
    <3> QED BY ONLY <2>2, <3>1, <3>2, ZenonT(30)
  <2> QED BY ONLY <1>4, <2>1, <2>2, ZenonT(30) DEF Opening
<1>0. ASSUME NEW s \in {"sleep", "register_sleep", "draw_clock"}, NEW m, NEW r,
              w[1] = <<"exit", s>> /\ Tail(w) = r, Leads(m, r, T, known),
              Len(n) > 0 /\ n[Len(n)] = s /\ SubSeq(n, 1, Len(n) - 1) = m
       PROVE  /\ w[1][1] \in {"new", "enter", "exit"}
              /\ w[1][2] \in {"sleep", "register_sleep", "draw_clock"}
              /\ w[1][1] = "new" => Leads(n, Tail(w), T, known \cup {w[1][2]})
              /\ w[1][1] = "new" /\ w[1][2] = "draw_clock" => T = <<"draw_clock">>
              /\ w[1][1] = "enter" => /\ w[1][2] \in known
                                      /\ Leads(Append(n, w[1][2]), Tail(w), T, known)
              /\ w[1][1] = "exit" => /\ Len(n) > 0 /\ n[Len(n)] = w[1][2]
                                     /\ Leads(SubSeq(n, 1, Len(n) - 1), Tail(w), T, known)
  <2>1. w[1][1] = "exit" /\ w[1][2] = s
    BY <1>0
  <2>2. Leads(SubSeq(n, 1, Len(n) - 1), Tail(w), T, known)
    BY ONLY <1>0, ZenonT(30)
  <2>3. /\ w[1][1] \in {"new", "enter", "exit"} /\ w[1][1] # "new" /\ w[1][1] # "enter"
        /\ w[1][2] \in {"sleep", "register_sleep", "draw_clock"}
    BY ONLY <2>1, s \in {"sleep", "register_sleep", "draw_clock"}, SMTT(30)
  <2> QED BY ONLY <1>0, <2>1, <2>2, <2>3, ZenonT(30)
<1>5. CASE T = <<"draw_clock">> /\ n = <<>> /\ Opening("draw_clock", w, known)
  BY <1>4, <1>5, ShortSums, ZenonT(30) DEF Leads, Opening
<1>6. CASE T = <<"sleep">> /\ n = <<>> /\ Opening("sleep", w, known)
  BY <1>4, <1>6, ShortSums, ZenonT(30) DEF Leads, Opening
<1>7. CASE T = <<"draw_clock", "sleep">> /\ n = <<"draw_clock">> /\ Opening("sleep", w, known)
  BY <1>4, <1>7, ShortSums, ZenonT(30) DEF Leads, Opening
<1>8. CASE /\ T = <<"sleep", "register_sleep">> /\ n = <<"sleep">>
           /\ Opening("register_sleep", w, known)
  BY <1>4, <1>8, ShortSums, ZenonT(30) DEF Leads, Opening
<1>9. CASE /\ T = <<"draw_clock", "sleep", "register_sleep">> /\ n = <<"draw_clock", "sleep">>
           /\ Opening("register_sleep", w, known)
  <2>1. T = Append(n, "register_sleep")
    BY <1>9, ShortSums
  <2>2. Leads(n, Enter("register_sleep"), T, known \cup {"register_sleep"})
    BY <1>9, Zenon DEF Leads, Opening
  <2> QED BY <1>4, <1>9, <2>1, <2>2, ZenonT(30)
<1>10. CASE T = <<>> /\ n = <<"sleep">> /\ w = Exit("sleep")
  <2>1. w[1] = <<"exit", "sleep">> /\ Tail(w) = <<>>
    BY <1>3, <1>10
  <2>2. Len(n) = 1 /\ n[1] = "sleep" /\ SubSeq(n, 1, 0) = <<>>
    BY <1>10, ShortFronts
  <2>3. Leads(<<>>, <<>>, T, known)
    BY <1>10 DEF Leads
  <2>4. Len(n) > 0 /\ n[Len(n)] = "sleep" /\ SubSeq(n, 1, Len(n) - 1) = <<>>
    BY <2>2
  <2> QED BY ONLY <1>0, <2>1, <2>3, <2>4, ZenonT(30)
<1>11. CASE T = <<>> /\ n = <<"draw_clock">> /\ w = Exit("draw_clock")
  <2>1. w[1] = <<"exit", "draw_clock">> /\ Tail(w) = <<>>
    BY <1>3, <1>11
  <2>2. Len(n) = 1 /\ n[1] = "draw_clock" /\ SubSeq(n, 1, 0) = <<>>
    BY <1>11, ShortFronts
  <2>3. Leads(<<>>, <<>>, T, known)
    BY <1>11 DEF Leads
  <2>4. Len(n) > 0 /\ n[Len(n)] = "draw_clock" /\ SubSeq(n, 1, Len(n) - 1) = <<>>
    BY <2>2
  <2> QED BY ONLY <1>0, <2>1, <2>3, <2>4, ZenonT(30)
<1>12. CASE T = <<"draw_clock">> /\ n = <<"draw_clock", "sleep">> /\ w = Exit("sleep")
  <2>1. w[1] = <<"exit", "sleep">> /\ Tail(w) = <<>>
    BY <1>3, <1>12, ShortTails DEF Exit
  <2>2. Len(n) = 2 /\ n[2] = "sleep" /\ SubSeq(n, 1, 1) = <<"draw_clock">>
    BY <1>12, ShortFronts, ZenonT(30)
  <2>3. Leads(<<"draw_clock">>, <<>>, T, known)
    BY <1>12 DEF Leads
  <2>4. Len(n) > 0 /\ n[Len(n)] = "sleep" /\ SubSeq(n, 1, Len(n) - 1) = <<"draw_clock">>
    BY <2>2
  <2> QED BY ONLY <1>0, <2>1, <2>3, <2>4, ZenonT(30)
<1>13. CASE /\ T = <<>> /\ n = <<"sleep", "register_sleep">>
            /\ w = <<<<"exit", "register_sleep">>, <<"exit", "sleep">>>>
  <2>1. w[1] = <<"exit", "register_sleep">> /\ Tail(w) = Exit("sleep")
    BY <1>3, <1>13, ShortTails DEF Exit
  <2>2. Len(n) = 2 /\ n[2] = "register_sleep" /\ SubSeq(n, 1, 1) = <<"sleep">>
    BY <1>13, ShortFronts, ZenonT(30)
  <2>3. Leads(<<"sleep">>, Exit("sleep"), T, known)
    BY <1>13 DEF Leads
  <2>4. Len(n) > 0 /\ n[Len(n)] = "register_sleep" /\ SubSeq(n, 1, Len(n) - 1) = <<"sleep">>
    BY <2>2
  <2> QED BY ONLY <1>0, <2>1, <2>3, <2>4, ZenonT(30)
<1>14. CASE /\ T = <<>> /\ n = <<"draw_clock", "sleep">>
            /\ w = <<<<"exit", "sleep">>, <<"exit", "draw_clock">>>>
  <2>1. w[1] = <<"exit", "sleep">> /\ Tail(w) = Exit("draw_clock")
    BY <1>3, <1>14, ShortTails DEF Exit
  <2>2. Len(n) = 2 /\ n[2] = "sleep" /\ SubSeq(n, 1, 1) = <<"draw_clock">>
    BY <1>14, ShortFronts, ZenonT(30)
  <2>3. Leads(<<"draw_clock">>, Exit("draw_clock"), T, known)
    BY <1>14 DEF Leads
  <2>4. Len(n) > 0 /\ n[Len(n)] = "sleep" /\ SubSeq(n, 1, Len(n) - 1) = <<"draw_clock">>
    BY <2>2
  <2> QED BY ONLY <1>0, <2>1, <2>3, <2>4, ZenonT(30)
<1>15. CASE /\ T = <<>> /\ n = <<"draw_clock", "sleep", "register_sleep">>
            /\ w = <<<<"exit", "register_sleep">>, <<"exit", "sleep">>, <<"exit", "draw_clock">>>>
  <2>1. w[1] = <<"exit", "register_sleep">> /\ Tail(w) = <<<<"exit", "sleep">>, <<"exit", "draw_clock">>>>
    BY <1>3, <1>15, ShortTails DEF Exit
  <2>2. Len(n) = 3 /\ n[3] = "register_sleep" /\ SubSeq(n, 1, 2) = <<"draw_clock", "sleep">>
    BY <1>15, ShortFronts, ZenonT(30)
  <2>3. Leads(<<"draw_clock", "sleep">>, <<<<"exit", "sleep">>, <<"exit", "draw_clock">>>>, T, known)
    BY <1>15 DEF Leads
  <2>4. Len(n) > 0 /\ n[Len(n)] = "register_sleep" /\ SubSeq(n, 1, Len(n) - 1) = <<"draw_clock", "sleep">>
    BY <2>2
  <2> QED BY ONLY <1>0, <2>1, <2>3, <2>4, ZenonT(30)
<1>16. CASE /\ T = <<"draw_clock">> /\ n = <<"sleep">>
            /\ w = <<<<"exit", "sleep">>, <<"new", "draw_clock">>, <<"enter", "draw_clock">>>>
  <2>1. w[1] = <<"exit", "sleep">> /\ Tail(w) = Open("draw_clock")
    BY <1>16, ShortTails DEF Open
  <2>2. Len(n) = 1 /\ n[1] = "sleep" /\ SubSeq(n, 1, 0) = <<>>
    BY <1>16, ShortFronts
  <2>3. Leads(<<>>, Open("draw_clock"), T, known)
    BY <1>16, ZenonT(30) DEF Leads, Opening
  <2>4. Len(n) > 0 /\ n[Len(n)] = "sleep" /\ SubSeq(n, 1, Len(n) - 1) = <<>>
    BY <2>2
  <2> QED BY ONLY <1>0, <2>1, <2>3, <2>4, ZenonT(30)
<1>17. CASE /\ T = <<"draw_clock", "sleep">> /\ n = <<>>
            /\ "draw_clock" \in known /\ "sleep" \in known
            /\ w = <<<<"enter", "draw_clock">>, <<"enter", "sleep">>>>
  <2>1. w[1] = <<"enter", "draw_clock">> /\ Tail(w) = Enter("sleep")
    BY <1>17, ShortTails DEF Enter
  <2>2. Append(n, "draw_clock") = <<"draw_clock">>
    BY <1>17, ShortSums
  <2>3. Leads(<<"draw_clock">>, Enter("sleep"), T, known)
    BY <1>17, ZenonT(30) DEF Leads, Opening
  <2> QED BY <1>17, <2>1, <2>2, <2>3
<1> QED
  BY <1>5, <1>6, <1>7, <1>8, <1>9, <1>10, <1>11, <1>12, <1>13, <1>14, <1>15, <1>16, <1>17, ZenonT(30)
     DEF Leads

\* p is q with e behind it.
Longer(p, q, e) ==
  /\ Len(q) \in Nat /\ Len(p) = Len(q) + 1 /\ DOMAIN p = 1 .. Len(q) + 1
  /\ p[Len(q) + 1] = e /\ \A i \in 1 .. Len(q) : p[i] = q[i]
  /\ p = [i \in 1 .. Len(q) + 1 |-> IF i <= Len(q) THEN q[i] ELSE e]

\* p is q without its last element.
Shorter(p, q) ==
  /\ Len(q) \in Nat /\ Len(p) = Len(q) - 1 /\ DOMAIN p = 1 .. Len(q) - 1
  /\ \A i \in 1 .. Len(q) - 1 : p[i] = q[i]
  /\ p = [i \in 1 .. Len(q) - 1 |-> q[i]]

\* What Append makes of a sequence, ...
LEMMA Appended ==
  ASSUME NEW E, NEW q \in Seq(E), NEW e \in E, NEW p, p = Append(q, e)
  PROVE  p \in Seq(E) /\ Longer(p, q, e)
<1>1. Len(q) \in Nat /\ p \in Seq(E)
  OBVIOUS
<1>2. Len(p) = Len(q) + 1
  OBVIOUS
<1>3. p[Len(q) + 1] = e
  OBVIOUS
<1>4. \A i \in 1 .. Len(q) : p[i] = q[i]
  OBVIOUS
<1>5. p = [i \in 1 .. Len(q) + 1 |-> p[i]] /\ DOMAIN p = 1 .. Len(q) + 1
  BY ONLY <1>1, <1>2, SMTT(30)
<1>6. \A i \in 1 .. Len(q) + 1 : p[i] = IF i <= Len(q) THEN q[i] ELSE e
  BY ONLY <1>1, <1>3, <1>4, SMTT(30)
<1> QED BY <1>1, <1>2, <1>3, <1>4, <1>5, <1>6 DEF Longer

\* ... and SubSeq without its last element.
LEMMA Shortened ==
  ASSUME NEW E, NEW q \in Seq(E), Len(q) > 0, NEW p, p = SubSeq(q, 1, Len(q) - 1)
  PROVE  p \in Seq(E) /\ Shorter(p, q)
<1>1. Len(q) \in Nat
  OBVIOUS
<1>2. PICK m \in Nat : m = Len(q) - 1
  BY <1>1
<1>3. p = SubSeq(q, 1, m) /\ m <= Len(q)
  BY <1>1, <1>2
<1>4. p \in Seq(E)
  BY <1>3
<1>5. Len(p) = m
  BY <1>3
<1>6. \A i \in 1 .. m : p[i] = q[i]
  BY <1>3
<1>7. p = [i \in 1 .. m |-> p[i]] /\ DOMAIN p = 1 .. m
  BY ONLY <1>4, <1>5, SMTT(30)
<1> QED BY <1>1, <1>2, <1>4, <1>5, <1>6, <1>7 DEF Shorter

SpanNames == {"sleep", "register_sleep", "draw_clock", "wake_sleep"}
SpanIds == /\ spans \in Seq(SpanNames) /\ stack \in Seq(Nat)
           /\ \A i \in DOMAIN stack : stack[i] \in DOMAIN spans

\* new_span gives a span an id, and every other span keeps its own.
LEMMA NewSpanKeeps ==
  ASSUME NEW known \in Seq(SpanNames), NEW s \in SpanNames, NEW k, k = NewSpan(known, s)
  PROVE  /\ k \in Seq(SpanNames) /\ Range(k) = Range(known) \cup {s}
         /\ \A i \in DOMAIN known : i \in DOMAIN k /\ k[i] = known[i]
<1>1. CASE s \in Range(known)
  BY <1>1 DEF NewSpan
<1>2. CASE s \notin Range(known)
  <2>1. k = Append(known, s)
    BY <1>2 DEF NewSpan
  <2>2. k \in Seq(SpanNames) /\ Longer(k, known, s)
    BY <2>1, Appended, ZenonT(30)
  <2>3. DOMAIN known = 1 .. Len(known)
    OBVIOUS
  <2>4. PICK m \in Nat : m = Len(known) /\ m + 1 \in Nat
    BY <2>2 DEF Longer
  <2>5. /\ DOMAIN k = 1 .. m + 1 /\ DOMAIN known = 1 .. m /\ k[m + 1] = s
        /\ \A i \in 1 .. m : k[i] = known[i]
    BY <2>2, <2>3, <2>4 DEF Longer
  <2>6. DOMAIN k = DOMAIN known \cup {m + 1}
    BY ONLY <2>4, <2>5, SMTT(30)
  <2>7. Range(k) = Range(known) \cup {s}
    BY ONLY <2>5, <2>6, SMTT(30) DEF Range
  <2> QED BY <2>2, <2>5, <2>6, <2>7
<1> QED BY <1>1, <1>2

\* The spans entered keep their names when an id is given away.
LEMMA NamesKept ==
  ASSUME SpanIds, stack' = stack, NEW s \in SpanNames, spans' = NewSpan(spans, s)
  PROVE  SpanIds' /\ Names' = Names /\ Range(spans') = Range(spans) \cup {s}
<1>1. /\ spans' \in Seq(SpanNames) /\ Range(spans') = Range(spans) \cup {s}
      /\ \A i \in DOMAIN spans : i \in DOMAIN spans' /\ spans'[i] = spans[i]
  BY NewSpanKeeps DEF SpanIds
<1>2. \A i \in 1 .. Len(stack) : stack[i] \in DOMAIN spans
  BY ONLY SpanIds, SMTT(30) DEF SpanIds
<1> QED BY <1>1, <1>2, ZenonT(30) DEF SpanIds, Names

\* enter puts the span on top.
LEMMA NamesEnter ==
  ASSUME SpanIds, NEW s \in Range(spans), stack' = Append(stack, IdOf(s)), spans' = spans
  PROVE  SpanIds' /\ Names' = Append(Names, s)
<1>1. IdOf(s) \in DOMAIN spans /\ spans[IdOf(s)] = s
  BY DEF IdOf, Range
<1>2. PICK k \in DOMAIN spans : k = IdOf(s)
  BY <1>1
<1>3. k \in Nat /\ s \in SpanNames /\ \A i \in 1 .. Len(stack) : stack[i] \in DOMAIN spans
  BY <1>1, <1>2 DEF SpanIds
<1>4. /\ stack' \in Seq(Nat) /\ Len(stack') = Len(stack) + 1 /\ Len(stack) \in Nat
      /\ stack'[Len(stack) + 1] = k /\ \A i \in 1 .. Len(stack) : stack'[i] = stack[i]
  <2>1. stack' \in Seq(Nat) /\ Longer(stack', stack, k)
    BY <1>2, <1>3, Appended, ZenonT(30) DEF SpanIds
  <2> QED BY <2>1 DEF Longer
<1>5. SpanIds'
  <2>1. ASSUME NEW i \in DOMAIN stack' PROVE stack'[i] \in DOMAIN spans
    <3>1. i \in 1 .. Len(stack) \/ i = Len(stack) + 1
      BY <1>4
    <3> QED BY <1>3, <1>4, <3>1
  <2> QED BY <1>4, <2>1 DEF SpanIds
<1>6. Names \in Seq(SpanNames) /\ Len(Names) = Len(stack)
  BY <1>3 DEF Names, SpanIds
<1>7. /\ Append(Names, s) = [i \in 1 .. Len(stack) + 1 |->
                               IF i <= Len(stack) THEN Names[i] ELSE s]
  <2>1. PICK n \in Seq(SpanNames) : n = Names
    BY <1>6
  <2>2. Longer(Append(n, s), n, s)
    BY <1>3, Appended, ZenonT(30)
  <2> QED BY <1>6, <2>1, <2>2 DEF Longer
<1>8. Names' = [i \in 1 .. Len(stack) + 1 |-> IF i <= Len(stack) THEN Names[i] ELSE s]
  BY <1>1, <1>2, <1>4 DEF Names
<1> QED BY <1>5, <1>7, <1>8

\* The topmost span is the innermost.
LEMMA TopOfStack ==
  ASSUME SpanIds
  PROVE  /\ Len(Names) > 0 => stack # <<>> /\ spans[stack[Len(stack)]] = Names[Len(Names)]
         /\ Names = <<>> => stack = <<>>
<1>1. Len(stack) \in Nat /\ Len(Names) = Len(stack)
  BY DEF SpanIds, Names
<1>2. Len(stack) > 0 => stack # <<>> /\ Names[Len(stack)] = spans[stack[Len(stack)]]
  BY <1>1 DEF SpanIds, Names
<1>3. Len(stack) = 0 => stack = <<>>
  BY DEF SpanIds
<1>4. Names = <<>> => Len(Names) = 0
  OBVIOUS
<1> QED BY <1>1, <1>2, <1>3, <1>4

\* exit takes the topmost span away.
LEMMA NamesExit ==
  ASSUME SpanIds, Len(Names) > 0, stack' = Popped, spans' = spans
  PROVE  SpanIds' /\ Names' = SubSeq(Names, 1, Len(Names) - 1)
<1>1. /\ \A i \in 1 .. Len(stack) : stack[i] \in DOMAIN spans /\ spans[stack[i]] \in SpanNames
      /\ Len(stack) \in Nat
  BY DEF SpanIds
<1>2. Names \in Seq(SpanNames) /\ Len(Names) = Len(stack)
  BY <1>1 DEF Names
<1>3. stack' = SubSeq(stack, 1, Len(stack) - 1) /\ Len(stack) > 0
  BY <1>1, <1>2 DEF Popped, SpanIds
<1>4. /\ stack' \in Seq(Nat) /\ Len(stack') = Len(stack) - 1
      /\ \A i \in 1 .. Len(stack) - 1 : stack'[i] = stack[i]
  <2>1. stack' \in Seq(Nat) /\ Shorter(stack', stack)
    BY <1>3, Shortened, ZenonT(30) DEF SpanIds
  <2> QED BY <2>1 DEF Shorter
<1>5. SpanIds'
  <2>1. DOMAIN stack' = 1 .. Len(stack) - 1
    BY <1>4
  <2>2. \A i \in 1 .. Len(stack) - 1 : stack'[i] \in DOMAIN spans
    BY ONLY <1>1, <1>4, SMTT(30)
  <2> QED BY <1>4, <2>1, <2>2 DEF SpanIds
<1>6. SubSeq(Names, 1, Len(Names) - 1) = [i \in 1 .. Len(stack) - 1 |-> Names[i]]
  <2>1. PICK n \in Seq(SpanNames) : n = Names
    BY <1>2
  <2>2. Shorter(SubSeq(n, 1, Len(n) - 1), n)
    BY <1>2, <1>3, <2>1, Shortened, ZenonT(30)
  <2> QED BY <1>2, <2>1, <2>2 DEF Shorter
<1>7. Names' = [i \in 1 .. Len(stack) - 1 |-> Names[i]]
  BY <1>1, <1>4 DEF Names
<1> QED BY <1>5, <1>6, <1>7

\* The spans the running code is in once the calls it still has to make are made: the
\* clock task in draw_clock, a task being polled in sleep and perhaps in register_sleep,
\* inside draw_clock if it has got that far.
InSpans(T) ==
  /\ cpu \in Drawing => T = <<"draw_clock">>
  /\ cpu \notin Drawing /\ running = {} => T = <<>>
  /\ \A t \in Tasks :
       /\ pc[t] = "poll" =>
            T = IF InDrawClock(t) THEN <<"draw_clock", "sleep">> ELSE <<"sleep">>
       /\ pc[t] \in {"register", "locked"} =>
            T = IF InDrawClock(t) THEN <<"draw_clock", "sleep", "register_sleep">>
                ELSE <<"sleep", "register_sleep">>

Lives == cpu \notin Panicking \cup Dead

TraceInv ==
  /\ SpanIds
  /\ \E T : Leads(Names, todo, T, Range(spans)) /\ (Lives => InSpans(T))

\* One task is polled at a time, where the executor is; in the kernel it is the clock
\* task. A task that waits has been in span sleep, and draw_clock has an id only once
\* the clock task is past its first sleep.
PollInv ==
  /\ running = {} \/ \E t \in Tasks : running = {t} /\ pc[t] \in {"poll", "register", "locked"}
  /\ running # {} => cpu = "free" \/ ~Lives
  /\ setting = "kernel" => \A t \in Tasks : t # Clock => pc[t] = "idle"
  /\ (\E t \in Tasks : pc[t] = "pending") => "sleep" \in Range(spans)
  /\ setting = "kernel" /\ "draw_clock" \in Range(spans) =>
       pc[Clock] # "idle" \/ cpu \in Drawing \/ ~Lives

SpanInv == TraceInv /\ PollInv

\* The places of the clock task, of panics and of the end.
LEMMA MorePlaces ==
  /\ Drawing = {"clock_size", "clock_sized", "clock_lock", "clock_clear", "clock_hands",
                "clock_frame", "clock_unlock", "clock_sleep"}
  /\ Panicking \cup Dead =
       {"panic", "panic_lock", "panic_clear", "panic_text", "exited", "overflow"}
BY DEF Drawing, Panicking, Dead

\* Where no call is left the spans are the ones the code is in.
LEMMA LeadsEnd ==
  ASSUME NEW n, NEW T, NEW known
  PROVE  Leads(n, <<>>, T, known) <=> n = T
<1>1. ASSUME NEW s PROVE Open(s) # <<>> /\ Enter(s) # <<>> /\ Exit(s) # <<>>
  BY ShortTails DEF Open, Enter, Exit
<1> QED BY <1>1, ShortTails DEF Leads, Opening

\* Every span entered has an id.
LEMMA NamesKnown ==
  ASSUME SpanIds
  PROVE  /\ Names = <<"draw_clock">> => "draw_clock" \in Range(spans)
         /\ Names \in {<<"sleep">>, <<"sleep", "register_sleep">>} => "sleep" \in Range(spans)
         /\ Names \in {<<"draw_clock", "sleep">>, <<"draw_clock", "sleep", "register_sleep">>} =>
              "draw_clock" \in Range(spans) /\ "sleep" \in Range(spans)
<1>1. \A i \in DOMAIN Names : Names[i] \in Range(spans)
  BY DEF SpanIds, Names, Range
<1>2. ASSUME NEW a, Names = <<a>> PROVE a \in Range(spans)
  <2>1. 1 \in DOMAIN <<a>> /\ <<a>>[1] = a
    OBVIOUS
  <2> QED BY <1>1, <1>2, <2>1
<1>3. ASSUME NEW a, NEW b, Names = <<a, b>> PROVE a \in Range(spans) /\ b \in Range(spans)
  <2>1. 1 \in DOMAIN <<a, b>> /\ 2 \in DOMAIN <<a, b>> /\ <<a, b>>[1] = a /\ <<a, b>>[2] = b
    OBVIOUS
  <2> QED BY <1>1, <1>3, <2>1
<1>4. ASSUME NEW a, NEW b, NEW c, Names = <<a, b, c>>
      PROVE  a \in Range(spans) /\ b \in Range(spans)
  <2>1. /\ 1 \in DOMAIN <<a, b, c>> /\ 2 \in DOMAIN <<a, b, c>>
        /\ <<a, b, c>>[1] = a /\ <<a, b, c>>[2] = b
    OBVIOUS
  <2> QED BY <1>1, <1>4, <2>1
<1> QED BY <1>2, <1>3, <1>4

\* Spans around one place are not those around another.
LEMMA SpansDiffer ==
  /\ <<"draw_clock">> # <<>> /\ <<"draw_clock">> # <<"sleep">>
  /\ <<"draw_clock">> # <<"draw_clock", "sleep">>
  /\ <<"draw_clock">> # <<"sleep", "register_sleep">>
  /\ <<"draw_clock">> # <<"draw_clock", "sleep", "register_sleep">>
OBVIOUS

\* Code in span draw_clock alone is the clock task's, awake.
LEMMA OnlyDrawing ==
  ASSUME PollInv, Lives, InSpans(<<"draw_clock">>)
  PROVE  /\ cpu \in Drawing
         /\ \A t \in Tasks : pc[t] \notin {"poll", "register", "locked"}
<1>1. \A t \in Tasks : pc[t] \notin {"poll", "register", "locked"}
  BY SpansDiffer DEF InSpans
<1>2. running = {}
  BY <1>1 DEF PollInv
<1> QED BY <1>1, <1>2, SpansDiffer DEF InSpans

\* A call of the tracer.
LEMMA TracesSpans ==
  ASSUME SpanInv, Traces
  PROVE  SpanInv'
<1>1. /\ Lives /\ todo # <<>> /\ todo' = Tail(todo)
      /\ UNCHANGED <<cpu, setting, pc, running>> /\ SpanIds /\ PollInv
  BY ZenonT(30) DEF Traces, TraceStep, SpanInv, TraceInv, Lives, vars, consoleVars
<1>2. PICK T : Leads(Names, todo, T, Range(spans)) /\ InSpans(T)
  BY <1>1 DEF SpanInv, TraceInv
<1>3. Lives'
  BY <1>1 DEF Lives
<1> DEFINE o == todo[1][1]
           s == todo[1][2]
<1>4. /\ o \in {"new", "enter", "exit"} /\ s \in {"sleep", "register_sleep", "draw_clock"}
      /\ o = "new" => Leads(Names, todo', T, Range(spans) \cup {s})
      /\ o = "new" /\ s = "draw_clock" => T = <<"draw_clock">>
      /\ o = "enter" => s \in Range(spans) /\ Leads(Append(Names, s), todo', T, Range(spans))
      /\ o = "exit" => /\ Len(Names) > 0
                       /\ Leads(SubSeq(Names, 1, Len(Names) - 1), todo', T, Range(spans))
  BY <1>1, <1>2, LeadsOn, ZenonT(30)
<1>5. \/ o = "new" /\ spans' = NewSpan(spans, s) /\ stack' = stack
      \/ o = "enter" /\ stack' = Append(stack, IdOf(s)) /\ spans' = spans
      \/ o = "exit" /\ stack' = Popped /\ spans' = spans
  BY Zenon DEF Traces, TraceStep
<1> HIDE DEF o, s
<1>6. CASE o = "new"
  <2>1. SpanIds' /\ Names' = Names /\ Range(spans') = Range(spans) \cup {s}
    <3>1. spans' = NewSpan(spans, s) /\ stack' = stack
      BY ONLY <1>5, <1>6, SMTT(30)
    <3>2. s \in SpanNames
      BY <1>4 DEF SpanNames
    <3> QED BY <1>1, <3>1, <3>2, NamesKept
  <2>2. Leads(Names', todo', T, Range(spans'))
    BY ONLY <1>4, <1>6, <2>1, SMTT(30)
  <2>3. CASE s # "draw_clock"
    <3>1. "draw_clock" \in Range(spans') <=> "draw_clock" \in Range(spans)
      BY <2>1, <2>3
    <3>2. \A t \in Tasks : InDrawClock(t)' <=> InDrawClock(t)
      BY <1>1, <3>1 DEF InDrawClock, DrawsClock
    <3>3. InSpans(T)'
      BY <1>1, <1>2, <3>2 DEF InSpans
    <3>4. PollInv'
      BY <1>1, <1>3, <2>1, <3>1 DEF PollInv
    <3> QED BY <2>1, <2>2, <3>3, <3>4 DEF SpanInv, TraceInv
  <2>4. CASE s = "draw_clock"
    <3>1. T = <<"draw_clock">> /\ cpu \in Drawing
          /\ \A t \in Tasks : pc[t] \notin {"poll", "register", "locked"}
      BY <1>1, <1>2, <1>4, <1>6, <2>4, OnlyDrawing
    <3>2. InSpans(T)'
      BY <1>1, <3>1 DEF InSpans
    <3>3. PollInv'
      BY <1>1, <1>3, <2>1, <3>1 DEF PollInv
    <3> QED BY <2>1, <2>2, <3>2, <3>3 DEF SpanInv, TraceInv
  <2> QED BY <2>3, <2>4
<1>7. CASE o # "new"
  <2>1. SpanIds' /\ Leads(Names', todo', T, Range(spans')) /\ spans' = spans
    <3>1. CASE o = "enter"
      <4>1. s \in Range(spans) /\ stack' = Append(stack, IdOf(s)) /\ spans' = spans
        BY <1>4, <1>5, <3>1
      <4>2. SpanIds' /\ Names' = Append(Names, s)
        BY <1>1, <4>1, NamesEnter
      <4> QED BY ONLY <1>4, <3>1, <4>1, <4>2, SMTT(30)
    <3>2. CASE o = "exit"
      <4>1. Len(Names) > 0 /\ stack' = Popped /\ spans' = spans
        BY <1>4, <1>5, <3>2
      <4>2. SpanIds' /\ Names' = SubSeq(Names, 1, Len(Names) - 1)
        BY <1>1, <4>1, NamesExit
      <4> QED BY ONLY <1>4, <3>2, <4>1, <4>2, SMTT(30)
    <3> QED BY <1>4, <1>7, <3>1, <3>2
  <2>2. \A t \in Tasks : InDrawClock(t)' <=> InDrawClock(t)
    BY <1>1, <2>1 DEF InDrawClock, DrawsClock
  <2>3. InSpans(T)'
    BY <1>1, <1>2, <2>2 DEF InSpans
  <2>4. PollInv'
    BY <1>1, <1>3, <2>1 DEF PollInv
  <2> QED BY <2>1, <2>3, <2>4 DEF SpanInv, TraceInv
<1> QED BY <1>6, <1>7

\* A new place in the code, with the calls that lead to the spans around it.
LEMMA SpansPlanned ==
  ASSUME SpanInv, UNCHANGED <<spans, stack>>, NEW T,
         Leads(Names, todo', T, Range(spans)), InSpans(T)'
  PROVE  TraceInv'
<1>1. SpanIds' /\ Names' = Names /\ Range(spans') = Range(spans)
  BY ZenonT(30) DEF SpanInv, TraceInv, SpanIds, Names
<1> QED BY <1>1 DEF TraceInv

\* In a poll one task goes to a new place, with its spans, ...
LEMMA PollPlanned ==
  ASSUME SleepInv, UNCHANGED <<spans, setting>>, NEW t \in Tasks, NEW l,
         pc' = [pc EXCEPT ![t] = l],
         \A u \in Tasks : u # t => pc[u] \notin {"poll", "register", "locked"},
         l \in {"poll", "register", "locked"} => running' # {} /\ cpu' = "free",
         l \notin {"poll", "register", "locked"} => running' = {}, NEW T,
         cpu' \in Drawing => T = <<"draw_clock">>,
         cpu' \notin Drawing /\ l \notin {"poll", "register", "locked"} => T = <<>>,
         l = "poll" => T = IF InDrawClock(t) THEN <<"draw_clock", "sleep">> ELSE <<"sleep">>,
         l \in {"register", "locked"} =>
           T = IF InDrawClock(t) THEN <<"draw_clock", "sleep", "register_sleep">>
               ELSE <<"sleep", "register_sleep">>
  PROVE  InSpans(T)'
<1>1. \A u \in Tasks : InDrawClock(u)' <=> InDrawClock(u)
  BY DEF InDrawClock, DrawsClock
<1>2. pc \in [Tasks -> {"idle", "poll", "register", "locked", "pending"}]
  BY DEF SleepInv
<1>3. \A u \in Tasks : pc'[u] = IF u = t THEN l ELSE pc[u]
  BY <1>2
<1>4. "free" \notin Drawing
  BY MorePlaces
<1>5. cpu' \notin Drawing /\ running' = {} => T = <<>>
  OBVIOUS
<1>6. ASSUME NEW u \in Tasks
      PROVE  /\ pc'[u] = "poll" =>
                  T = IF InDrawClock(u)' THEN <<"draw_clock", "sleep">> ELSE <<"sleep">>
             /\ pc'[u] \in {"register", "locked"} =>
                  T = IF InDrawClock(u)' THEN <<"draw_clock", "sleep", "register_sleep">>
                      ELSE <<"sleep", "register_sleep">>
  BY <1>1, <1>3
<1> QED BY <1>5, <1>6 DEF InSpans

\* ... to one that PollInv allows.
LEMMA PollGoes ==
  ASSUME SleepInv, PollInv, UNCHANGED <<spans, setting>>, NEW t \in Tasks, NEW l,
         pc' = [pc EXCEPT ![t] = l],
         l \in {"poll", "register", "locked"} => running' = {t} /\ cpu' = "free",
         l \notin {"poll", "register", "locked"} => running' = {},
         setting = "kernel" => t = Clock,
         l = "pending" => "sleep" \in Range(spans),
         setting = "kernel" /\ "draw_clock" \in Range(spans) => l # "idle" \/ cpu' \in Drawing
  PROVE  PollInv'
<1>1. pc \in [Tasks -> {"idle", "poll", "register", "locked", "pending"}]
  BY DEF SleepInv
<1>2. \A u \in Tasks : pc'[u] = IF u = t THEN l ELSE pc[u]
  BY <1>1
<1>3. running' = {} \/ \E u \in Tasks : running' = {u} /\ pc'[u] \in {"poll", "register", "locked"}
  BY <1>2
<1>4. running' # {} => cpu' = "free"
  OBVIOUS
<1>5. setting' = "kernel" => \A u \in Tasks : u # Clock => pc'[u] = "idle"
  BY <1>2 DEF PollInv
<1>6. (\E u \in Tasks : pc'[u] = "pending") => "sleep" \in Range(spans')
  BY <1>2 DEF PollInv
<1>7. setting' = "kernel" /\ "draw_clock" \in Range(spans') => pc'[Clock] # "idle" \/ cpu' \in Drawing
  BY <1>2
<1> QED BY <1>3, <1>4, <1>5, <1>6, <1>7 DEF PollInv

\* Between polls no span is entered, ...
LEMMA BetweenPolls ==
  ASSUME SleepInv, SpanInv, cpu = "free", running = {}, todo = <<>>
  PROVE  /\ Names = <<>>
         /\ \A t \in Tasks : pc[t] \notin {"poll", "register", "locked"}
<1>1. Lives /\ cpu \notin Drawing
  BY MorePlaces DEF Lives
<1>2. PICK T : Leads(Names, todo, T, Range(spans)) /\ InSpans(T)
  BY <1>1 DEF SpanInv, TraceInv
<1>3. T = <<>>
  BY <1>1, <1>2 DEF InSpans
<1>4. Names = <<>>
  BY <1>2, <1>3, LeadsEnd
<1> QED BY <1>4 DEF SleepInv

\* ... and in a poll those of its task are.
LEMMA InPoll ==
  ASSUME SleepInv, SpanInv, cpu = "free", todo = <<>>, NEW t \in Tasks,
         pc[t] \in {"poll", "register", "locked"}
  PROVE  /\ pc[t] = "poll" =>
              Names = IF InDrawClock(t) THEN <<"draw_clock", "sleep">> ELSE <<"sleep">>
         /\ pc[t] # "poll" =>
              Names = IF InDrawClock(t) THEN <<"draw_clock", "sleep", "register_sleep">>
                      ELSE <<"sleep", "register_sleep">>
         /\ running = {t} /\ "sleep" \in Range(spans)
         /\ \A u \in Tasks : u # t => pc[u] \notin {"poll", "register", "locked"}
         /\ setting = "kernel" => t = Clock
<1>1. Lives
  BY MorePlaces DEF Lives
<1>2. PICK T : Leads(Names, todo, T, Range(spans)) /\ InSpans(T)
  BY <1>1 DEF SpanInv, TraceInv
<1>3. Names = T
  BY <1>2, LeadsEnd
<1>4. /\ pc[t] = "poll" =>
           Names = IF InDrawClock(t) THEN <<"draw_clock", "sleep">> ELSE <<"sleep">>
      /\ pc[t] # "poll" =>
           Names = IF InDrawClock(t) THEN <<"draw_clock", "sleep", "register_sleep">>
                   ELSE <<"sleep", "register_sleep">>
  BY <1>2, <1>3 DEF InSpans
<1>5. "sleep" \in Range(spans)
  BY <1>4, NamesKnown DEF SpanInv, TraceInv
<1>6. running = {t} /\ \A u \in Tasks : u # t => pc[u] \notin {"poll", "register", "locked"}
  BY ZenonT(30) DEF SleepInv
<1>7. setting = "kernel" => t = Clock
  BY DEF SpanInv, PollInv
<1> QED BY <1>4, <1>5, <1>6, <1>7

\* A sleep begins.
LEMMA BeginSleepSpans ==
  ASSUME ConsoleInv, SpanInv, NEW t \in Tasks, NEW d \in Durations, BeginSleep(t, d)
  PROVE  SpanInv'
<1>1. /\ SleepInv /\ ControlInv /\ PollInv /\ SpanIds /\ UNCHANGED <<spans, stack, setting>>
      /\ pc[t] = "idle" /\ running = {} /\ running' = {t} /\ pc' = [pc EXCEPT ![t] = "poll"]
      /\ cpu' = "free" /\ todo = <<>> /\ todo' = Open("sleep")
      /\ cpu \in {"free", "clock_sleep"} /\ (setting = "sleepers" \/ DrawsClock(t))
  BY ZenonT(30) DEF BeginSleep, Goes, New, Goto, ConsoleInv, SpanInv, TraceInv
<1>2. "free" \notin Drawing /\ "clock_sleep" \in Drawing /\ Lives
  BY <1>1, MorePlaces DEF Lives
<1>3. \A u \in Tasks : pc[u] \notin {"poll", "register", "locked"}
  BY <1>1 DEF SleepInv
<1>4. setting = "kernel" => t = Clock
  BY <1>1 DEF DrawsClock
<1>5. PollInv'
  BY <1>1, <1>4, PollGoes, ZenonT(30)
<1>6. CASE cpu = "free"
  <2>1. ~InDrawClock(t)
    BY <1>1, <1>2, <1>6 DEF InDrawClock, DrawsClock, PollInv
  <2>2. InSpans(<<"sleep">>)'
    BY <1>1, <1>2, <1>3, <2>1, PollPlanned, ZenonT(30)
  <2>3. Leads(Names, todo', <<"sleep">>, Range(spans))
    BY <1>1, <1>6, BetweenPolls, ZenonT(30) DEF Leads, Opening
  <2> QED BY <1>1, <1>5, <2>2, <2>3, SpansPlanned DEF SpanInv
<1>7. CASE cpu = "clock_sleep"
  <2>1. PICK T : Leads(Names, todo, T, Range(spans)) /\ InSpans(T)
    BY <1>2 DEF SpanInv, TraceInv
  <2>2. Names = <<"draw_clock">>
    BY <1>1, <1>2, <1>7, <2>1, LeadsEnd DEF InSpans
  <2>3. DrawsClock(t)
    BY <1>1, <1>7 DEF ControlInv
  <2>4. InDrawClock(t)
    BY <1>1, <2>2, <2>3, NamesKnown DEF InDrawClock
  <2>5. InSpans(<<"draw_clock", "sleep">>)'
    BY <1>1, <1>2, <1>3, <2>4, PollPlanned, ZenonT(30)
  <2>6. Leads(Names, todo', <<"draw_clock", "sleep">>, Range(spans))
    BY <1>1, <2>2, ZenonT(30) DEF Leads, Opening
  <2> QED BY <1>1, <1>5, <2>5, <2>6, SpansPlanned DEF SpanInv
<1> QED BY <1>1, <1>6, <1>7

\* A sleeping task is polled again.
LEMMA PollAgainSpans ==
  ASSUME ConsoleInv, SpanInv, NEW t \in Tasks, Woken(t) \/ Spurious(t)
  PROVE  SpanInv'
<1>1. /\ SleepInv /\ PollInv /\ UNCHANGED <<spans, stack, setting, cpu>>
      /\ pc[t] = "pending" /\ running = {} /\ running' = {t} /\ pc' = [pc EXCEPT ![t] = "poll"]
      /\ cpu = "free" /\ todo = <<>>
      /\ todo' = Around(t, Enter("draw_clock")) \o Enter("sleep")
  BY DEF Woken, Spurious, PollWoken, PollSpurious, PollAgain, Goto, ConsoleInv, SpanInv, consoleVars
<1>2. "free" \notin Drawing
  BY MorePlaces
<1>3. Names = <<>> /\ \A u \in Tasks : pc[u] \notin {"poll", "register", "locked"}
  BY <1>1, BetweenPolls
<1>4. "sleep" \in Range(spans) /\ (setting = "kernel" => t = Clock)
  BY <1>1 DEF PollInv
<1>5. PollInv'
  BY <1>1, <1>4, PollGoes, ZenonT(30)
<1>6. CASE InDrawClock(t)
  <2>1. InSpans(<<"draw_clock", "sleep">>)'
    BY <1>1, <1>2, <1>3, <1>6, PollPlanned, ZenonT(30)
  <2>2. todo' = <<<<"enter", "draw_clock">>, <<"enter", "sleep">>>>
    BY <1>1, <1>6, ShortSums, ZenonT(30) DEF Around, Enter
  <2>3. Leads(Names, todo', <<"draw_clock", "sleep">>, Range(spans))
    BY <1>3, <1>4, <1>6, <2>2, ZenonT(30) DEF Leads, InDrawClock
  <2> QED BY <1>1, <1>5, <2>1, <2>3, SpansPlanned DEF SpanInv
<1>7. CASE ~InDrawClock(t)
  <2>1. InSpans(<<"sleep">>)'
    BY <1>1, <1>2, <1>3, <1>7, PollPlanned, ZenonT(30)
  <2>2. todo' = Enter("sleep")
    BY <1>1, <1>7, ShortSums DEF Around, Enter
  <2>3. Leads(Names, todo', <<"sleep">>, Range(spans))
    BY <1>3, <1>4, <2>2 DEF Leads, Opening
  <2> QED BY <1>1, <1>5, <2>1, <2>3, SpansPlanned DEF SpanInv
<1> QED BY <1>6, <1>7

\* A sleep ends.
LEMMA SleepEndsSpans ==
  ASSUME ConsoleInv, SpanInv, NEW t \in Tasks, SleepEnds(t)
  PROVE  SpanInv'
<1>1. /\ SleepInv /\ PollInv /\ UNCHANGED <<spans, stack, setting>>
      /\ pc[t] = "poll" /\ running' = {} /\ pc' = [pc EXCEPT ![t] = "idle"]
      /\ cpu = "free" /\ todo = <<>>
      /\ cpu' = (IF ~DrawsClock(t) THEN "free"
                 ELSE IF InDrawClock(t) THEN "clock_lock" ELSE "clock_size")
      /\ todo' = Exit("sleep") \o
           (IF DrawsClock(t) /\ ~InDrawClock(t) THEN Open("draw_clock") ELSE <<>>)
  BY DEF SleepEnds, PollReady, Goes, Goto, ConsoleInv, SpanInv
<1>2. "free" \notin Drawing /\ "clock_lock" \in Drawing /\ "clock_size" \in Drawing
  BY MorePlaces
<1>3. /\ Names = IF InDrawClock(t) THEN <<"draw_clock", "sleep">> ELSE <<"sleep">>
      /\ \A u \in Tasks : u # t => pc[u] \notin {"poll", "register", "locked"}
      /\ setting = "kernel" => t = Clock
  BY <1>1, InPoll
<1>4. running' = {} /\ \A u \in Tasks : pc'[u] \notin {"poll", "register", "locked"}
  BY <1>1, <1>3 DEF SleepInv
<1>5. PollInv'
  <2>1. setting = "kernel" => cpu' \in Drawing
    BY <1>1, <1>2, <1>3 DEF DrawsClock
  <2> QED BY <1>1, <1>3, <2>1, PollGoes, ZenonT(30)
<1>6. CASE InDrawClock(t)
  <2>1. DrawsClock(t) /\ cpu' \in Drawing
    BY <1>1, <1>2, <1>6 DEF InDrawClock
  <2>2. InSpans(<<"draw_clock">>)'
    BY <1>4, <2>1 DEF InSpans
  <2>3. todo' = Exit("sleep")
    BY <1>1, <1>6, ShortSums DEF Exit
  <2>4. Leads(Names, todo', <<"draw_clock">>, Range(spans))
    BY <1>3, <1>6, <2>3, ZenonT(30) DEF Leads
  <2> QED BY <1>1, <1>5, <2>2, <2>4, SpansPlanned DEF SpanInv
<1>7. CASE DrawsClock(t) /\ ~InDrawClock(t)
  <2>1. cpu' \in Drawing
    BY <1>1, <1>2, <1>7
  <2>2. InSpans(<<"draw_clock">>)'
    BY <1>4, <2>1 DEF InSpans
  <2>3. todo' = <<<<"exit", "sleep">>, <<"new", "draw_clock">>, <<"enter", "draw_clock">>>>
    <3>1. todo' = <<<<"exit", "sleep">>>> \o <<<<"new", "draw_clock">>, <<"enter", "draw_clock">>>>
      BY <1>1, <1>7, Zenon DEF Exit, Open
    <3>2. \A a, b, c : <<a>> \o <<b, c>> = <<a, b, c>>
      BY ShortSums, ZenonT(30)
    <3> QED BY ONLY <3>1, <3>2, ZenonT(30)
  <2>4. Leads(Names, todo', <<"draw_clock">>, Range(spans))
    BY <1>3, <1>7, <2>3, Zenon DEF Leads
  <2> QED BY <1>1, <1>5, <2>2, <2>4, SpansPlanned DEF SpanInv
<1>8. CASE ~DrawsClock(t)
  <2>1. cpu' \notin Drawing /\ ~InDrawClock(t)
    BY <1>1, <1>2, <1>8 DEF InDrawClock
  <2>2. InSpans(<<>>)'
    BY <1>4, <2>1, Zenon DEF InSpans
  <2>3. todo' = Exit("sleep")
    BY <1>1, <1>8, ShortSums, Zenon DEF Exit
  <2>4. Leads(Names, todo', <<>>, Range(spans))
    BY <1>3, <2>1, <2>3, ZenonT(30) DEF Leads
  <2> QED BY <1>1, <1>5, <2>2, <2>4, SpansPlanned, Zenon DEF SpanInv
<1> QED BY <1>6, <1>7, <1>8

\* A sleep goes on; its task stays registered, or goes to register.
LEMMA SleepWaitsSpans ==
  ASSUME ConsoleInv, SpanInv, NEW t \in Tasks, SleepWaits(t)
  PROVE  SpanInv'
<1>1. /\ SleepInv /\ PollInv /\ UNCHANGED <<spans, stack, setting, cpu>>
      /\ pc[t] = "poll" /\ cpu = "free" /\ todo = <<>>
      /\ IF registered[t] THEN running' = {} /\ pc' = [pc EXCEPT ![t] = "pending"]
         ELSE running' = running /\ pc' = [pc EXCEPT ![t] = "register"]
      /\ todo' = IF registered[t] THEN Exit("sleep") \o Around(t, Exit("draw_clock"))
                 ELSE Open("register_sleep")
  BY Zenon DEF SleepWaits, PollPending, Goto, ConsoleInv, SpanInv, consoleVars
<1>2. "free" \notin Drawing
  BY MorePlaces
<1>3. /\ Names = IF InDrawClock(t) THEN <<"draw_clock", "sleep">> ELSE <<"sleep">>
      /\ \A u \in Tasks : u # t => pc[u] \notin {"poll", "register", "locked"}
      /\ running = {t} /\ "sleep" \in Range(spans) /\ (setting = "kernel" => t = Clock)
  BY <1>1, InPoll
<1>4. CASE registered[t]
  <2>1. PollInv'
    BY <1>1, <1>3, <1>4, PollGoes, ZenonT(30)
  <2>2. InSpans(<<>>)'
    BY <1>1, <1>2, <1>3, <1>4, PollPlanned
  <2>3. CASE InDrawClock(t)
    <3>1. todo' = <<<<"exit", "sleep">>, <<"exit", "draw_clock">>>>
      BY <1>1, <1>4, <2>3, ShortSums, ZenonT(30) DEF Exit, Around
    <3>2. Leads(Names, todo', <<>>, Range(spans))
      BY <1>3, <2>3, <3>1 DEF Leads
    <3> QED BY <1>1, <2>1, <2>2, <3>2, SpansPlanned DEF SpanInv
  <2>4. CASE ~InDrawClock(t)
    <3>1. todo' = Exit("sleep")
      BY <1>1, <1>4, <2>4, ShortSums DEF Exit, Around
    <3>2. Leads(Names, todo', <<>>, Range(spans))
      BY <1>3, <2>4, <3>1 DEF Leads
    <3> QED BY <1>1, <2>1, <2>2, <3>2, SpansPlanned DEF SpanInv
  <2> QED BY <2>3, <2>4
<1>5. CASE ~registered[t]
  <2>1. PollInv'
    BY <1>1, <1>3, <1>5, PollGoes
  <2>2. PICK T : T = IF InDrawClock(t) THEN <<"draw_clock", "sleep", "register_sleep">>
                     ELSE <<"sleep", "register_sleep">>
    BY Zenon
  <2>3. InSpans(T)'
    <3>1. PICK l : l = "register"
      OBVIOUS
    <3>2. /\ SleepInv /\ UNCHANGED <<spans, setting>> /\ pc' = [pc EXCEPT ![t] = l]
          /\ running' # {} /\ cpu' = "free" /\ cpu' \notin Drawing
      BY <1>1, <1>2, <1>3, <1>5, <3>1
    <3>3. \A u \in Tasks : u # t => pc[u] \notin {"poll", "register", "locked"}
      BY <1>3
    <3>4. l \in {"register", "locked"} /\ l \in {"poll", "register", "locked"} /\ l # "poll"
      BY ONLY <3>1, SMTT(30)
    <3> QED BY ONLY <2>2, <3>2, <3>3, <3>4, t \in Tasks, PollPlanned, ZenonT(30)
  <2>4. Leads(Names, todo', T, Range(spans))
    BY <1>1, <1>3, <1>5, <2>2, ZenonT(30) DEF Leads, Opening
  <2> QED BY <1>1, <2>1, <2>3, <2>4, SpansPlanned DEF SpanInv
<1> QED BY <1>4, <1>5

\* register_sleep, under the lock and out of its span.
LEMMA RegistersSpans ==
  ASSUME ConsoleInv, SpanInv, NEW t \in Tasks, Registers(t)
  PROVE  SpanInv'
<1>1. /\ SleepInv /\ PollInv /\ UNCHANGED <<spans, stack, setting, cpu>>
      /\ pc[t] \in {"register", "locked"} /\ cpu = "free" /\ todo = <<>>
      /\ \/ /\ running' = running /\ pc' = [pc EXCEPT ![t] = "locked"] /\ todo' = <<>>
         \/ /\ running' = {} /\ pc' = [pc EXCEPT ![t] = "pending"]
            /\ todo' = Exit("register_sleep") \o Exit("sleep") \o Around(t, Exit("draw_clock"))
  BY ZenonT(30) DEF Registers, RegisterLock, RegisterInsert, Goto, ConsoleInv, SpanInv, consoleVars
<1>2. "free" \notin Drawing
  BY MorePlaces
<1>3. /\ Names = IF InDrawClock(t) THEN <<"draw_clock", "sleep", "register_sleep">>
                 ELSE <<"sleep", "register_sleep">>
      /\ \A u \in Tasks : u # t => pc[u] \notin {"poll", "register", "locked"}
      /\ running = {t} /\ "sleep" \in Range(spans) /\ (setting = "kernel" => t = Clock)
  BY <1>1, InPoll
<1>4. CASE pc' = [pc EXCEPT ![t] = "locked"] /\ running' = running /\ todo' = <<>>
  <2>1. PollInv'
    BY <1>1, <1>3, <1>4, PollGoes, ZenonT(30)
  <2>2. PICK T : T = Names
    OBVIOUS
  <2>3. InSpans(T)'
    BY <1>1, <1>2, <1>3, <1>4, <2>2, PollPlanned, ZenonT(30)
  <2>4. Leads(Names, todo', T, Range(spans))
    BY <1>4, <2>2, LeadsEnd
  <2> QED BY <1>1, <2>1, <2>3, <2>4, SpansPlanned DEF SpanInv
<1>5. CASE /\ pc' = [pc EXCEPT ![t] = "pending"] /\ running' = {}
           /\ todo' = Exit("register_sleep") \o Exit("sleep") \o Around(t, Exit("draw_clock"))
  <2>1. PollInv'
    BY <1>1, <1>3, <1>5, PollGoes, ZenonT(30)
  <2>2. InSpans(<<>>)'
    BY <1>1, <1>2, <1>3, <1>5, PollPlanned, ZenonT(30)
  <2>3. CASE InDrawClock(t)
    <3>1. todo' = <<<<"exit", "register_sleep">>, <<"exit", "sleep">>, <<"exit", "draw_clock">>>>
      <4>1. /\ Exit("register_sleep") \o Exit("sleep") =
                 <<<<"exit", "register_sleep">>, <<"exit", "sleep">>>>
            /\ Around(t, Exit("draw_clock")) = <<<<"exit", "draw_clock">>>>
        BY <2>3, ShortSums, Zenon DEF Exit, Around
      <4>2. todo' = <<<<"exit", "register_sleep">>, <<"exit", "sleep">>>> \o
                      <<<<"exit", "draw_clock">>>>
        BY <1>5, <4>1, Zenon
      <4>3. \A a, b, c : <<a, b>> \o <<c>> = <<a, b, c>>
        BY ShortSums, ZenonT(30)
      <4> QED BY ONLY <4>2, <4>3, ZenonT(30)
    <3>2. Leads(Names, todo', <<>>, Range(spans))
      BY <1>3, <2>3, <3>1 DEF Leads
    <3> QED BY <1>1, <2>1, <2>2, <3>2, SpansPlanned DEF SpanInv
  <2>4. CASE ~InDrawClock(t)
    <3>1. todo' = <<<<"exit", "register_sleep">>, <<"exit", "sleep">>>>
      BY <1>5, <2>4, ShortSums, ZenonT(30) DEF Exit, Around
    <3>2. Leads(Names, todo', <<>>, Range(spans))
      BY <1>3, <2>4, <3>1, ZenonT(30) DEF Leads
    <3> QED BY <1>1, <2>1, <2>2, <3>2, SpansPlanned DEF SpanInv
  <2> QED BY <2>3, <2>4
<1> QED BY <1>1, <1>4, <1>5

\* The clock interrupt opens and closes a span of its own.
LEMMA TickSpans ==
  ASSUME SpanInv, ClockTick
  PROVE  SpanInv'
<1>1. /\ UNCHANGED <<stack, todo, pc, running, cpu, setting>>
      /\ spans' = NewSpan(spans, "wake_sleep") /\ SpanIds /\ PollInv
  BY DEF ClockTick, ClockInterrupt, ClockAtBound, HandlerSpan, consoleVars, SpanInv, TraceInv
<1>2. SpanIds' /\ Names' = Names /\ Range(spans') = Range(spans) \cup {"wake_sleep"}
  <2>1. "wake_sleep" \in SpanNames
    BY DEF SpanNames
  <2> QED BY <1>1, <2>1, NamesKept
<1>3. PICK T : Leads(Names, todo, T, Range(spans)) /\ (Lives => InSpans(T))
  BY DEF SpanInv, TraceInv
<1>4. Leads(Names', todo', T, Range(spans'))
  <2>1. /\ \A s, w : Opening(s, w, Range(spans)) => Opening(s, w, Range(spans'))
        /\ \A s \in Range(spans) : s \in Range(spans')
    BY <1>2, ZenonT(30) DEF Opening
  <2>2. Names' = Names /\ todo' = todo
    BY <1>1, <1>2, Zenon
  <2> QED BY ONLY <1>3, <2>1, <2>2, ZenonT(30) DEF Leads
<1>5. \A t \in Tasks : InDrawClock(t)' <=> InDrawClock(t)
  BY <1>1, <1>2 DEF InDrawClock, DrawsClock
<1>6. (Lives => InSpans(T))'
  BY <1>1, <1>3, <1>5 DEF InSpans, Lives
<1>7. PollInv'
  BY <1>1, <1>2 DEF PollInv, Lives
<1> QED BY <1>2, <1>4, <1>6, <1>7 DEF SpanInv, TraceInv

\* Steps that make no call, and leave the clock task where it is or stay inside it.
LEMMA SpansStay ==
  ASSUME SpanInv, UNCHANGED <<spans, stack, todo, pc, running, setting>>,
         Lives' => Lives /\ (cpu' \in Drawing <=> cpu \in Drawing),
         running # {} /\ Lives' => cpu' = "free"
  PROVE  SpanInv'
<1>1. SpanIds' /\ Names' = Names /\ PollInv
  BY ZenonT(30) DEF SpanInv, TraceInv, SpanIds, Names
<1>2. PICK T : Leads(Names, todo, T, Range(spans)) /\ (Lives => InSpans(T))
  BY DEF SpanInv, TraceInv
<1>3. \A t \in Tasks : InDrawClock(t)' <=> InDrawClock(t)
  BY DEF InDrawClock, DrawsClock
<1>4. (Lives => InSpans(T))'
  BY <1>2, <1>3 DEF InSpans
<1>5. PollInv'
  BY <1>1 DEF PollInv
<1> QED BY <1>1, <1>2, <1>4, <1>5 DEF SpanInv, TraceInv

\* While events go to the screen nothing is traced and no task has run.
BootInv == setting = "kernel" /\ should_use_screen =>
             running = {} /\ todo = <<>> /\ spans = <<>> /\ stack = <<>>

\* BootInv is inductive.
LEMMA BootStep ==
  ASSUME ConsoleInv, BootInv, ConsoleNext
  PROVE  BootInv'
<1> SUFFICES ASSUME setting' = "kernel", should_use_screen'
             PROVE  running' = {} /\ todo' = <<>> /\ spans' = <<>> /\ stack' = <<>>
  BY DEF BootInv
<1>1. ControlInv
  BY DEF ConsoleInv
<1>2. CASE UNCHANGED <<setting, should_use_screen, running, tracerVars>>
  BY <1>2 DEF BootInv, tracerVars
<1>3. ASSUME setting = "kernel", should_use_screen
      PROVE  cpu # "free" /\ cpu # "clock_sleep" /\ ~interrupts /\ todo = <<>>
  BY <1>1, <1>3, Places DEF ControlInv, BootInv
<1>4. ASSUME NEW t \in Tasks, NEW d \in Durations, BeginSleep(t, d) PROVE FALSE
  BY <1>3, <1>4, ZenonT(30) DEF BeginSleep, Goes
<1>5. ASSUME NEW t \in Tasks, Woken(t) \/ Spurious(t) \/ Polled(t) PROVE FALSE
  BY <1>3, <1>5, ZenonT(30) DEF Woken, Spurious, PollAgain, Polled, SleepEnds, SleepWaits, Registers, Goes,
                    consoleVars
<1>6. ~Traces /\ ~ClockTick
  BY <1>3, ZenonT(30) DEF Traces, TraceStep, ClockTick, ClockInterrupt, ClockAtBound, consoleVars
<1>7. CASE ClockUnchanged \/ ClockLock \/ ClockDraws \/ ClockUnlock \/ Glyph \/ GlyphPanics
           \/ Flush \/ PanicStep
  BY <1>2, <1>7, ZenonT(30) DEF ClockUnchanged, ClockLock, ClockDraws, ClockUnlock, Glyph, GlyphPanics, Flush,
                    PanicStep, PanicEvent, WriteText, vars
<1>8. CASE Echo \/ BootClear \/ BootText \/ UseSerialOnly \/ Greet \/ Run \/ HandlerWarns \/ Panics
  BY <1>2, <1>8, ZenonT(30) DEF Echo, BootClear, BootText, UseSerialOnly, Greet, Run, HandlerWarns, Panics, WriteText,
                    vars, sleepVars, allVars, consoleVars
<1>9. CASE Pixels \/ Halted
  BY <1>2, <1>9, ZenonT(30) DEF Pixels, Halted, vars, allVars, consoleVars
<1> QED BY <1>4, <1>5, <1>6, <1>7, <1>8, <1>9 DEF ConsoleNext, CpuStep

\* The clock task awake, prints and the panic handler.
LEMMA CpuSpans ==
  ASSUME ConsoleInv, SpanInv, BootInv, CpuStep
  PROVE  SpanInv'
<1>1. ControlInv /\ SleepInv /\ PollInv
  BY DEF ConsoleInv, SpanInv
<1>2. running # {} => cpu = "free" \/ ~Lives
  BY <1>1 DEF PollInv
<1>3. CASE Traces
  BY <1>3, TracesSpans
<1>4. CASE ClockUnchanged \/ ClockLock \/ ClockDraws \/ ClockUnlock
  <2>1. /\ UNCHANGED <<spans, stack, todo, pc, running, setting>>
        /\ cpu \in Drawing /\ cpu' \in Drawing /\ Lives
    BY <1>4, MorePlaces, ZenonT(30) DEF ClockUnchanged, ClockLock, ClockDraws, ClockUnlock, Goes, vars,
       tracerVars, Lives
  <2>2. running = {}
    BY <1>2, <2>1, MorePlaces
  <2> QED BY <2>1, <2>2, SpansStay
<1>5. CASE Glyph \/ GlyphPanics \/ Flush
  <2>1. /\ UNCHANGED <<spans, stack, todo, pc, running, setting>>
        /\ cpu \in Printing /\ cpu' \in {"flush", "panic", "boot", "greeted", "free", "panic_lock"}
    BY <1>1, <1>5, Places, ZenonT(30) DEF Glyph, GlyphPanics, Flush, vars, tracerVars, ControlInv
  <2>2. Lives /\ cpu \notin Drawing /\ cpu' \notin Drawing /\ cpu # "free"
    BY <2>1, Places, MorePlaces DEF Lives
  <2> QED BY <1>2, <2>1, <2>2, SpansStay
<1>6. CASE PanicStep
  <2>1. UNCHANGED <<spans, stack, todo, pc, running, setting>> /\ cpu \in Panicking
    BY <1>6, Places, ZenonT(30) DEF PanicStep, PanicEvent, PanicLock, PanicDraws, WriteText, vars, tracerVars
  <2>2. CASE ~Lives'
    BY <2>1, <2>2, SpansStay
  <2>3. CASE Lives'
    <3>1. cpu' = "glyph" /\ should_use_screen /\ setting = "kernel"
      BY <1>1, <1>6, <2>1, <2>3, Places, MorePlaces, ZenonT(30) DEF PanicStep, PanicEvent, PanicLock,
         PanicDraws, WriteText, Warn, Lives, ControlInv
    <3>2. running = {} /\ todo = <<>> /\ spans = <<>> /\ stack = <<>>
      BY <3>1 DEF BootInv
    <3>3. \A t \in Tasks : pc[t] \notin {"poll", "register", "locked"}
      BY <1>1, <3>2 DEF SleepInv
    <3>4. Names = <<>> /\ "draw_clock" \notin Range(spans)
      BY <3>2 DEF Names, Range
    <3>5. Leads(Names, todo', <<>>, Range(spans))
      BY <2>1, <3>2, <3>4, LeadsEnd
    <3>6. cpu' \notin Drawing
      BY <3>1, MorePlaces
    <3>7. InSpans(<<>>)'
      BY <2>1, <3>3, <3>6 DEF InSpans
    <3>8. PollInv'
      BY <1>1, <2>1, <3>2, <3>4 DEF PollInv
    <3> QED BY <2>1, <3>5, <3>7, <3>8, SpansPlanned DEF SpanInv
  <2> QED BY <2>2, <2>3
<1> QED BY <1>3, <1>4, <1>5, <1>6 DEF CpuStep

\* Prints, boot and handlers.
LEMMA OtherSpans ==
  ASSUME ConsoleInv, SpanInv,
         \/ Echo \/ BootClear \/ BootText \/ UseSerialOnly \/ Greet \/ Run
         \/ ClockTick \/ HandlerWarns \/ Panics \/ Pixels \/ Halted
  PROVE  SpanInv'
<1>1. ControlInv /\ SleepInv /\ PollInv
  BY DEF ConsoleInv, SpanInv
<1>2. running # {} => cpu = "free" \/ ~Lives
  BY <1>1 DEF PollInv
<1>3. CASE ClockTick
  BY <1>3, TickSpans
<1>4. CASE Echo \/ BootText \/ Greet
  <2>1. /\ UNCHANGED <<spans, stack, todo, pc, running, setting>>
        /\ cpu \in {"free", "boot", "main"} /\ cpu' = "glyph" /\ (cpu = "free" => running = {})
    BY <1>1, <1>4, Places, ZenonT(30) DEF Echo, BootText, Greet, WriteText, ControlInv, tracerVars
  <2>2. Lives /\ cpu \notin Drawing /\ cpu' \notin Drawing
    BY <2>1, MorePlaces DEF Lives
  <2> QED BY <1>2, <2>1, <2>2, SpansStay
<1>5. CASE BootClear \/ UseSerialOnly \/ Run
  <2>1. /\ UNCHANGED <<spans, stack, todo, pc, running, setting>>
        /\ cpu \in {"start", "boot", "greeted"} /\ cpu' \in {"boot", "main", "free"}
    BY <1>5, ZenonT(30) DEF BootClear, UseSerialOnly, Run, Goes, vars, sleepVars, tracerVars
  <2>2. Lives /\ cpu \notin Drawing /\ cpu' \notin Drawing
    BY <2>1, MorePlaces DEF Lives
  <2> QED BY <1>2, <2>1, <2>2, SpansStay
<1>6. CASE Panics
  <2>1. UNCHANGED <<spans, stack, todo, pc, running, setting>> /\ cpu' = "panic"
    BY <1>6 DEF Panics, sleepVars, tracerVars
  <2>2. ~Lives'
    BY <2>1, MorePlaces DEF Lives
  <2> QED BY <2>1, <2>2, SpansStay
<1>7. CASE HandlerWarns \/ Pixels \/ Halted
  <2>1. UNCHANGED <<spans, stack, todo, pc, running, setting, cpu>>
    BY <1>1, <1>7, ZenonT(30) DEF HandlerWarns, Pixels, Halted, ControlInv, vars, tracerVars,
       consoleVars, allVars
  <2> QED BY <1>2, <2>1, SpansStay DEF Lives
<1> QED BY <1>3, <1>4, <1>5, <1>6, <1>7

\* SpanInv is inductive, with BootInv.
LEMMA SpanInvariant == ConsoleSpec => [](SpanInv /\ BootInv)
<1>1. ConsoleInit => SpanInv /\ BootInv
  <2> SUFFICES ASSUME ConsoleInit PROVE SpanInv /\ BootInv
    OBVIOUS
  <2>1. /\ spans = <<>> /\ stack = <<>> /\ todo = <<>> /\ running = {}
        /\ pc = [t \in Tasks |-> "idle"] /\ cpu \in {"start", "free"}
    BY DEF ConsoleInit, NoSleeper, TracerInit
  <2>2. SpanIds /\ Names = <<>> /\ "draw_clock" \notin Range(spans)
    BY <2>1 DEF SpanIds, Names, Range
  <2>3. InSpans(<<>>)
    BY <2>1, MorePlaces DEF InSpans
  <2>4. TraceInv
    BY <2>1, <2>2, <2>3, LeadsEnd DEF TraceInv
  <2>5. PollInv
    BY <2>1, <2>2 DEF PollInv
  <2> QED BY <2>1, <2>4, <2>5 DEF SpanInv, BootInv
<1>2. ConsoleInv /\ SpanInv /\ BootInv /\ [ConsoleNext]_allVars => (SpanInv /\ BootInv)'
  <2> SUFFICES ASSUME ConsoleInv, SpanInv, BootInv, [ConsoleNext]_allVars
               PROVE  (SpanInv /\ BootInv)'
    OBVIOUS
  <2>1. CASE ConsoleNext
    <3>1. ASSUME NEW t \in Tasks, \/ \E d \in Durations : BeginSleep(t, d)
                                  \/ Woken(t) \/ Spurious(t) \/ Polled(t)
          PROVE  SpanInv'
      BY <3>1, BeginSleepSpans, PollAgainSpans, SleepEndsSpans, SleepWaitsSpans, RegistersSpans
         DEF Polled
    <3> QED BY <2>1, <3>1, CpuSpans, OtherSpans, BootStep DEF ConsoleNext
  <2>2. CASE UNCHANGED allVars
    <3>1. SpanInv'
      <4>1. UNCHANGED <<spans, stack, todo, pc, running, setting, cpu>>
        BY <2>2 DEF allVars, vars, tracerVars, consoleVars
      <4> QED BY <4>1, SpansStay, ZenonT(30) DEF Lives, SpanInv, PollInv
    <3> QED BY <2>2, <3>1 DEF allVars, vars, tracerVars, consoleVars, BootInv
  <2> QED BY <2>1, <2>2
<1> QED BY <1>1, <1>2, ConsoleInvariant, PTL DEF ConsoleSpec

\* What the types say beyond the other invariants: the times of the sleepers, ...
TimesInv == /\ mono \in 0 .. MaxTime
            /\ service \subseteq (0 .. MaxTime) \X Tasks
            /\ end_tick \in [Tasks -> 0 .. MaxTime]

\* ... and the flags and places of the processor.
FlagsInv ==
  /\ interrupts \in BOOLEAN /\ setting \in Settings
  /\ cpu \in {"free"} \cup Booting \cup Drawing \cup Printing \cup Panicking \cup Dead
  /\ display_locked \in BOOLEAN /\ writer_locked \in BOOLEAN /\ should_use_screen \in BOOLEAN

\* The clock stays within the bound of the model, and so do the deadlines.
LEMMA TimesStep ==
  ASSUME SleepInv, TimesInv, ConsoleNext
  PROVE  TimesInv'
<1>1. MaxTime \in Nat /\ Durations \subseteq Nat \ {0}
  BY SleepAssumption
<1>2. ASSUME NEW t \in Tasks, NEW d \in Durations, New(t, d) PROVE TimesInv'
  <2>1. mono + (d - 1) \in 0 .. MaxTime
    BY <1>1, <1>2 DEF New, TimesInv
  <2> QED BY <1>2, <2>1 DEF New, TimesInv
<1>3. ASSUME NEW t \in Tasks, RegisterInsert(t) PROVE TimesInv'
  <2>1. end_tick[t] \in 0 .. MaxTime
    BY DEF TimesInv
  <2>2. <<end_tick[t], t>> \in (0 .. MaxTime) \X Tasks
    BY <2>1
  <2> QED BY <1>3, <2>2 DEF RegisterInsert, TimesInv
<1>4. CASE ClockInterrupt \/ ClockAtBound
  <2>1. service' \subseteq service
    BY <1>4, ZenonT(30) DEF ClockInterrupt, ClockAtBound, WakeSleep
  <2>2. mono' \in 0 .. MaxTime /\ end_tick' = end_tick
    BY <1>1, <1>4 DEF ClockInterrupt, ClockAtBound, TimesInv, futureVars
  <2> QED BY <2>1, <2>2 DEF TimesInv
<1>5. ASSUME NEW t \in Tasks, \/ PollReady(t) \/ PollPending(t) \/ RegisterLock(t)
                              \/ PollWoken(t) \/ PollSpurious(t)
      PROVE  TimesInv'
  BY <1>5, ZenonT(30) DEF PollReady, PollPending, RegisterLock, PollWoken, PollSpurious, futureVars, TimesInv
<1>6. CASE UNCHANGED sleepVars
  BY <1>6 DEF sleepVars, futureVars, TimesInv
<1> QED BY <1>2, <1>3, <1>4, <1>5, <1>6, SleepProjection DEF SleepMove

\* The flags stay flags.
LEMMA FlagsStep ==
  ASSUME ConsoleInv, FlagsInv, ConsoleNext
  PROVE  FlagsInv'
<1>1. ControlInv
  BY DEF ConsoleInv
<1>2. ASSUME NEW t \in Tasks, NEW d \in Durations, BeginSleep(t, d) PROVE FlagsInv'
  BY <1>2, Zenon DEF BeginSleep, New, Goes, FlagsInv
<1>3. ASSUME NEW t \in Tasks, Woken(t) \/ Spurious(t) PROVE FlagsInv'
  BY <1>3, ZenonT(30) DEF Woken, Spurious, PollWoken, PollSpurious, PollAgain, consoleVars, FlagsInv
<1>4. ASSUME NEW t \in Tasks, SleepEnds(t) PROVE FlagsInv'
  BY <1>4, MorePlaces, ZenonT(30) DEF SleepEnds, PollReady, Goes, FlagsInv
<1>5. ASSUME NEW t \in Tasks, SleepWaits(t) PROVE FlagsInv'
  BY <1>5, ZenonT(30) DEF SleepWaits, PollPending, consoleVars, FlagsInv
<1>6. ASSUME NEW t \in Tasks, Registers(t) PROVE FlagsInv'
  BY <1>6, Zenon DEF Registers, RegisterLock, RegisterInsert, consoleVars, FlagsInv
<1>7. CASE Traces \/ ClockUnchanged \/ ClockLock \/ ClockDraws \/ ClockUnlock
  BY <1>7, MorePlaces, ZenonT(30) DEF Traces, ClockUnchanged, ClockLock, ClockDraws, ClockUnlock, Goes, vars,
     consoleVars, FlagsInv
<1>8. CASE Glyph \/ GlyphPanics
  BY <1>8, Places DEF Glyph, GlyphPanics, vars, FlagsInv
<1>9. CASE Flush
  BY <1>1, <1>9, Places, ZenonT(30) DEF Flush, ControlInv, FlagsInv
<1>10. CASE PanicStep
  BY <1>1, <1>10, Places, ZenonT(30) DEF PanicStep, PanicEvent, PanicLock, PanicDraws, WriteText, vars,
     ControlInv, FlagsInv
<1>11. CASE Echo \/ BootText \/ Greet
  BY <1>1, <1>11, Places, ZenonT(30) DEF Echo, BootText, Greet, WriteText, ControlInv, FlagsInv
<1>12. CASE BootClear \/ UseSerialOnly \/ Run \/ Panics
  BY <1>12, Places, ZenonT(30) DEF BootClear, UseSerialOnly, Run, Panics, Goes, vars, FlagsInv
<1>13. CASE ClockTick \/ HandlerWarns \/ Pixels \/ Halted
  BY <1>1, <1>13, ZenonT(30) DEF ClockTick, ClockInterrupt, ClockAtBound, HandlerWarns, Pixels, Halted,
     ControlInv, vars, allVars, consoleVars, FlagsInv
<1> QED
  BY <1>2, <1>3, <1>4, <1>5, <1>6, <1>7, <1>8, <1>9, <1>10, <1>11, <1>12, <1>13
     DEF ConsoleNext, CpuStep, Polled

\* Spans nest as exit assumes, every span on the stack has its metadata, and none stays
\* open from one poll to the next, for any number of tasks; and all types are kept.
THEOREM SpansAreClosed == ConsoleSpec => []SpansClosed
<1>1. ConsoleInit => TimesInv /\ FlagsInv
  <2> SUFFICES ASSUME ConsoleInit PROVE TimesInv /\ FlagsInv
    OBVIOUS
  <2>1. TimesInv
    <3>1. 0 \in 0 .. MaxTime
      BY SleepAssumption
    <3> QED BY <3>1 DEF ConsoleInit, NoSleeper, TimesInv
  <2>2. FlagsInv
    BY Places, ZenonT(30) DEF ConsoleInit, FlagsInv
  <2> QED BY <2>1, <2>2
<1>2. ConsoleInv /\ TimesInv /\ FlagsInv /\ [ConsoleNext]_allVars => (TimesInv /\ FlagsInv)'
  <2> SUFFICES ASSUME ConsoleInv, TimesInv, FlagsInv, [ConsoleNext]_allVars
               PROVE  (TimesInv /\ FlagsInv)'
    OBVIOUS
  <2>1. CASE ConsoleNext
    BY <2>1, TimesStep, FlagsStep DEF ConsoleInv
  <2>2. CASE UNCHANGED allVars
    BY <2>2 DEF allVars, vars, consoleVars, TimesInv, FlagsInv
  <2> QED BY <2>1, <2>2
<1>3. ConsoleInv /\ SpanInv /\ TimesInv /\ FlagsInv => SpansClosed
  <2> SUFFICES ASSUME ConsoleInv, SpanInv, TimesInv, FlagsInv PROVE SpansClosed
    OBVIOUS
  <2>1. SleepInv /\ ControlInv /\ PollInv /\ SpanIds
    BY DEF ConsoleInv, SpanInv, TraceInv
  <2>2. TypeOK
    <3>1. running \subseteq Tasks
      BY <2>1 DEF PollInv
    <3> QED BY <2>1, <3>1 DEF TypeOK, SleepInv, TimesInv, FlagsInv
  <2>3. ConsoleTypeOK
    BY <2>1, <2>2 DEF ConsoleTypeOK, FlagsInv, ControlInv
  <2>4. SpansHierarchical
    <3>1. ASSUME todo # <<>>, todo[1][1] = "exit"
          PROVE  stack # <<>> /\ spans[stack[Len(stack)]] = todo[1][2]
      <4>1. PICK T : Leads(Names, todo, T, Range(spans))
        BY DEF SpanInv, TraceInv
      <4>2. Len(Names) > 0 /\ Names[Len(Names)] = todo[1][2]
        BY <3>1, <4>1, LeadsOn, ZenonT(30)
      <4> QED BY <2>1, <4>2, TopOfStack
    <3> QED BY <2>1, <3>1 DEF SpansHierarchical, SpanIds
  <2>5. ASSUME cpu = "free", running = {}, todo = <<>> PROVE stack = <<>>
    <3>1. Names = <<>>
      BY <2>1, <2>5, BetweenPolls
    <3> QED BY <2>1, <3>1, TopOfStack
  <2> QED BY <2>3, <2>4, <2>5 DEF SpansClosed
<1> QED BY <1>1, <1>2, <1>3, ConsoleInvariant, SpanInvariant, PTL DEF ConsoleSpec
=============================================================================
