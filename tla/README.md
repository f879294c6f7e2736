# A verification project for HomemadeOS

The repository follows the book "30 days to write an operating system": `NN_day/` is the author's own
annotated code after each day (up to day 10), `resource/` is the book's disc. Two programs are modelled:

* **10_day** (`src/10_day`): one program, `HariMain`, with interrupt handlers that fill two FIFOs, a
  memory manager and the sheets of a window system;
* **harib27f** (`src/resource/projects/30_day/harib27f/haribote`), the complete operating system:
  tasks, timers, consoles, applications, windows.

The other days and projects are earlier states of these two. Applications
(`harib27f/<name>`) are used to see which calls are made.

Below, file names without a directory are those of harib27f, except `memory.c`, which is the one of 10_day.

## 1. The parts of the system

| Part | State | Operations | Used by | What is hard about it | What makes it correct |
|---|---|---|---|---|---|
| Memory manager (`memory.c`) | table of free areas, number of lost ones | alloc, free, both in pages, total | everybody | four cases of joining; a full table; in harib27f, use by all tasks without protection | no byte handed out twice; free areas sorted and joined; bytes accounted for |
| Multitasking (`mtask.c`) | task slots, levels with run queues, `now`, `lv_change` | `task_alloc`, `task_run`, `task_sleep`, `task_switch` | FIFOs wake tasks; consoles are opened and closed; timer interrupt switches | queues change under interrupts and by tasks of two levels; positions are kept while entries shift | queues agree with flags; the running task is the one the tables name; no lost wakeup; everybody gets a turn |
| FIFO32 (`fifo.c`) | ring buffer, the task to wake | put (drops when full, wakes), get, status | interrupt handlers, tasks | test and sleep must be atomic; drops | never more than fits; a sleeping reader has nothing to read |
| Timers (`timer.c`) | 500 timers, list by timeout, `timerctl.next`, `count` | alloc, init, settime, cancel, cancelall, free, interrupt | consoles, applications, multitasking | interrupts between any two steps; head, middle and sentinel cases; timers outliving their owner | list sorted and complete; due timers fire, and nothing else; no post to who has gone |
| Sheets (`sheet.c`) | stack with heights, `map[]`, video memory | updown, slide, refresh, alloc, free | main task, consoles, applications | partial repainting against a cached map | stack and heights agree; map and screen show the top sheet everywhere |
| Consoles (`console.c`) | command line, cursor timer, task | event loop, commands, start and end of applications, API | main task, applications | two ways to end; closing by another task; broken applications | slot, stack and FIFO are given back once, with nothing left that uses them |
| Main task (`bootpack.c`) | `key_win`, drag state, `keycmd`, `keycmd_wait`, `key_leds` | keyboard, mouse, opening and closing of consoles, commands to the keyboard | all of the above | windows that vanish while pointed to; three ways to close a console | `key_win` names what gets the keys; who is told to close goes; lamps follow the locks |
| Input of harib27f (`keyboard.c`, `mouse.c`) | none but the mouse decoder's | interrupt handlers that put into the one FIFO | main task | answers of the keyboard arrive among keys | each answer is taken for the byte it belongs to |
| Input of 10_day (`fifo.c`, `int.c`, `keyboard.c`, `mouse.c`, the loop of `bootpack.c`) | two ring buffers, phase of the mouse packet, interrupt flag | put, get, status, handlers, `mouse_decode`, test and halt | the machine | interrupts between any two instructions; bytes dropped inside a packet | ring buffers are queues; never halted on input; packets found again |
| Files (`file.c`, `tek.c`) | none | FAT chains, decompression | consoles | data | data is read along the chain |
| Drawing, descriptors, assembly | none, or tables written once | | | | |

How they interact: interrupt handlers put events into FIFOs; a FIFO wakes its task by `task_run`; the
timer interrupt ends time slices by `task_switch`; tasks take events, set timers, draw into sheets,
and send each other events through the same FIFOs. Memory, timers, sheets and task slots are shared
tables without locks; `io_cli` protects some of their operations, and the models follow it exactly there.

`PROJECT.json` lists the hazards of this code line by line, with the properties that cover each.

## 2. The modules

| Module | Models | Composes |
|---|---|---|
| `Heap` | what a memory manager promises: a set of free bytes; a request is refused only if no run of bytes is long enough, a release loses its bytes only if there are already as many separate runs as there are entries | |
| `MemMan` | `memory.c`: the table, one action per call | refines `Heap` (`HeapSpec`) |
| `MTask` | `mtask.c` with `fifo.c`, task_a's loop, consoles, interrupt handlers; scheduler calls are single steps | |
| `MTaskRace` | the same, with the scheduler calls that are made with interrupts enabled taken apart | extends `MTask` |
| `AlarmClock` | what timers promise: a set of alarms, each with the time left | |
| `Timer` | `timer.c` with consoles and applications that use it | refines `AlarmClock` (`ClockSpec`) |
| `Layers` | what sheets promise: pictures one above the other, and a screen that shows the uppermost | |
| `Sheet` | `sheet.c` with what the mouse, keys, consoles and applications do to sheets | refines `Layers` (`LayersSpec`) |
| `KeyWin` | `key_win`, windows and the ways to close them: task_a's events, `console.c` and `hrb_api` where they open and close, the stack of sheets without pixels, FIFOs, slots, exit messages | sheets, FIFOs, consoles and task_a in one state |
| `BoundedQueue` | what a FIFO promises | |
| `Input` | the input path of 10_day: devices, interrupts, ring buffers, main loop, mouse decoder | refines `BoundedQueue` twice (`QueueSpec`) |
| `KeyCmd` | commands to the keyboard in harib27f with their answers | |
| `MemManProofs`, `MemManRefinement`, `MTaskProofs`, `TimerProofs`, `SheetProofs`, `KeyWinProofs`, `InputProofs`, `KeyCmdProofs` | theorems (section 5) | |
| `MC...` | instances for TLC | |

### MemMan

`man` is `struct MEMMAN`: `free[0 .. frees-1]`, `maxfrees`, `losts`, `lostsize`. `owned` is what callers hold, `leaked` what was dropped because the table was full. `MemmanAlloc`
is first fit with removal of an empty entry; `MemmanFree` finds its position and joins with the area
before, behind, both or none. `MemmanAlloc4k` and `MemmanFree4k` round up with the width of the machine
(`Word`). In 10_day the only caller is `HariMain`, so each call is a step.

### MTask

`ctl` is `struct TASKCTL` (`running`, `now`, `tasks`, `now_lv`, `lv_change`) with flags and level of each
task; `cpu` is the task that has the processor, kept apart from the tables so that the two can disagree;
`fifo` the events that wait; `pc` where each task is in its loop; `victim` the console
that task_a is closing. A task does a step only when it has the processor. Actions: `Boot`, `OpenConstask`,
`Start`, `Sleep` (test of the FIFO and `task_sleep` under one `io_cli`), `Take`, `Done`, `Send`, `Break`
(Shift+F1), `CmdExit`, `ExitSleep` (the loop that sleeps for ever), `CloseConstask`, `Interrupt` (an event for a task) and `TimeSlice`. Priorities are abstracted: a time
slice may end at any moment, which includes every priority. The idle task is part of the tables and always
runnable.

### MTaskRace

`task_run`, `task_add`, `task_remove` and `task_sleep` as the lines that an interrupt can separate, for the calls
that the code makes with interrupts enabled (`bootpack.c:76`, `178`, `224`, `378`, `399`, `console.c:297`). Handlers still
run in one step, as their gates clear the interrupt flag.

### Timer

`tm` is `timerctl` with the timers: `t0`, `next`, `link`, `left`, `flags`. Times are relative to `count`, so that
the number of ticks is not bounded; the wrap of `count` after 497 days is therefore not modelled, and the code does not handle it.
`owner` is the FIFO a timer posts to, `flags2` marks the timers
of applications, `setting` the timer a task is inside `timer_settime` with, between the line that computes the timeout and
`io_cli`: ticks come in between. `Tick` is the whole handler with all timers that
are due. `mode` of a console is closed, shell, app or leaving; its cursor timer is set again on every event it gets,
an application allocates, sets, cancels and frees one timer, and `AppEnd` and `CloseWindow` are the end of
`cmd_app` and the close message in `api_getkey`. The loops of the handler and of `timer_cancelall` along the list are functions defined along it
(`Walk`, `Posted`, `TimerCancelall`).

Left out: `memman` and `sheet` calls of the same handlers, null results of `timer_alloc` (no caller looks at
them; a timer is opened only while one is free), and setting a timer that is already on the list, which no application of the repository does.

### Sheet

`stack` has `top`, `sheets[]` and the heights, which the C code keeps in the sheets; `sheet` has the position and the pixels;
`map` and `vram` are as in the code. Actions: booting the three first sheets, moving the mouse, dragging, clicking, the close button, F11,
opening and closing windows, drawing. The screen has one row, because rows are clipped like
columns; painting four bytes at once is taken to be the same as painting one. It is not quite: for an area that
lies inside four bytes the number of words becomes negative (`sheet.c:144`), and the last loop (`178`) starts up to three pixels to the left of the area, even left of the
sheet. That is harmless, as each pixel is painted only if `map[]` names the sheet there, with what the sheet has there. The transparent colour
is -1. Drawing that is not followed by a refresh is left out: it is meant to differ from the screen. So is
drawing in the transparent colour, which `notrec` does: `map[]` still gives it the pixel then, and the colour itself appears
(`sheet.c:264`). A click that hits no window does nothing, as in the code.

### KeyWin

`ui` has what task_a and consoles share: `stack` (sheet numbers from the lowest up), `win` (of each sheet what it is, its task, and whether
its title is lit), `key_win`, the FIFOs of consoles, and `wild`, which becomes true, for good, when the code follows a pointer to nothing;
from then on nothing is known and nothing happens. `cons` is, of each console, where it is, `cons.sht`, and the sheet and
console it is opening; `sys` the exit messages (768, 1024 and 2024 upwards in the code): those that wait in the FIFO of task_a, and,
kept for the properties only, those that found it full (`fifo.c:23`). Keys and mouse bytes wait in the same FIFO; the model leaves open how many, so that
`Send` may drop any message, and must drop one when `SYS_SIZE` exit messages wait.

Every event begins, as in `HariMain`, with `Refresh` (`key_win` may have been closed). Keys and clicks:
`KeyEnter`, `Tab`, `ShiftF1`, `ShiftF2`, `F11`, `Click`, `CloseApp`, `CloseConsole`; `TakeExit` carries out the three exit messages.
Consoles take the steps `TakeClose`, `TypedExit`, `Command`, `Prompt`, `StartApp`, `CmdNcst`, `StartSheet`, `StartTask`, `StartShow`, `StartType`;
applications `GetkeyTake`, `GetkeyClose`, `GetkeyEnter`, `OpenAlloc`, `OpenOwn`, `OpenShow`, `CloseWin`, `End`, and `FreeWindow` until `Ended`. task_a is on a higher
level than consoles and handles an event in one step; a console is interrupted between any two of its own, inside `cmd_start` and
`api_openwin` too, and inside `api_getkey`: it takes the message to close (`GetkeyTake`, `console.c:506` to `517`) and acts on it (`GetkeyClose`, `529` to `535`) with
interrupts on in between, where Shift+F1 or the close button of a window (`Broken`) may send it to the end of the application. `CloseApp` makes the state wild when the application
is ending already. `Title` does so for every sheet that `api_openwin` or `cmd_start` has allocated but not given to anybody: the code writes through the pointer `buf`,
which may be set already or be left from an earlier window, so that the model is stricter there than the code. When sheets or tasks have run out, the unchecked null pointer makes the state wild.

### Input and KeyCmd

`Input`: `port` is the byte that the keyboard controller holds, `intr` the interrupt flag, `pc` the instruction of `HariMain` (`Cli`; then the test,
which ends in `Stihlt`, `TakeKey` or `TakeMouse`). `sti` and `hlt` are one step, because the processor takes no
interrupt between them. Both buffers have all fields of `struct FIFO8`. Of a mouse byte the model keeps which of the packet it is, which the decoder
does not see, and whether it passes the decoder's test for a first byte, which others may pass too.

`KeyCmd`: `keycmd` and `keycmd_wait` as in `HariMain`, the byte on the `wire`, the byte at the `port`, task_a's FIFO, and the keyboard, which
accepts (0xfa) or refuses (0xfe) each byte at will. Locks, other keys and the mouse come in between at any moment.

## 3. The runs

| Run | Bounds | Shows |
|---|---|---|
| `memman_table` | 6 pages in two areas, table of 2 entries, requests of 1, 2, 3 and 6 bytes in pages of 2 | `NoOverlap`, `Coalesced`, `Conservation`, and `HeapSpec`: the table implements the heap |
| `mtask` | task_a, idle, two consoles on one level, FIFOs of two events | `RunQueues`, `CurrentTask`, `TopLevelWatched`, `NoLostWakeup`, `SlotReuse`; `Responsive`, `RoundRobin`, `ExitCompletes` |
| `mtask_race` | the same, FIFOs of one event | finding 1 |
| `timer_safety` | two consoles with applications, 4 timers (sentinel and task timer included), FIFOs of 2 events; symmetry over consoles | `ListSound`, `PostsWanted`, `CursorAlive` |
| `timer_live` | one console, 5 timers, two lengths of time slices | `ClockSpec`, `TimersFire`, `CursorBlinks` |
| `timer_free` | as `timer_live` | finding 2 |
| `sheet_screen` | 5 sheets on 2 pixels, windows of one or two pixels with and without a hole, partly off the left edge (the mouse: off the right one) | `StackSound`, `MapCurrent`, and `LayersSpec`: stack, map and screen implement a stack of pictures |
| `sheet_mouse` | 4 sheets on 2 pixels | finding 3 |
| `keywin` | 4 sheets (two windows), two consoles, FIFOs of two, that of task_a too | `ExitsMatch`, `WindowsOwned`, `Highlight`, `CloseCompletes` |
| `keywin_null` | as `keywin` | finding 4 |
| `input` | ring buffers of two, one key | `AwakeOnInput`, `QueueSpec`, `PacketsKept`, `Resync`, `Served` |
| `keycmd` | one lock, room for two commands in `keycmd`, FIFO of three | `OneOutstanding`, `InPairs`, `LedsFollow` |

Each passing run but `timer_live` checks the type invariant of its module as well; it includes that no index leaves its table and no FIFO holds more than it has
room for. `timer_live` shares its module with `timer_safety`, which does.

Why the bounds are enough. *Memory*: with two entries and areas of three lengths all four ways to join, first
fit past an area that is too small, and a full table occur. *Tasks*: two consoles make shifting at the front and at the end of a
queue different, before and at `now`; with three, liveness does not finish in reasonable time, but the safety properties and the steps under
`Responsive`, `RoundRobin` and `ExitCompletes` are proved for any number. *Timers*: two clients with two timers each share four
slots with the sentinel and the task timer, so lists of all lengths, equal timeouts, and running out of timers occur. *Sheets*: besides background and mouse three
windows, so that a raise or a lowering passes none, one or two others, and two pixels, so that windows overlap in
parts, through holes and beyond both edges. *Windows*: two windows are enough for consoles to close each other, for an application that opens
one while its own console closes, and to run out of sheets and of tasks; with five sheets the invariants were checked once, on five million
states. *Input*: ring buffers of two wrap, fill up and drop in the middle of a packet of three. *Keyboard*: two commands
can be under way at once, and both FIFOs overrun; locks are alike. No run turns deadlock checking off. The two runs of
`MCKeyWin` check wild states but look no further (constraint `Tame`): the model stops there, and `CloseCompletes` holds of every behaviour that ends so.

### Fairness

* `MTask!Fairness`: the timer interrupt comes again and again (`TimeSlice`), and task_a, when it has the processor,
  goes on with its loop, which has no step that waits. Nothing is assumed of consoles: an application may
  compute for ever, and `Responsive` holds all the same. `RoundRobin` is relative: as long as time slices of consoles keep ending and consoles
  are not closed for ever, no console is passed over. An endless stream of events for task_a starves consoles, as
  level 1 goes first; that is what levels are for. Consoles that sleep at each slice can keep a third from its turn, as the comment at `RoundRobin` says.
* `Timer!TickSpec`: ticks never end. `Tick` is always enabled, so this is weak fairness, written so that
  TLC need not evaluate `ENABLED`.
* `Timer!FairSpec`: consoles go on with what they are in the middle of, and take their events. That they get the processor
  is what `RoundRobin` shows. An application may run for ever; `CursorBlinks` is about consoles that stay in their loop.
* `KeyWin!FairSpec`: task_a takes its messages (`Responsive`), and consoles go on with their own code (`Proceed`). Applications need not, so that `CloseCompletes`
  leaves out a console whose application does not ask for keys. Once the application has taken the message to close, it goes on to act on it, as that is code of `hrb_api`
and waits for nothing.
* `Input!Spec`: the processor executes its program; an interrupt that is asked for while interrupts are on again and again is taken in the end, hence strong
  fairness of the handlers. Devices owe nothing. `Resync` assumes that mouse bytes go on being taken, no more are dropped, and from some point on only
  first bytes look like one: bit 3 of the others is arbitrary.
* `KeyCmd!FairSpec`: `HariMain` and interrupts go on, and a keyboard that is asked again and again accepts in the end (strong, as it may refuse in between).
* Memory and sheets have no liveness properties: their calls return.

## 4. Findings

1. `mtask_race`: `HariMain` calls `task_run(task_a, 1, 2)` with interrupts on. An interrupt inside `task_remove` that puts an event for task_a
   wakes it at level 0; the comment that the test of `flags` will be passed is wrong then, task_a is entered twice, and
   in the end the processor stays with a task that sleeps. Other calls with interrupts on are exposed in the same way.
2. `timer_free`: an application frees a timer that runs; it stays on the list though free, against the comment at
   `timer.c:101`, and is handed out again while linked.
3. `sheet_mouse`: F11 with no window on the screen puts the mouse below the background, and the next
   window below it as well, against the comment at `console.c:453`.
4. `keywin_null`: when the close button hides the last console, `key_win` becomes the background, not null; the next character
   goes to the FIFO of a task that does not exist, against the comment at `bootpack.c:154`.

Seen while modelling, with no run, as no comment or test of the repository says anything else:

* `api_getkey` takes the message to close at `console.c:516`, turns interrupts on, and acts on it at `529` to `535`. An application that is broken in between
  (`bootpack.c:216` to `226`, `291` to `298`) ends with the message taken and `cons->sht` still set. The close button has hidden the window before: the
  console lives on, hidden, and nobody can tell it to close again (`CutOff` in `KeyWin`).
* A console says that it stops, or that it lets go of its window, with `fifo32_put` (`console.c:291`, `293`, `532`), which drops the message when the FIFO of task_a is
  full (`fifo.c:23`). Nobody looks at the result. The console then sleeps for ever and keeps its slot, and its sheet stays taken (`Unheard`).
* A click on the close button of an application's window while `cmd_app` is freeing windows (`console.c:394` to `400`) sends the task to `asm_end_app` a second
  time, with a stack frame that is gone (`CloseApp`).
* `task_alloc` hands out 1000 slots, while the queue of a level has 100 entries and `task_add` (`mtask.c:17`) does
  not look (`Fits`, section 5).

## 5. What is proved

Theorems hold for all values of the constants; TLC has checked each of these formulas before. Every invariant that a run checks, but those of
`MTaskRace`, is stated by a theorem, and so is each of the refinements. The only hypotheses beyond the assumptions
on constants are `NonEmptyRequests` (memory) and `[]Fits`, or `[]Few(ctl)`, (multitasking), both explained below.

**Memory manager** (`MemManProofs`, `MemManRefinement`). `TypeCorrect` and `NoDoubleAllocation` need only the assumption on
the constants. `TableSorted`, `NothingAstray` and `ImplementsHeap` assume `NonEmptyRequests`, that no caller
asks for 0 bytes. Without it the table can hold an entry of size 0: `file_loadfile2` asks for 0 bytes for an empty file
(`file.c:81`), gets the start of a free area, and its release may enter an area of size 0. The inductive invariants are `SafeInv`,
that everything that is held, lost, free or still to be donated at boot is apart from everything else, and `SortedInv`, which adds that entries
are sorted, not empty and do not touch. Sortedness is
what makes joining right: the release finds its position by address, and joins only with its neighbours there, so that if an entry
touched another one beyond them, the next first fit could be wrong and the refinement would fail. For the
refinement, each of the cases of alloc and free maps to the step of `Heap` with the same bytes; that first fit
refuses only what fits nowhere needs `Coalesced`, and that a full table means that many separate runs does too.

`NothingAstray` states `Conservation`: what was donated is free, held or booked in `lostsize`. It needs two kinds of sums. That of the table is a function
along its entries; a lemma for each of the four ways to enter a block, and for taking some of an entry or all of it, says by how much the sum changes
(induction along the entries). That of the blocks held is a fold over a set, which takes out any element first; a lemma shows that it may be the one that
matters. It needs `NonEmptyRequests` because two empty blocks with one address are one element of the set of lost blocks, but count twice in `losts`.

**Multitasking** (`MTaskProofs`). `TypeCorrect`, `RunQueuesKept`, `CurrentTaskKnown`, `TopLevelKept`, `WakeupsKept` and
`SlotsReused` are about behaviours in which `Fits` always holds: no level has more than `MAX_TASKS_LV` (100) tasks awake. `task_add` does not look,
and writes behind the array otherwise. As a behaviour may stutter for ever at any point, the theorems cover every behaviour up to
its first overflow. `FewSuffice` says when there is none: `Fits` holds as long as no more tasks are in being at once than a level has entries, so that with 98 consoles
or fewer the other theorems need no hypothesis. It is proved with the same invariant, by counting: the queue of a level is an injection into the tasks that are
in being, and the one that is entered is not in it yet. The inductive
invariant `IInv` has three parts:

* `Base`: the tables are sound (queue of a level = tasks awake at that level, each once; `now` inside, but for level 0 after
  boot), FIFOs are within bounds, every task is at a place of its loop that fits its flags, and slots are free exactly if
  there is no console. `task_remove` and `task_add` are lemmas about tables, proved once and cited for
  each action that wakes or puts to sleep;
* `NoLostWakeup`: needs that `Sleep` tests the FIFO in the same step, and that every put wakes the owner;
* `Messages`: an exit message names a console that has stopped for good, and there is at most one of it. Without this, `CloseConstask` could
  free a slot that has been taken again.

Three theorems prove the part of the liveness properties that fairness has nothing to do with, as properties of single steps:

* `SliceToTaskA` (for `Responsive`): a time slice that ends while task_a is awake leaves the processor to it. Fairness adds that slices end.
* `ExitsCarriedOut` (for `ExitCompletes`): an exit message only moves up in task_a's FIFO, leaves it when task_a takes it, and what
  task_a has taken it closes before it does anything else. Fairness adds that task_a goes on.
* `TurnsKept` (for `RoundRobin`): while a console is awake and waits, no other awake one gets in front of it, and one whose slice ends is behind it. This
  is where `now` must be right after each shift of the queue. One that sleeps may be entered in front again, which is why `RoundRobin` has the
  condition it has.

**Timers** (`TimerProofs`), for any number of timers and consoles; assumed is only that there is a longest time, as the time is an `unsigned int`. `ListKept`, `PostsKept` and
`CursorKept` follow from `IInv`:

* `Listed`: there is a sequence of timers, from `t0` to the sentinel, each linked to the next, with the times in order, and it has the running
  timers, each once. The functions of `timer.c` are lemmas about such a sequence: what `timer_settime` returns has the
  timer in it at its place (at the head, inside, before the sentinel), what `timer_cancel` returns lacks it, and an interrupt drops those at the
  front that are due;
* `Held`: who has which timer, and with which `flags`, `owner` and `flags2`. It is what makes `timer_cancelall`, which goes by `flags2` and the FIFO alone,
  cancel the timer of the application and not the cursor's;
* `Alive`: the cursor timer of a console runs or has one event on the way, never both.

`ListSound` gives the list as a function `Walk` along the links; that it is the sequence above is shown by `Counting`, induction up to a number, which
is had from the well-foundedness of `<` with a set in the place of a predicate. `ImplementsClock` maps a running timer to an alarm: a tick is a tick, linking a timer sets an alarm, and cancelling
at the three places where that is done cancels; all other steps change nothing.

**Sheets** (`SheetProofs`), for any number of sheets and pixels and any images: `StackKept`, `MapKept` and `ImplementsLayers`. The
invariant is that the arrays are the inverse of each other (`Sound`), and that at each pixel where a sheet is uppermost both `map[]` and the screen show it
(`Current`). The latter is the stronger form of `MapCurrent` that is inductive: the code repaints from a height on and within an area, so that
each call needs that outside of these nothing was out of date and that nothing there has another uppermost sheet now (`Repainted`). Lowering, raising, hiding and
showing are a lemma each about the arrays (`LowerStack` and so on, with the shifts done one by one as in the code) and a lemma each about what stays uppermost. `Started` says who is up while
`HariMain` boots. For the refinement, the order of sheets is the array; taking a sheet out and putting it in leaves the others in order (`SameRest`).
Of `sheet_updown`, the branch that raises a sheet that is up already to `top + 1`, which its own check lets pass, is left out by hypothesis of the
lemma: it would read an entry that is not set, and no caller asks for it.

**Input of 10_day** (`InputProofs`), with no assumption but that ring buffers have at least one place. `TypeCorrect` and `NeverHaltsOnInput` come from one invariant: in each ring the write
index is where the waiting bytes end (`RingSound`), interrupts are off from the test to `stihlt`, and nothing waits at `stihlt` or while the processor
is halted. `ImplementsQueues` follows from lemmas on one ring: a put appends to what waits or drops and remembers it, a get takes the first away; interrupts
and the loop each touch one end. `PacketsStay` looks at the bytes between device and decoder as one chain (ring, port, next byte): all steps but a drop or a refused first byte keep
each byte the successor of the one before.

**Windows** (`KeyWinProofs`): `TypeCorrect`, `ExitsSettled`, `ButtonsSafe` and `OneHighlight`, for any number of sheets and consoles and any
size of FIFOs. None of these is inductive; `IInv` adds

* `Screen`: each sheet is in the stack once, background and mouse always, nothing that is free or half open; and a sheet has a task exactly if it is the
  window of a console or an application;
* `Lights`: a lit title is that of `key_win` or, after finding 4, the background;
* `Owners`: a console and its window name each other, until the console lets go of the window, and then a message that asks for the window to be given back is waiting, or was lost;
* `Messages`: besides `ExitsMatch`, a console asks for its window before it asks for itself;
* `CloseOnce`: a console is told to close once, after its window was hidden (stated as `ToldOnce`). This is what keeps a console from
  sending two exit messages: who has lost its window has no second close message to find;
* `Forgotten`: what a lost message was about stays as it is for good: a hidden window, or a console that has stopped. No later message names it;
* `Opening`: the sheet and the console that somebody is opening are still there, and not on the screen.

Each action has a lemma that it keeps `IInv`. Most leave windows and messages alone (`Quiet`, `Calm`), change one console (`Step`), or make something
disappear together with all that refers to it (`Departs`), and these three are proved once.

`ClosersLeave` and `StoppedReported` are the part of `CloseCompletes` that needs no fairness. A console that was told to close, has no window, or has stopped, stays on its way
whatever task_a and others do, until task_a closes it; the one exception is the step that cuts it off, when its application is broken between `GetkeyTake` and
`GetkeyClose`. Whenever a console has stopped, its message waits for task_a or is among the lost ones. Both exceptions are what the code does (section 4), and they are the
ones that `CloseCompletes` makes. What is left to fairness is that the console takes its events and task_a its messages.

**Keyboard commands** (`KeyCmdProofs`): `TypeCorrect`, `AnswersMatched` and `PairsKept`, for any locks and any sizes of the two FIFOs. `OneOutstanding`
counts answers; the invariant names where the byte that waits is instead (`Turn`): nowhere, on the wire, answered at the port, or answered in the FIFO, where
exactly one event is an answer. `InPairs` looks at all that the keyboard will get as one sequence; the invariant says it of `keycmd` alone (`Paired`),
with the number of bytes that are gone before it (`Begun`, at most two) as an offset, so that a send, an answer and a refusal only move
the offset. Both hold only until a FIFO overruns, and the theorems say so as the properties do.

**Only model-checked:** liveness (`Responsive`, `RoundRobin`, `ExitCompletes`, `TimersFire`, `CursorBlinks`, `CloseCompletes`, `Resync`, `Served`, `LedsFollow`), which is beyond
the prover, but for the steps named above; and `MTaskRace`, `NothingLeft` and what the other findings refute, which do not hold.

## 6. What is not modelled

* Calls of `memman`, `sheet_*`, `task_alloc`, `timer_alloc` are single steps also in harib27f, where a time slice can end inside. The
  hazards list where that bites; splitting them is planned.
* `Shift+F1` while an application is between the two halves of `timer_settime`, and timers that are set while they run.
* Text of the command line, its other commands, the rest of the API, files, decompression, drawing, the start of the machine in assembly, descriptors.
  They compute on data and keep no state that outlives a call, or are written once.
* Key codes, shift keys and the movement of the pointer: translation of data.
* Earlier days, sample projects other than the last, tools, compilers and libraries: other versions of the same code, or third party. They are nearly all of the
  repository's lines, so that the models cover a small share of these and most of what the two programs do.

## 7. Plan

1. The allocators split at every line where a time slice can end (`memman` in harib27f, `task_alloc`, `timer_alloc`,
   `sheet_alloc`, `open_constask` between `task_run` and `fifo32_init`), and `sheet_refresh` against `sheet_slide`.
2. `Timer` with applications that set timers that are already set, with Shift+F1 at any moment, and with the characters that a console may take
   the events of an ended application's timers for.
3. The command line and FAT chains (`file.c`) against a definition of what a file is; file handles of applications.
4. Proofs: the steps that `CursorBlinks`, `LedsFollow` and `Resync` rest on, as done for the liveness of `MTask` and `KeyWin`; that what `MTask` shows of
   consoles carries over to the consoles of `Timer` and `KeyWin`; and the theorems for whatever items 1 to 3 add.

The order is by how much of the system depends on the part.
