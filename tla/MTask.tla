------------------------------- MODULE MTask -------------------------------
(***************************************************************************)
(* The multitasking kernel of harib27f: the scheduler of mtask.c, the FIFO  *)
(* wakeup of fifo.c, and the tasks that use them: HariMain (task_a), the    *)
(* idle task and the consoles, which are opened, wait for events, exit and  *)
(* are closed by task_a.                                                    *)
(*                                                                          *)
(* Every call into the scheduler is one step here, as it is under io_cli    *)
(* and in an interrupt handler.  Calls made with interrupts enabled are     *)
(* split in module MTaskRace.  Priorities are left out: the task timer may  *)
(* fire between any two steps.                                              *)
(***************************************************************************)
EXTENDS Integers, Sequences, FiniteSets

CONSTANTS
    MAX_TASKS,          \* slots of tasks0[] (1000 in the code)
    MAX_TASKS_LV,       \* entries of one level's tasks[] (100)
    MAX_TASKLEVELS,     \* 10
    FIFO_SIZE           \* 128

ASSUME MTaskAssumption ==
    /\ MAX_TASKS \in Nat /\ MAX_TASKS >= 2
    /\ MAX_TASKS_LV \in Nat \ {0}
    /\ MAX_TASKLEVELS \in Nat /\ MAX_TASKLEVELS > 3
    /\ FIFO_SIZE \in Nat \ {0}

VARIABLES
    ctl,        \* *taskctl, with flags and level of each task
    cpu,        \* the task the processor runs (TR)
    fifo,       \* the FIFO of each task, oldest event first
    pc,         \* where each task is
    victim      \* the console task_a is about to close

vars == <<ctl, cpu, fifo, pc, victim>>

Tasks == 0 .. (MAX_TASKS - 1)
Levels == 0 .. (MAX_TASKLEVELS - 1)
TASK_A == 0                     \* what task_alloc returns first
IDLE == 1                       \* and second
Consoles == 2 .. (MAX_TASKS - 1)
NoTask == -1                    \* an entry of tasks[] never written
Input == -2                     \* any event that is not an exit message

-----------------------------------------------------------------------------
(* mtask.c, as functions on the scheduler's state s *)

\* task_now: the task the tables say is running.
TaskNow(s) == s.tasks[s.now_lv][s.now[s.now_lv]]

\* A write behind the last entry of tasks[] misses the array.
TaskAdd(s, t) ==
    LET l == s.level[t] IN
    [s EXCEPT !.tasks[l] = [k \in DOMAIN @ |-> IF k = s.running[l] THEN t ELSE @[k]],
              !.running[l] = @ + 1,
              !.flags[t] = 2]

\* Where task_remove's search stops: at t, or behind the last running task.
Found(s, l, t, i) ==
    /\ \A k \in 0 .. (i - 1) : s.tasks[l][k] # t
    /\ i < s.running[l] => s.tasks[l][i] = t

\* mutant: now is not brought back into the queue
FixedNowUnbounded(s, l, i) == IF i < s.now[l] THEN s.now[l] - 1 ELSE s.now[l]

FixedNow(s, l, i) ==
    LET m == IF i < s.now[l] THEN s.now[l] - 1 ELSE s.now[l]
    IN  IF m >= s.running[l] - 1 THEN 0 ELSE m

\* mutant: the shift stops one entry early
TaskRemoveShort(s, t) ==
    LET l == s.level[t]
        i == CHOOSE i \in 0 .. s.running[l] : Found(s, l, t, i)
    IN  [s EXCEPT !.running[l] = @ - 1,
                  !.now[l] = FixedNow(s, l, i),
                  !.flags[t] = 1,
                  !.tasks[l] = [k \in DOMAIN @ |->
                      IF i <= k /\ k < s.running[l] - 2 THEN @[k + 1] ELSE @[k]]]

TaskRemove(s, t) ==
    LET l == s.level[t]
        i == CHOOSE i \in 0 .. s.running[l] : Found(s, l, t, i)
    IN  [s EXCEPT !.running[l] = @ - 1,
                  !.now[l] = FixedNow(s, l, i),
                  !.flags[t] = 1,
                  !.tasks[l] = [k \in DOMAIN @ |->
                      IF i <= k /\ k < s.running[l] - 1 THEN @[k + 1] ELSE @[k]]]

\* The first level with a running task.
Top(s, l) == s.running[l] > 0 /\ \A k \in 0 .. (l - 1) : s.running[k] <= 0

TaskSwitchSub(s) ==
    [s EXCEPT !.now_lv = CHOOSE l \in Levels : Top(s, l), !.lv_change = 0]

\* task_run; SAME stands for a negative level argument.
SAME == -1

Awaken(s, t, lev) ==
    LET l == IF lev < 0 THEN s.level[t] ELSE lev
        r == IF s.flags[t] = 2 /\ s.level[t] # l THEN TaskRemove(s, t) ELSE s
    IN  IF r.flags[t] # 2 THEN TaskAdd([r EXCEPT !.level[t] = l], t) ELSE r

TaskRunQuiet(s, t, lev) == Awaken(s, t, lev)        \* mutant: lv_change forgotten
TaskRun(s, t, lev) == [Awaken(s, t, lev) EXCEPT !.lv_change = 1]

\* task_sleep; a task that puts itself to sleep gives up the processor.
TaskSleep(s, t) ==
    IF s.flags[t] # 2 THEN s
    ELSE IF t = TaskNow(s) THEN TaskSwitchSub(TaskRemove(s, t))
    ELSE TaskRemove(s, t)

GivesUp(s, t) == s.flags[t] = 2 /\ t = TaskNow(s)

\* task_switch.
Advance(s) ==
    LET l == s.now_lv
        n == s.now[l] + 1
    IN  [s EXCEPT !.now[l] = IF n = s.running[l] THEN 0 ELSE n]

\* mutant: the turn is taken from the new level
TaskSwitchLate(s) ==
    IF s.lv_change # 0 THEN Advance(TaskSwitchSub(s)) ELSE Advance(s)

TaskSwitch(s) ==
    IF s.lv_change # 0 THEN TaskSwitchSub(Advance(s)) ELSE Advance(s)

-----------------------------------------------------------------------------
(* fifo.c *)

\* fifo32_put: an event that does not fit is lost and wakes nobody.
FullLate(f, t) == Len(f[t]) > FIFO_SIZE             \* mutant: off by one
Full(f, t) == Len(f[t]) = FIFO_SIZE

\* mutant: the reader is not woken
FifoPutSilent(t, e) ==
    IF Full(fifo, t) THEN UNCHANGED <<fifo, ctl>>
    ELSE fifo' = [fifo EXCEPT ![t] = Append(@, e)] /\ UNCHANGED ctl

FifoPut(t, e) ==
    IF Full(fifo, t) THEN UNCHANGED <<fifo, ctl>>
    ELSE /\ fifo' = [fifo EXCEPT ![t] = Append(@, e)]
         /\ ctl' = IF ctl.flags[t] # 2 THEN TaskRun(ctl, t, SAME) ELSE ctl

-----------------------------------------------------------------------------
(* The tasks *)

Goto(t, label) == pc' = [pc EXCEPT ![t] = label]

Live == {t \in Tasks : pc[t] \notin {"none", "idle"}}

\* After task_init: task_a runs at level 0, the idle task at the last level.
Init ==
    /\ ctl = [flags |-> [t \in Tasks |-> IF t \in {TASK_A, IDLE} THEN 2 ELSE 0],
              level |-> [t \in Tasks |-> IF t = IDLE THEN MAX_TASKLEVELS - 1 ELSE 0],
              running |-> [l \in Levels |-> IF l \in {0, MAX_TASKLEVELS - 1} THEN 1 ELSE 0],
              now |-> [l \in Levels |-> 0],
              tasks |-> [l \in Levels |-> [k \in 0 .. (MAX_TASKS_LV - 1) |->
                            CASE l = 0 /\ k = 0 -> TASK_A
                              [] l = MAX_TASKLEVELS - 1 /\ k = 0 -> IDLE
                              [] OTHER -> NoTask]],
              now_lv |-> 0,
              lv_change |-> 1]
    /\ cpu = TASK_A
    /\ fifo = [t \in Tasks |-> <<>>]
    /\ pc = [t \in Tasks |-> CASE t = TASK_A -> "boot" [] t = IDLE -> "idle" [] OTHER -> "none"]
    /\ victim = IDLE

\* HariMain moves itself to level 1.
Boot ==
    /\ cpu = TASK_A /\ pc[TASK_A] = "boot"
    /\ ctl' = TaskRun(ctl, TASK_A, 1)
    /\ Goto(TASK_A, "boot console")
    /\ UNCHANGED <<cpu, fifo, victim>>

\* open_console and open_constask: the first free slot becomes a console at level 2.
OpenConstask(t) ==
    /\ cpu = t
    /\ t # IDLE
    /\ \/ pc[t] = "busy"
       \/ t = TASK_A /\ pc[t] = "boot console"
    /\ \E s \in Tasks :
          /\ ctl.flags[s] = 0 /\ \A k \in 0 .. (s - 1) : ctl.flags[k] # 0
          /\ ctl' = TaskRun([ctl EXCEPT !.flags[s] = 1], s, 2)
          /\ fifo' = [fifo EXCEPT ![s] = <<>>]
          /\ pc' = [pc EXCEPT ![t] = IF @ = "busy" THEN "busy" ELSE "loop", ![s] = "start"]
    /\ UNCHANGED <<cpu, victim>>

\* console_task, up to its event loop.
Start(t) ==
    /\ cpu = t /\ pc[t] = "start"
    /\ Goto(t, "loop")
    /\ UNCHANGED <<ctl, cpu, fifo, victim>>

\* mutant: the FIFO was looked at before interrupts went off
SleepUnchecked(t) ==
    /\ cpu = t /\ pc[t] = "loop"
    /\ ctl' = TaskSleep(ctl, t)
    /\ cpu' = IF GivesUp(ctl, t) THEN TaskNow(ctl') ELSE cpu
    /\ UNCHANGED <<fifo, pc, victim>>

\* The event loops of HariMain and console_task: with interrupts off, sleep if
\* the FIFO is empty, otherwise take an event.
Sleep(t) ==
    /\ cpu = t /\ pc[t] = "loop"
    /\ fifo[t] = <<>>
    /\ ctl' = TaskSleep(ctl, t)
    /\ cpu' = IF GivesUp(ctl, t) THEN TaskNow(ctl') ELSE cpu
    /\ UNCHANGED <<fifo, pc, victim>>

Take(t) ==
    /\ cpu = t /\ pc[t] = "loop"
    /\ fifo[t] # <<>>
    /\ fifo' = [fifo EXCEPT ![t] = Tail(@)]
    /\ IF Head(fifo[t]) = Input
       THEN Goto(t, "busy") /\ UNCHANGED victim
       ELSE Goto(t, "close") /\ victim' = Head(fifo[t])
    /\ UNCHANGED <<ctl, cpu>>

\* Handling an event: puts into other FIFOs, and an end.
Send(t, u) ==
    /\ cpu = t /\ pc[t] = "busy"
    /\ u \in Live \ {t}
    /\ FifoPut(u, Input)
    /\ UNCHANGED <<cpu, pc, victim>>

\* task_a wakes a console to have its application aborted.
Break(u) ==
    /\ cpu = TASK_A /\ pc[TASK_A] = "busy"
    /\ u \in Consoles /\ pc[u] \in {"loop", "busy"}
    /\ ctl' = TaskRun(ctl, u, SAME)
    /\ UNCHANGED <<cpu, fifo, pc, victim>>

Done(t) ==
    /\ cpu = t /\ pc[t] = "busy"
    /\ Goto(t, "loop")
    /\ UNCHANGED <<ctl, cpu, fifo, victim>>

\* mutant: no endless sleep behind the message
CmdExitReturns(t) ==
    /\ cpu = t /\ t \in Consoles /\ pc[t] = "busy"
    /\ FifoPut(TASK_A, t)
    /\ Goto(t, "loop")
    /\ UNCHANGED <<cpu, victim>>

\* cmd_exit: tell task_a, then sleep for ever.
CmdExit(t) ==
    /\ cpu = t /\ t \in Consoles /\ pc[t] = "busy"
    /\ FifoPut(TASK_A, t)
    /\ Goto(t, "exit")
    /\ UNCHANGED <<cpu, victim>>

ExitSleep(t) ==
    /\ cpu = t /\ pc[t] = "exit"
    /\ ctl' = TaskSleep(ctl, t)
    /\ cpu' = IF GivesUp(ctl, t) THEN TaskNow(ctl') ELSE cpu
    /\ UNCHANGED <<fifo, pc, victim>>

\* close_constask, in task_a.
CloseConstask ==
    /\ cpu = TASK_A /\ pc[TASK_A] = "close"
    /\ ctl' = [TaskSleep(ctl, victim) EXCEPT !.flags[victim] = 0]
    /\ pc' = [pc EXCEPT ![victim] = "none", ![TASK_A] = "loop"]
    /\ victim' = IDLE
    /\ UNCHANGED <<cpu, fifo>>

-----------------------------------------------------------------------------
(* Interrupts *)

\* Keyboard and mouse put into task_a's FIFO, timers into any task's; a
\* console allocates its timers when it starts and cancels them before it exits.
Interrupt(u) ==
    /\ u \in Live /\ pc[u] \notin {"start", "exit"}
    /\ FifoPut(u, Input)
    /\ UNCHANGED <<cpu, pc, victim>>

\* inthandler20 at the end of a time slice.
TimeSlice ==
    /\ ctl' = TaskSwitch(ctl)
    /\ cpu' = IF TaskNow(ctl') # TaskNow(ctl) THEN TaskNow(ctl') ELSE cpu
    /\ UNCHANGED <<fifo, pc, victim>>

Step(t) ==
    \/ OpenConstask(t) \/ Start(t) \/ Sleep(t) \/ Take(t) \/ Done(t) \/ CmdExit(t) \/ ExitSleep(t)
    \/ \E u \in Tasks : Send(t, u)

Next ==
    \/ Boot \/ CloseConstask
    \/ \E t \in Tasks : Step(t)
    \/ \E u \in Consoles : Break(u)
    \/ \E u \in Tasks : Interrupt(u)
    \/ TimeSlice

Spec == Init /\ [][Next]_vars

\* The timer keeps ticking, and task_a, when it has the processor, handles what
\* it took and goes on.  Consoles may compute for ever: applications do.
Fairness ==
    /\ WF_vars(TimeSlice)
    /\ WF_vars(Boot) /\ WF_vars(CloseConstask)
    /\ WF_vars(Sleep(TASK_A)) /\ WF_vars(Take(TASK_A)) /\ WF_vars(Done(TASK_A))
    /\ WF_vars(pc[TASK_A] = "boot console" /\ OpenConstask(TASK_A))

FairSpec == Spec /\ Fairness

-----------------------------------------------------------------------------
(* Properties *)

Ctl == [flags : [Tasks -> 0 .. 2],
        level : [Tasks -> Levels],
        running : [Levels -> Nat],
        now : [Levels -> Nat],
        tasks : [Levels -> [0 .. (MAX_TASKS_LV - 1) -> Tasks \cup {NoTask}]],
        now_lv : Levels,
        lv_change : 0 .. 1]

Labels == {"boot", "boot console", "idle", "start", "loop", "busy", "close", "exit", "none"}

\* The variables keep their types; no index of the tables leaves its range, and
\* no FIFO holds more than it has room for.
TypeOK ==
    /\ ctl \in Ctl
    /\ cpu \in Tasks
    /\ fifo \in [Tasks -> Seq({Input} \cup Consoles)]
    /\ \A t \in Tasks : Len(fifo[t]) <= FIFO_SIZE
    /\ pc \in [Tasks -> Labels]
    /\ victim \in Tasks

\* The arrays never overflow, which task_add does not check.
Fits == \A l \in Levels : ctl.running[l] <= MAX_TASKS_LV

Queue(s, l) == {s.tasks[l][k] : k \in 0 .. (s.running[l] - 1)}
Awake(s, l) == {t \in Tasks : s.flags[t] = 2 /\ s.level[t] = l}

\* The run queue of each level holds exactly the tasks marked running at that
\* level, each once, through every sequence of task_run, task_sleep and the
\* wakeups of interrupt handlers.
RunQueues ==
    /\ Fits
    /\ \A l \in Levels :
          /\ Queue(ctl, l) = Awake(ctl, l)
          /\ \A i, j \in 0 .. (ctl.running[l] - 1) :
                ctl.tasks[l][i] = ctl.tasks[l][j] => i = j

\* The tables name the task that has the processor, and it is not asleep.  The
\* index now stays inside the queue, except at the level task_a left at boot,
\* where task_now still reads the entry task_remove left behind.
CurrentTask ==
    /\ TaskNow(ctl) = cpu
    /\ ctl.flags[cpu] = 2
    /\ \A l \in Levels \ {0} : ctl.now[l] = 0 \/ ctl.now[l] < ctl.running[l]

\* A task above the current level never waits unnoticed: while lv_change is 0
\* the current level is the highest with a running task.
TopLevelWatched == ctl.lv_change = 0 => Top(ctl, ctl.now_lv)

\* No lost wakeup: a task asleep in its event loop has nothing to read.
NoLostWakeup ==
    \A t \in Live : ctl.flags[t] = 1 /\ pc[t] # "exit" => pc[t] = "loop" /\ fifo[t] = <<>>

\* A slot goes back to task_alloc only when nothing of its console is left:
\* it is in no run queue, and no exit message names it.
Pending(u) == \E k \in 1 .. Len(fifo[TASK_A]) : fifo[TASK_A][k] = u

SlotReuse ==
    \A u \in Consoles :
        /\ ctl.flags[u] = 0 <=> pc[u] = "none"
        /\ Pending(u) \/ victim = u => pc[u] = "exit"
        /\ ~(Pending(u) /\ victim = u)

\* An event for task_a gets it the processor, whatever the consoles do.
Responsive == fifo[TASK_A] # <<>> ~> cpu = TASK_A

\* Consoles share their level: each one that wants to run gets its turn, though
\* task_a preempts them, as long as slices keep ending while a console runs and
\* consoles are not closed for ever.  Less would not do: with three consoles two
\* that sleep and are woken in turn keep the index now from coming round to the
\* third, because task_add enters who is woken behind it.
RoundRobin ==
    ([]<><<TimeSlice /\ cpu \in Consoles>>_vars) /\ <>[][~CloseConstask]_vars =>
        \A u \in Consoles : ctl.flags[u] = 2 ~> (cpu = u \/ ctl.flags[u] # 2)

\* A console whose exit message reached task_a is closed.
ExitCompletes == \A u \in Consoles : Pending(u) ~> pc[u] = "none"
=============================================================================
