----------------------------- MODULE MTaskRace -----------------------------
(***************************************************************************)
(* MTask with the scheduler calls that tasks make while interrupts are      *)
(* enabled taken apart: HariMain's task_run at boot, on a new console, and  *)
(* in Break, its fifo32_put to a console, close_constask's task_sleep, and  *)
(* the task_sleep of cmd_exit.  Interrupt handlers still run in one step,   *)
(* between any two of these.                                                *)
(***************************************************************************)
EXTENDS MTask

VARIABLES call      \* the scheduler call each task is in

raceVars == <<vars, call>>

\* at: the next line; on: the task worked on; lev: its new level; i: the loop
\* index of task_remove; next: where the caller of task_remove goes on.
NoCall == [at |-> "none", on |-> IDLE, lev |-> 0, i |-> 0, next |-> "none"]
Run(u, l) == [NoCall EXCEPT !.at = "run", !.on = u, !.lev = l]
Snooze(u) == [NoCall EXCEPT !.at = "sleep", !.on = u]

Inside(t, at) == cpu = t /\ call[t].at = at
Continue(t, at) == call' = [call EXCEPT ![t].at = at]
Return(t) == call' = [call EXCEPT ![t] = NoCall]
Outside(t) == call[t] = NoCall

RaceInit == Init /\ call = [t \in Tasks |-> NoCall]

-----------------------------------------------------------------------------
(* task_remove *)

\* The search, running-- and the correction of now.
RemoveCount(t) ==
    /\ Inside(t, "remove")
    /\ LET u == call[t].on
           l == ctl.level[u]
           i == CHOOSE i \in 0 .. ctl.running[l] : Found(ctl, l, u, i)
       IN  /\ ctl' = [ctl EXCEPT !.running[l] = @ - 1, !.now[l] = FixedNow(ctl, l, i)]
           /\ call' = [call EXCEPT ![t].at = "remove flag", ![t].i = i]
    /\ UNCHANGED <<cpu, fifo, pc, victim>>

RemoveFlag(t) ==
    /\ Inside(t, "remove flag")
    /\ ctl' = [ctl EXCEPT !.flags[call[t].on] = 1]
    /\ Continue(t, "remove shift")
    /\ UNCHANGED <<cpu, fifo, pc, victim>>

RemoveShift(t) ==
    /\ Inside(t, "remove shift")
    /\ LET l == ctl.level[call[t].on] IN
       ctl' = [ctl EXCEPT !.tasks[l] = [k \in DOMAIN @ |->
                  IF call[t].i <= k /\ k < ctl.running[l] THEN @[k + 1] ELSE @[k]]]
    /\ Continue(t, call[t].next)
    /\ UNCHANGED <<cpu, fifo, pc, victim>>

-----------------------------------------------------------------------------
(* task_run *)

RunTest(t) ==
    /\ Inside(t, "run")
    /\ LET u == call[t].on IN
       IF ctl.flags[u] = 2 /\ ctl.level[u] # call[t].lev
       THEN call' = [call EXCEPT ![t].at = "remove", ![t].next = "run awake"]
       ELSE Continue(t, "run awake")
    /\ UNCHANGED vars

\* The second test of flags, and the first line of task_add.
RunAwake(t) ==
    /\ Inside(t, "run awake")
    /\ LET u == call[t].on
           l == call[t].lev
       IN  IF ctl.flags[u] # 2
           THEN /\ ctl' = [ctl EXCEPT !.level[u] = l,
                              !.tasks[l] = [k \in DOMAIN @ |->
                                  IF k = ctl.running[l] THEN u ELSE @[k]]]
                /\ Continue(t, "add count")
           ELSE Continue(t, "lv_change") /\ UNCHANGED ctl
    /\ UNCHANGED <<cpu, fifo, pc, victim>>

AddCount(t) ==
    /\ Inside(t, "add count")
    /\ ctl' = [ctl EXCEPT !.running[call[t].lev] = @ + 1]
    /\ Continue(t, "add flag")
    /\ UNCHANGED <<cpu, fifo, pc, victim>>

AddFlag(t) ==
    /\ Inside(t, "add flag")
    /\ ctl' = [ctl EXCEPT !.flags[call[t].on] = 2]
    /\ Continue(t, "lv_change")
    /\ UNCHANGED <<cpu, fifo, pc, victim>>

LvChange(t) ==
    /\ Inside(t, "lv_change")
    /\ ctl' = [ctl EXCEPT !.lv_change = 1]
    /\ Return(t)
    /\ UNCHANGED <<cpu, fifo, pc, victim>>

-----------------------------------------------------------------------------
(* task_sleep *)

SleepTest(t) ==
    /\ Inside(t, "sleep")
    /\ LET u == call[t].on IN
       IF ctl.flags[u] # 2 THEN Return(t)
       ELSE call' = [call EXCEPT ![t].at = "remove",
                         ![t].next = IF u = TaskNow(ctl) THEN "sleep switch" ELSE "sleep end"]
    /\ UNCHANGED vars

SleepSwitch(t) ==
    /\ Inside(t, "sleep switch")
    /\ ctl' = TaskSwitchSub(ctl)
    /\ Continue(t, "sleep jump")
    /\ UNCHANGED <<cpu, fifo, pc, victim>>

\* task_now and the far jump; the call ends when the task is resumed.
SleepJump(t) ==
    /\ Inside(t, "sleep jump")
    /\ TaskNow(ctl) # NoTask
    /\ cpu' = TaskNow(ctl)
    /\ Return(t)
    /\ UNCHANGED <<ctl, fifo, pc, victim>>

SleepEnd(t) ==
    /\ Inside(t, "sleep end")
    /\ Return(t)
    /\ UNCHANGED vars

-----------------------------------------------------------------------------
(* The callers, up to the call *)

Calls(t, c) == call' = [call EXCEPT ![t] = c]

RaceBoot ==
    /\ cpu = TASK_A /\ pc[TASK_A] = "boot"
    /\ Calls(TASK_A, Run(TASK_A, 1))
    /\ Goto(TASK_A, "boot console")
    /\ UNCHANGED <<ctl, cpu, fifo, victim>>

\* task_alloc and fifo32_init count as one step with the call before them.
RaceOpen(t) ==
    /\ cpu = t /\ Outside(t)
    /\ pc[t] = "busy" \/ (t = TASK_A /\ pc[t] = "boot console")
    /\ \E s \in Tasks :
          /\ ctl.flags[s] = 0 /\ \A k \in 0 .. (s - 1) : ctl.flags[k] # 0
          /\ ctl' = [ctl EXCEPT !.flags[s] = 1]
          /\ fifo' = [fifo EXCEPT ![s] = <<>>]
          /\ pc' = [pc EXCEPT ![t] = IF @ = "busy" THEN "busy" ELSE "loop", ![s] = "start"]
          /\ Calls(t, Run(s, 2))
    /\ UNCHANGED <<cpu, victim>>

\* Puts into a console that has not started yet are left out.
RaceSend(t, u) ==
    /\ cpu = t /\ Outside(t) /\ pc[t] = "busy"
    /\ u \in Live \ {t} /\ pc[u] # "start" /\ ~Full(fifo, u)
    /\ fifo' = [fifo EXCEPT ![u] = Append(@, Input)]
    /\ IF ctl.flags[u] # 2 THEN Calls(t, Run(u, ctl.level[u])) ELSE UNCHANGED call
    /\ UNCHANGED <<ctl, cpu, pc, victim>>

RaceBreak(u) ==
    /\ cpu = TASK_A /\ Outside(TASK_A) /\ pc[TASK_A] = "busy"
    /\ u \in Consoles /\ pc[u] \in {"loop", "busy"}
    /\ Calls(TASK_A, Run(u, ctl.level[u]))
    /\ UNCHANGED vars

RaceExitSleep(t) ==
    /\ cpu = t /\ Outside(t) /\ pc[t] = "exit"
    /\ Calls(t, Snooze(t))
    /\ UNCHANGED vars

RaceClose ==
    /\ cpu = TASK_A /\ Outside(TASK_A) /\ pc[TASK_A] = "close"
    /\ Calls(TASK_A, Snooze(victim))
    /\ Goto(TASK_A, "closing")
    /\ UNCHANGED <<ctl, cpu, fifo, victim>>

RaceCloseEnd ==
    /\ cpu = TASK_A /\ Outside(TASK_A) /\ pc[TASK_A] = "closing"
    /\ ctl' = [ctl EXCEPT !.flags[victim] = 0]
    /\ pc' = [pc EXCEPT ![victim] = "none", ![TASK_A] = "loop"]
    /\ victim' = IDLE
    /\ UNCHANGED <<cpu, fifo, call>>

\* A time slice that would jump to an entry of tasks[] nobody wrote is left
\* out: the machine is lost then, and there is nothing more to say of it.
RaceTimeSlice ==
    /\ LET s == TaskSwitch(ctl) IN
          s.now[s.now_lv] < MAX_TASKS_LV /\ TaskNow(s) # NoTask
    /\ TimeSlice
    /\ UNCHANGED call

InsideCall(t) ==
    \/ RemoveCount(t) \/ RemoveFlag(t) \/ RemoveShift(t)
    \/ RunTest(t) \/ RunAwake(t) \/ AddCount(t) \/ AddFlag(t) \/ LvChange(t)
    \/ SleepTest(t) \/ SleepSwitch(t) \/ SleepJump(t) \/ SleepEnd(t)

RaceNext ==
    \/ \E t \in Tasks : InsideCall(t)
    \/ RaceBoot \/ RaceClose \/ RaceCloseEnd
    \/ \E t \in Tasks \ {IDLE} : RaceOpen(t) \/ RaceExitSleep(t) \/ \E u \in Tasks : RaceSend(t, u)
    \/ \E u \in Consoles : RaceBreak(u)
    \/ \E t \in Tasks :
          Outside(t) /\ (Start(t) \/ Sleep(t) \/ Take(t) \/ Done(t) \/ CmdExit(t)) /\ UNCHANGED call
    \/ RaceTimeSlice
    \/ (\E u \in Tasks : Interrupt(u)) /\ UNCHANGED call

RaceSpec == RaceInit /\ [][RaceNext]_raceVars

-----------------------------------------------------------------------------
(* Properties *)

\* flags 2 means running and 1 asleep (comments at mtask.c:19 and 44): whoever
\* has the processor is a task with flags 2, unless it or an awake task is
\* inside a scheduler call.
AwakeTaskRuns ==
    (\A t \in Tasks : ctl.flags[t] = 2 \/ cpu = t => Outside(t)) =>
        cpu \in {t \in Tasks : ctl.flags[t] = 2}
=============================================================================
