------------------------------- MODULE Timer -------------------------------
(***************************************************************************)
(* The timers of harib27f (timer.c): timers0[], the list of running timers  *)
(* ordered by timeout behind t0, and its clients: the scheduler, whose task *)
(* timer is set again inside the interrupt handler, and the consoles with   *)
(* their cursor timers and the timers of the applications they run.         *)
(*                                                                          *)
(* Times are kept relative to timerctl.count: left[t] is timeout - count.   *)
(* What happens after 2^32 ticks is therefore left out.  A time that has    *)
(* run out counts as 0.                                                     *)
(***************************************************************************)
EXTENDS Integers, SequencesExt

CONSTANTS
    MAX_TIMER,      \* 500
    FIFO_SIZE,      \* 128
    Consoles,
    CursorTime,     \* 50
    Slices,         \* priorities of tasks, the lengths of their time slices
    AppTimes        \* what applications wait for

Times == {CursorTime} \cup Slices \cup AppTimes

ASSUME TimerAssumption ==
    /\ MAX_TIMER \in Nat /\ MAX_TIMER >= 2
    /\ FIFO_SIZE \in Nat \ {0}
    /\ CursorTime \in Nat \ {0} /\ Slices \subseteq Nat \ {0} /\ Slices # {}
    /\ AppTimes \subseteq Nat
    /\ \E longest \in Times : \A n \in Times : n <= longest     \* they are unsigned int

VARIABLES
    tm,         \* timerctl: t0, next, and link (TIMER.next), left, flags per timer
    flags2,     \* of each timer: whether timer_cancelall takes it
    owner,      \* of each timer: the console whose FIFO it posts to
    mode,       \* of each console: closed, shell, app or leaving
    cursor,     \* of each console: cons.timer
    appTimer,   \* of each console: the timer its application holds
    setting,    \* of each console: the timer its timer_settime has not linked yet
    fifo        \* of each console: its events, and FLAGS_OVERRUN

vars == <<tm, flags2, owner, mode, cursor, appTimer, setting, fifo>>

Timers == 0 .. (MAX_TIMER - 1)
SENTINEL == 0               \* the first that timer_alloc returns
TASK_TIMER == 1             \* the second
NIL == -1                   \* a null pointer
Nobody == "nobody"
CURSOR == 0                 \* data 0 or 1
OTHER_EVENT == 1            \* data from 256: keys, and the timers of applications
FOREVER == -1               \* the sentinel's timeout

FREE == 0
ALLOC == 1                  \* TIMER_FLAGS_ALLOC
USING == 2                  \* TIMER_FLAGS_USING

-----------------------------------------------------------------------------
(* timer.c, as functions on a state s of timerctl *)

\* The timers on the list, in order, and NIL behind the last.
After(s, t) == IF t = NIL THEN NIL ELSE s.link[t]

Walk(s) ==
    LET at[k \in 0 .. MAX_TIMER] == IF k = 0 THEN s.t0 ELSE After(s, at[k - 1])
    IN  at

\* timeout <= t->timeout
NotAfter(x, s, t) == s.left[t] = FOREVER \/ x <= s.left[t]

\* Where timer_settime's search for x stops.
Place(s, x) ==
    LET at == Walk(s) IN
    CHOOSE k \in 0 .. (MAX_TIMER - 1) :
        /\ at[k] # NIL /\ NotAfter(x, s, at[k])
        /\ \A j \in 0 .. (k - 1) : ~NotAfter(x, s, at[j])

\* timer_settime up to io_cli.
Prepared(s, t, n) == [s EXCEPT !.left[t] = n, !.flags[t] = USING]

\* And from there on.
Link(s, t) ==
    LET k == Place(s, s.left[t]) IN
    IF k = 0 THEN [s EXCEPT !.t0 = t, !.link[t] = s.t0, !.next = s.left[t]]
    ELSE [s EXCEPT !.link[Walk(s)[k - 1]] = t, !.link[t] = Walk(s)[k]]

\* inthandler20: count++, then the timers that are due.
Later(n) == IF n = FOREVER THEN FOREVER ELSE IF n = 0 THEN 0 ELSE n - 1

Counted(s) ==
    [s EXCEPT !.next = Later(@), !.left = [t \in Timers |-> Later(@[t])]]

\* mutant: the handler stops at the first timer that is due
DueOne(s) == IF s.next # 0 THEN 0 ELSE 1

\* How many timers from t0 on are due.
Due(s) ==
    IF s.next # 0 THEN 0
    ELSE LET at == Walk(s) IN
         CHOOSE k \in 0 .. (MAX_TIMER - 1) :
            s.left[at[k]] # 0 /\ \A j \in 0 .. (k - 1) : s.left[at[j]] = 0

Expired(s) == [k \in 1 .. Due(s) |-> Walk(s)[k - 1]]

Fired(s) ==
    LET first == Walk(s)[Due(s)]
        due == ToSet(Expired(s))
    IN
    [s EXCEPT !.flags = [t \in Timers |-> IF t \in due THEN ALLOC ELSE @[t]],
              !.t0 = first, !.next = s.left[first]]

\* mutant: a timer is unlinked from the head only
TimerCancelHead(s, t) ==
    IF s.flags[t] # USING THEN s
    ELSE IF t = s.t0
    THEN [s EXCEPT !.t0 = s.link[t], !.next = s.left[s.link[t]], !.flags[t] = ALLOC]
    ELSE [s EXCEPT !.flags[t] = ALLOC]

\* timer_cancel.
TimerCancel(s, t) ==
    IF s.flags[t] # USING THEN s
    ELSE IF t = s.t0
    THEN [s EXCEPT !.t0 = s.link[t], !.next = s.left[s.link[t]], !.flags[t] = ALLOC]
    ELSE LET before == CHOOSE p \in ToSet(Walk(s)) \ {NIL} : s.link[p] = t
         IN  [s EXCEPT !.link[before] = s.link[t], !.flags[t] = ALLOC]

-----------------------------------------------------------------------------
(* fifo.c, on the FIFOs f of the consoles *)

Empty == [q |-> <<>>, overrun |-> FALSE]

\* mutant: the room is checked one event late
FifoPutLate(f, c, e) ==
    IF Len(f[c].q) > FIFO_SIZE THEN [f EXCEPT ![c].overrun = TRUE]
    ELSE [f EXCEPT ![c].q = Append(@, e)]

FifoPut(f, c, e) ==
    IF Len(f[c].q) = FIFO_SIZE THEN [f EXCEPT ![c].overrun = TRUE]
    ELSE [f EXCEPT ![c].q = Append(@, e)]

FifoGet(c) == fifo' = [fifo EXCEPT ![c].q = Tail(@)]

-----------------------------------------------------------------------------
(* The interrupt handler *)

\* The event of an expired timer; the task timer has none.
Post(f, t) ==
    IF t = TASK_TIMER THEN f
    ELSE FifoPut(f, owner[t], IF flags2[t] = 0 THEN CURSOR ELSE OTHER_EVENT)

Posted(due) ==
    LET put[k \in 0 .. Len(due)] == IF k = 0 THEN fifo ELSE Post(put[k - 1], due[k])
    IN  put[Len(due)]

\* task_switch sets the task timer again, for the next task's time slice.
Tick ==
    LET counted == Counted(tm)
        due == Expired(counted)
        s == Fired(counted)
    IN  /\ fifo' = Posted(due)
        /\ IF TASK_TIMER \in ToSet(due)
           THEN \E n \in Slices : tm' = Link(Prepared(s, TASK_TIMER, n), TASK_TIMER)
           ELSE tm' = s
    /\ UNCHANGED <<flags2, owner, mode, cursor, appTimer, setting>>

-----------------------------------------------------------------------------
(* The consoles *)

Init ==
    /\ \E n \in Slices :
          tm = Link(Prepared([t0 |-> SENTINEL, next |-> FOREVER,
                              link |-> [t \in Timers |-> NIL],
                              left |-> [t \in Timers |-> IF t = SENTINEL THEN FOREVER ELSE 0],
                              flags |-> [t \in Timers |-> IF t = SENTINEL THEN USING ELSE FREE]],
                             TASK_TIMER, n), TASK_TIMER)
    /\ flags2 = [t \in Timers |-> 0]
    /\ owner = [t \in Timers |-> Nobody]
    /\ mode = [c \in Consoles |-> "closed"]
    /\ cursor = [c \in Consoles |-> NIL]
    /\ appTimer = [c \in Consoles |-> NIL]
    /\ setting = [c \in Consoles |-> NIL]
    /\ fifo = [c \in Consoles |-> Empty]

\* timer_alloc; the callers use what it returns without looking at it, and what
\* they do with a null pointer is left out.
TimerAlloc(t) == tm.flags[t] = FREE /\ \A u \in 0 .. (t - 1) : tm.flags[u] # FREE

\* timer_init, and flags2, which timer_alloc clears and hrb_api may set.
TimerInit(t, c, auto) ==
    /\ owner' = [owner EXCEPT ![t] = c]
    /\ flags2' = [flags2 EXCEPT ![t] = auto]

\* timer_settime, up to io_cli.
TimerSettime(c, t, n) ==
    /\ tm' = Prepared(tm, t, n)
    /\ setting' = [setting EXCEPT ![c] = t]

\* The start of console_task, with a window or (the ncst command) without.
Open(c) ==
    /\ mode[c] = "closed"
    /\ \/ \E t \in Timers :
             /\ TimerAlloc(t)
             /\ TimerInit(t, c, 0)
             /\ TimerSettime(c, t, CursorTime)
             /\ cursor' = [cursor EXCEPT ![c] = t]
       \/ UNCHANGED <<tm, flags2, owner, cursor, setting>>
    /\ mode' = [mode EXCEPT ![c] = "shell"]
    /\ fifo' = [fifo EXCEPT ![c] = Empty]
    /\ UNCHANGED appTimer

\* The rest of timer_settime, with interrupts off.
LinkTimer(c) ==
    /\ setting[c] # NIL
    /\ tm' = Link(tm, setting[c])
    /\ setting' = [setting EXCEPT ![c] = NIL]
    /\ UNCHANGED <<flags2, owner, mode, cursor, appTimer, fifo>>

Runs(c, m) == mode[c] = m /\ setting[c] = NIL

Waits(c, e) ==
    /\ mode[c] # "closed" /\ setting[c] = NIL
    /\ fifo[c].q # <<>> /\ Head(fifo[c].q) = e

\* mutant: api_getkey drops the event and does not order the next
KeepCursorInShell(c) == cursor[c] # NIL /\ mode[c] = "shell"

\* Both test cons.sht != 0: a console without a window has no cursor.
KeepCursor(c) == cursor[c] # NIL

\* console_task, or api_getkey for its application, takes an event.
TakeCursor(c) ==
    /\ Waits(c, CURSOR)
    /\ FifoGet(c)
    /\ IF KeepCursor(c) THEN TimerSettime(c, cursor[c], CursorTime)
       ELSE UNCHANGED <<tm, setting>>
    /\ UNCHANGED <<flags2, owner, mode, cursor, appTimer>>

\* A key, which may be the end of a command that starts an application.
TakeOther(c) ==
    /\ Waits(c, OTHER_EVENT) /\ mode[c] # "leaving"
    /\ FifoGet(c)
    /\ \/ UNCHANGED mode
       \/ mode[c] = "shell" /\ mode' = [mode EXCEPT ![c] = "app"]
    /\ UNCHANGED <<tm, flags2, owner, cursor, appTimer, setting>>

\* Keys, and what else task_a passes on.
Key(c) ==
    /\ mode[c] # "closed"
    /\ fifo' = FifoPut(fifo, c, OTHER_EVENT)
    /\ UNCHANGED <<tm, flags2, owner, mode, cursor, appTimer, setting>>

\* cmd_exit, and the release of the FIFO by close_constask: on a command, on
\* the close button, or because the window is gone when a command has ended.
Exit(c) ==
    /\ \/ mode[c] = "shell" /\ Waits(c, OTHER_EVENT)
       \/ mode[c] = "leaving"
    /\ tm' = IF cursor[c] # NIL THEN TimerCancel(tm, cursor[c]) ELSE tm
    /\ mode' = [mode EXCEPT ![c] = "closed"]
    /\ cursor' = [cursor EXCEPT ![c] = NIL]
    /\ fifo' = [fifo EXCEPT ![c] = Empty]
    /\ UNCHANGED <<flags2, owner, appTimer, setting>>

-----------------------------------------------------------------------------
(* The applications *)

\* The first two timer functions of hrb_api.
AppAlloc(c) ==
    /\ Runs(c, "app") /\ appTimer[c] = NIL
    /\ \E t \in Timers :
          /\ TimerAlloc(t)
          /\ tm' = [tm EXCEPT !.flags[t] = ALLOC]
          /\ TimerInit(t, c, 1)
          /\ appTimer' = [appTimer EXCEPT ![c] = t]
    /\ UNCHANGED <<mode, cursor, setting, fifo>>

AppIdles(c) == Runs(c, "app") /\ appTimer[c] # NIL /\ tm.flags[appTimer[c]] # USING

\* The third: like the applications of harib27f, on a timer that does not run.
AppSet(c, n) ==
    /\ AppIdles(c)
    /\ TimerSettime(c, appTimer[c], n)
    /\ UNCHANGED <<flags2, owner, mode, cursor, appTimer, fifo>>

TimerFree(c) ==
    /\ tm' = [tm EXCEPT !.flags[appTimer[c]] = FREE]
    /\ appTimer' = [appTimer EXCEPT ![c] = NIL]
    /\ UNCHANGED <<flags2, owner, mode, cursor, setting, fifo>>

AppFree(c) == AppIdles(c) /\ TimerFree(c)

\* The close button of an application's console, in api_getkey.
CloseWindow(c) ==
    /\ mode[c] = "app" /\ Waits(c, OTHER_EVENT) /\ cursor[c] # NIL
    /\ FifoGet(c)
    /\ tm' = TimerCancel(tm, cursor[c])
    /\ cursor' = [cursor EXCEPT ![c] = NIL]
    /\ UNCHANGED <<flags2, owner, mode, appTimer, setting>>

\* mutant: running timers are left alone
BelongsAndIdles(s, t, c) == s.flags[t] = ALLOC /\ flags2[t] # 0 /\ owner[t] = c

Belongs(s, t, c) == s.flags[t] # FREE /\ flags2[t] # 0 /\ owner[t] = c

CancelMine(s, t, c) ==
    IF Belongs(s, t, c) THEN [TimerCancel(s, t) EXCEPT !.flags[t] = FREE] ELSE s

TimerCancelall(c) ==
    LET after[i \in 0 .. MAX_TIMER] ==
            IF i = 0 THEN tm ELSE CancelMine(after[i - 1], i - 1, c)
    IN  after[MAX_TIMER]

\* The end of cmd_app.
AppEnd(c) ==
    /\ Runs(c, "app")
    /\ tm' = TimerCancelall(c)
    /\ mode' = [mode EXCEPT ![c] = IF cursor[c] = NIL THEN "leaving" ELSE "shell"]
    /\ appTimer' = [appTimer EXCEPT ![c] = NIL]
    /\ UNCHANGED <<flags2, owner, cursor, setting, fifo>>

Step(c) ==
    \/ Open(c) \/ LinkTimer(c) \/ TakeCursor(c) \/ TakeOther(c) \/ Exit(c)
    \/ AppAlloc(c) \/ AppFree(c) \/ CloseWindow(c) \/ AppEnd(c)
    \/ \E n \in AppTimes : AppSet(c, n)

Next == Tick \/ \E c \in Consoles : Step(c) \/ Key(c)

Spec == Init /\ [][Next]_vars

\* The timer chip keeps ticking; Tick is always enabled.
TickSpec == Spec /\ []<><<Tick>>_vars

\* And consoles get the processor.
FairSpec ==
    /\ TickSpec
    /\ \A c \in Consoles : WF_vars(LinkTimer(c)) /\ WF_vars(TakeCursor(c)) /\ WF_vars(TakeOther(c))

-----------------------------------------------------------------------------
(* What applications can also do *)

\* An application frees its timer while it runs.
AppFreeRunning(c) ==
    /\ Runs(c, "app") /\ appTimer[c] # NIL /\ tm.flags[appTimer[c]] = USING
    /\ TimerFree(c)

FreeSpec == Init /\ [][Next \/ \E c \in Consoles : AppFreeRunning(c)]_vars

-----------------------------------------------------------------------------
(* Properties *)

Pointers == Timers \cup {NIL}
Lefts == {FOREVER} \cup 0 .. Max(Times)

\* The variables keep their types; FIFOs never hold more than they have room
\* for.
TypeOK ==
    /\ tm \in [t0 : Timers, next : Lefts, link : [Timers -> Pointers],
               left : [Timers -> Lefts], flags : [Timers -> {FREE, ALLOC, USING}]]
    /\ flags2 \in [Timers -> 0 .. 1]
    /\ owner \in [Timers -> Consoles \cup {Nobody}]
    /\ mode \in [Consoles -> {"closed", "shell", "app", "leaving"}]
    /\ cursor \in [Consoles -> Pointers]
    /\ appTimer \in [Consoles -> Pointers]
    /\ setting \in [Consoles -> Pointers]
    /\ fifo \in [Consoles -> [q : Seq({CURSOR, OTHER_EVENT}), overrun : BOOLEAN]]
    /\ \A c \in Consoles : Len(fifo[c].q) <= FIFO_SIZE

Setting == {setting[c] : c \in Consoles}
Running == {t \in Timers : tm.flags[t] = USING} \ Setting

\* The list behind t0 holds the running timers, each once, ordered by timeout,
\* and ends at the sentinel; timerctl.next is the timeout of its head.
ListSound ==
    LET n == Cardinality(Running) - 1
        at == Walk(tm)
    IN  /\ {at[k] : k \in 0 .. n} = Running
        /\ at[n] = SENTINEL
        /\ \A k \in 0 .. (n - 1) : NotAfter(tm.left[at[k]], tm, at[k + 1])
        /\ tm.next = tm.left[tm.t0]

\* A timer that runs posts to a console that is open and waits for it: closing
\* a console or ending an application leaves no timer behind.
PostsWanted ==
    \A t \in Running \ {SENTINEL, TASK_TIMER} :
        LET c == owner[t] IN
        /\ c \in Consoles /\ mode[c] # "closed"
        /\ t = cursor[c] \/ (t = appTimer[c] /\ mode[c] = "app")

\* Unless its FIFO has overrun, a console's cursor timer never stops: it runs,
\* or it has just one event on the way, and never both.
CursorAlive ==
    \A c \in Consoles : mode[c] # "closed" /\ cursor[c] # NIL /\ ~fifo[c].overrun =>
        LET runs == tm.flags[cursor[c]] = USING
            events == {k \in 1 .. Len(fifo[c].q) : fifo[c].q[k] = CURSOR}
        IN  IF runs THEN events = {} ELSE Cardinality(events) = 1

\* The times of the timers on the list.
ListedLeft ==
    LET listed == ToSet(Walk(tm))
    IN  [t \in Timers \ {SENTINEL} |-> IF t \in listed THEN tm.left[t] ELSE -1]

\* The list does what a set of alarms does: each tick fires what is due.
Clock == INSTANCE AlarmClock WITH
    Alarms <- Timers \ {SENTINEL},
    Delays <- Lefts \ {FOREVER},
    left <- ListedLeft

ClockSpec == Clock!Spec

\* A timer that runs fires or is cancelled, though others are set before it.
\* (The task timer fires and runs on in one step.)
TimersFire == \A t \in Timers \ {SENTINEL, TASK_TIMER} : t \in Running ~> t \notin Running

\* The cursor of a console that stays open goes on blinking, unless its FIFO
\* overruns.
CursorBlinks ==
    \A c \in Consoles :
        (<>[](mode[c] = "shell" /\ cursor[c] # NIL /\ ~fifo[c].overrun)) => []<>(setting[c] # NIL)

\* The comment at timer.c:101: all timers on the list are in use.
ListedAreUsing == \A t \in ToSet(Walk(tm)) \ {NIL} : tm.flags[t] = USING
=============================================================================
