------------------------------- MODULE KeyWin -------------------------------
(***************************************************************************)
(* Windows and the keyboard in harib27f: key_win, the window that keys go   *)
(* to, while consoles and applications open and close windows; the exit     *)
(* messages that consoles send to task_a; the close button and Shift+F1.    *)
(*                                                                          *)
(* task_a is on a higher level than consoles, so that each event it handles *)
(* is one step.  Consoles are interrupted between any two of theirs; a call *)
(* into sheet.c or open_constask is one step.  Boot has ended.  Keys but    *)
(* Enter, and the messages that turn cursors on and off, change nothing     *)
(* here but fill FIFOs: those of consoles are taken to be that much shorter, *)
(* and that of task_a to be full at any time.  Cursor timers and dragging   *)
(* are in Timer and Sheet.                                                  *)
(***************************************************************************)
EXTENDS Integers, Sequences, FiniteSets, SequencesExt

CONSTANTS
    MAX_SHEETS,     \* 256
    MAX_CONSOLES,   \* task slots that task_a and the idle task leave
    FIFO_SIZE,      \* 128
    SYS_SIZE        \* of task_a's FIFO: 128

ASSUME KeyWinAssumption ==
    /\ MAX_SHEETS \in Nat /\ MAX_SHEETS >= 3
    /\ MAX_CONSOLES \in Nat \ {0}
    /\ FIFO_SIZE \in Nat \ {0} /\ SYS_SIZE \in Nat \ {0}

VARIABLES
    ui,     \* sheets, key_win, the FIFOs of consoles
    cons,   \* of each console: where it is, cons.sht, the sheet and the console it is opening
    sys     \* the exit messages in task_a's FIFO, and those it had no room for

vars == <<ui, cons, sys>>

Sids == 0 .. (MAX_SHEETS - 1)
Tasks == 1 .. MAX_CONSOLES
SHT_BACK == 0
SHT_MOUSE == 2
NULL == -1
NOBODY == 0                         \* task of a sheet that has none

CLOSE == 4                          \* what goes into the FIFO of a console
ENTER == 256 + 10

FREE == [kind |-> "free", task |-> NOBODY, lit |-> FALSE]
DESK == [FREE EXCEPT !.kind = "desk"]           \* background and mouse
CLOSED == [pc |-> "none", sht |-> NULL, new |-> NULL, to |-> NOBODY]

-----------------------------------------------------------------------------
(* Functions on ui *)

\* A pointer to nothing was used (null, given back, or from outside an array):
\* nothing is known from then on, and the model stops.
Wild(u) == [u EXCEPT !.wild = TRUE]

Top(u) == Len(u.stack) - 1
Sheets(u, h) == u.stack[h + 1]
Shown(u, s) == \E k \in DOMAIN u.stack : u.stack[k] = s
Height(u, s) == IF Shown(u, s) THEN (CHOOSE k \in DOMAIN u.stack : u.stack[k] = s) - 1 ELSE -1

\* sheet_updown, for the heights that are asked for here.
Without(u, s) == IF Shown(u, s) THEN RemoveAt(u.stack, Height(u, s) + 1) ELSE u.stack

SheetUpdown(u, s, h) ==
    [u EXCEPT !.stack = IF h < 0 THEN Without(u, s) ELSE InsertAt(Without(u, s), h + 1, s)]

SheetFree(u, s) == [SheetUpdown(u, s, -1) EXCEPT !.win[s] = FREE]

\* The sheet that sheet_alloc hands out.
Free(u, s) == u.win[s] = FREE /\ \A t \in 0 .. (s - 1) : u.win[t] # FREE

\* mutant: one too many
PutLate(u, t, m) ==
    IF Len(u.fifo[t]) > FIFO_SIZE THEN u ELSE [u EXCEPT !.fifo[t] = Append(@, m)]

\* fifo32_put, into the FIFO of a console.
Put(u, t, m) ==
    IF Len(u.fifo[t]) = FIFO_SIZE THEN u ELSE [u EXCEPT !.fifo[t] = Append(@, m)]

\* keywin_on and keywin_off.  A sheet that is being opened may have no buffer yet,
\* and that of the mouse is smaller than a title.
Title(u, s, act) ==
    IF s \in {NULL, SHT_MOUSE} \/ (s # NULL /\ u.win[s].kind = "plain") THEN Wild(u)
    ELSE [u EXCEPT !.win[s].lit = act]

KeywinOff(u) == Title(u, u.key_win, FALSE)
KeywinOn(u, s) == Title([u EXCEPT !.key_win = s], s, TRUE)

\* What HariMain does first with every event: key_win may have been closed.
Refresh(u) ==
    IF u.key_win = NULL \/ u.win[u.key_win].kind # "free" THEN u
    ELSE IF Top(u) = 1 THEN [u EXCEPT !.key_win = NULL]
    ELSE KeywinOn(u, Sheets(u, Top(u) - 1))

-----------------------------------------------------------------------------
(* Events for task_a: keys and clicks *)

KeyTask(u) == IF u.key_win = NULL THEN NOBODY ELSE u.win[u.key_win].task

Handle(u) == ui' = u /\ ~ui.wild /\ UNCHANGED sys

KeyEnter ==
    LET u == Refresh(ui) IN
    /\ Handle(IF u.key_win = NULL THEN u
              ELSE IF KeyTask(u) = NOBODY THEN Wild(u)
              ELSE Put(u, KeyTask(u), ENTER))
    /\ UNCHANGED cons

Tabbed(u) ==
    LET j == Height(u, u.key_win) - 1 IN
    IF j < 0 THEN Wild(u) ELSE KeywinOn(u, Sheets(u, IF j = 0 THEN Top(u) - 1 ELSE j))

\* mutant: the window that is left keeps its title
TabSilent ==
    LET u == Refresh(ui) IN
    Handle(IF u.key_win = NULL THEN u ELSE Tabbed(u)) /\ UNCHANGED cons

Tab ==
    LET u == Refresh(ui) IN
    Handle(IF u.key_win = NULL THEN u ELSE Tabbed(KeywinOff(u))) /\ UNCHANGED cons

\* An application runs, be it inside api_getkey with the message to close.
Running == {"app", "closing"}

\* The application of console t is sent to asm_end_app, wherever it is.
Broken(t) == cons' = [cons EXCEPT ![t].pc = "ending", ![t].new = NULL]

ShiftF1 ==
    LET u == Refresh(ui)
        t == KeyTask(u)
    IN  /\ Handle(u)
        /\ IF t # NOBODY /\ cons[t].pc \in Running THEN Broken(t) ELSE UNCHANGED cons

\* open_constask: the first free task slot.
FreeTask(t) == cons[t] = CLOSED /\ \A k \in 1 .. (t - 1) : cons[k] # CLOSED

\* Nobody looks whether sheet_alloc and task_alloc return null.
OutOfSheets == \A s \in Sids : ui.win[s] # FREE
OutOfTasks == \A t \in Tasks : cons[t] # CLOSED

Started(sht) == [CLOSED EXCEPT !.pc = "shell", !.sht = sht]

\* open_console of a sheet that has been allocated.
Consoled(u, s, t) ==
    [u EXCEPT !.win[s] = [kind |-> "console", task |-> t, lit |-> FALSE],
              !.fifo[t] = <<>>]

ShiftF2 ==
    LET u == Refresh(ui)
        v == IF u.key_win = NULL THEN u ELSE KeywinOff(u)
    IN  \/ \E s \in Sids, t \in Tasks :
            /\ Free(v, s) /\ FreeTask(t)
            /\ Handle(KeywinOn(SheetUpdown(Consoled(v, s, t), s, Top(v)), s))
            /\ cons' = [cons EXCEPT ![t] = Started(s)]
        \/ /\ OutOfSheets \/ OutOfTasks
           /\ Handle(Wild(v)) /\ UNCHANGED cons

F11 ==
    LET u == Refresh(ui) IN
    Handle(SheetUpdown(u, Sheets(u, 1), Top(u) - 1)) /\ UNCHANGED cons

\* A click brings the window up and gives it the keys.
Clicked(s) ==
    LET u == Refresh(ui)
        v == SheetUpdown(u, s, Top(u) - 1)
    IN  IF s = u.key_win THEN v ELSE KeywinOn(KeywinOff(v), s)

Clickable(s) == Height(ui, s) \in 1 .. (Top(ui) - 1)

Click(s) == Clickable(s) /\ Handle(Clicked(s)) /\ UNCHANGED cons

\* The close button of the window of an application: nothing asks whether the
\* application still runs.  When it has just ended, the frame that asm_end_app goes
\* back to is no longer on the stack.
CloseApp(s) ==
    LET t == ui.win[s].task IN
    /\ Clickable(s) /\ ui.win[s].kind = "app"
    /\ IF cons[t].pc \in Running THEN Handle(Clicked(s)) /\ Broken(t)
       ELSE Handle(Wild(Clicked(s))) /\ UNCHANGED cons

\* The close button of a console: it is hidden, and told to exit.  Background and
\* mouse are taken for consoles when they are between others.
CloseConsole(s) ==
    LET v == SheetUpdown(Clicked(s), s, -1)
        w == KeywinOff(v)
        t == ui.win[s].task
    IN  /\ Clickable(s) /\ ui.win[s].kind # "app"
        /\ Handle(IF t = NOBODY THEN Wild(ui)
                  ELSE Put(KeywinOn(w, Sheets(w, Top(w) - 1)), t, CLOSE))
        /\ UNCHANGED cons

-----------------------------------------------------------------------------
(* Exit messages *)

Exit(what, id) == [what |-> what, id |-> id]

\* fifo32_put, into task_a's FIFO.  Keys and mouse bytes go there too: how many of
\* them wait is left open, so that any put may find it full.
Send(m) ==
    \/ Len(sys.fifo) < SYS_SIZE /\ sys' = [sys EXCEPT !.fifo = Append(@, m)]
    \/ sys' = [sys EXCEPT !.lost = @ \cup {m}]

\* close_console, close_constask, and the release of the window alone.  A console
\* that is closed while it is still being started will be used by who starts it.
TakeExit ==
    LET u == Refresh(ui)
        m == Head(sys.fifo)
        v == IF m.what = "task" THEN u ELSE SheetFree(u, m.id)
        gone == CASE m.what = "console" -> {u.win[m.id].task}
                  [] m.what = "task" -> {m.id}
                  [] OTHER -> {}
    IN  /\ ~ui.wild /\ sys.fifo # <<>>
        /\ sys' = [sys EXCEPT !.fifo = Tail(@)]
        /\ ui' = IF \E t \in Tasks : cons[t].to \in gone THEN Wild(v) ELSE v
        /\ cons' = [t \in Tasks |-> IF t \in gone THEN CLOSED ELSE cons[t]]

-----------------------------------------------------------------------------
(* Consoles *)

Goto(t, label) == cons' = [cons EXCEPT ![t].pc = label]
Crash == ui' = Wild(ui) /\ UNCHANGED <<cons, sys>>

\* What a console says when it stops.
Says(t) == IF cons[t].sht # NULL THEN Exit("console", cons[t].sht) ELSE Exit("task", t)

\* cmd_exit, when u is the state so far.
CmdExit(t, u) ==
    /\ ui' = u
    /\ Send(Says(t))
    /\ Goto(t, "dead")

At(t, label) == ~ui.wild /\ cons[t].pc = label

Got(t, m) == ui.fifo[t] # <<>> /\ Head(ui.fifo[t]) = m
Rest(t) == [ui EXCEPT !.fifo[t] = Tail(@)]

TakeClose(t) == At(t, "shell") /\ Got(t, CLOSE) /\ CmdExit(t, Rest(t))

TypedExit(t) == At(t, "shell") /\ Got(t, ENTER) /\ CmdExit(t, Rest(t))

\* A command that is none of the others.
Command(t) ==
    /\ At(t, "shell") /\ Got(t, ENTER)
    /\ ui' = Rest(t) /\ Goto(t, "prompt") /\ UNCHANGED sys

\* mutant: it goes on
PromptStays(t) == At(t, "prompt") /\ Goto(t, "shell") /\ UNCHANGED <<ui, sys>>

\* After a command, a console that has no window any more exits.
Prompt(t) ==
    /\ At(t, "prompt")
    /\ IF cons[t].sht = NULL THEN CmdExit(t, ui) ELSE Goto(t, "shell") /\ UNCHANGED <<ui, sys>>

StartApp(t) ==
    /\ At(t, "shell") /\ Got(t, ENTER)
    /\ ui' = Rest(t) /\ Goto(t, "app") /\ UNCHANGED sys

\* cmd_ncst: a console without a window, and the command for it.
CmdNcst(t) ==
    /\ At(t, "shell") /\ Got(t, ENTER)
    /\ \/ OutOfTasks /\ Crash
       \/ \E n \in Tasks :
            /\ FreeTask(n)
            /\ ui' = [Rest(t) EXCEPT !.fifo[n] = <<ENTER>>]
            /\ cons' = [cons EXCEPT ![n] = Started(NULL), ![t].pc = "prompt"]
            /\ UNCHANGED sys

\* cmd_start: a sheet, a console for it, the window on the screen, the command.
StartSheet(t) ==
    /\ At(t, "shell") /\ Got(t, ENTER)
    /\ \/ OutOfSheets /\ Crash
       \/ \E s \in Sids :
            /\ Free(ui, s)
            /\ ui' = [Rest(t) EXCEPT !.win[s].kind = "plain"]
            /\ cons' = [cons EXCEPT ![t].pc = "start", ![t].new = s]
            /\ UNCHANGED sys

StartTask(t) ==
    /\ At(t, "start")
    /\ \/ OutOfTasks /\ Crash
       \/ \E n \in Tasks :
            /\ FreeTask(n)
            /\ ui' = Consoled(ui, cons[t].new, n)
            /\ cons' = [cons EXCEPT ![t].pc = "show", ![t].to = n, ![n] = Started(cons[t].new)]
            /\ UNCHANGED sys

StartShow(t) ==
    /\ At(t, "show")
    /\ ui' = SheetUpdown(ui, cons[t].new, Top(ui))
    /\ Goto(t, "type") /\ UNCHANGED sys

StartType(t) ==
    /\ At(t, "type")
    /\ ui' = Put(ui, cons[t].to, ENTER)
    /\ cons' = [cons EXCEPT ![t].pc = "prompt", ![t].new = NULL, ![t].to = NOBODY]
    /\ UNCHANGED sys

-----------------------------------------------------------------------------
(* Applications *)

Owns(t, s) == ui.win[s].kind = "app" /\ ui.win[s].task = t

\* api_getkey takes the message to close, and with interrupts enabled goes on to
\* GetkeyClose: in between, the application may be broken.
GetkeyTake(t) ==
    /\ At(t, "app") /\ cons[t].new = NULL /\ Got(t, CLOSE)
    /\ ui' = Rest(t) /\ Goto(t, "closing") /\ UNCHANGED sys

\* mutant: the console keeps the sheet that task_a will free
GetkeyCloseKeeps(t) ==
    /\ At(t, "closing")
    /\ Send(Exit("sheet", cons[t].sht))
    /\ Goto(t, "app") /\ UNCHANGED ui

\* The window goes at once, the console when the application ends.
GetkeyClose(t) ==
    /\ At(t, "closing")
    /\ Send(Exit("sheet", cons[t].sht))
    /\ cons' = [cons EXCEPT ![t].pc = "app", ![t].sht = NULL]
    /\ UNCHANGED ui

GetkeyEnter(t) ==
    /\ At(t, "app") /\ cons[t].new = NULL /\ Got(t, ENTER)
    /\ ui' = Rest(t) /\ UNCHANGED <<cons, sys>>

\* api_openwin, in three steps: sheet_alloc, the owner, the window on the screen.
OpenAlloc(t) ==
    /\ At(t, "app") /\ cons[t].new = NULL
    /\ \/ OutOfSheets /\ Crash
       \/ \E s \in Sids :
            /\ Free(ui, s)
            /\ ui' = [ui EXCEPT !.win[s].kind = "plain"]
            /\ cons' = [cons EXCEPT ![t].new = s]
            /\ UNCHANGED sys

OpenOwn(t) ==
    LET s == cons[t].new IN
    /\ At(t, "app") /\ s # NULL /\ ui.win[s].kind = "plain"
    /\ ui' = [ui EXCEPT !.win[s].kind = "app", !.win[s].task = t]
    /\ UNCHANGED <<cons, sys>>

OpenShow(t) ==
    LET s == cons[t].new IN
    /\ At(t, "app") /\ s # NULL /\ ui.win[s].kind = "app"
    /\ ui' = SheetUpdown(ui, s, Top(ui))
    /\ cons' = [cons EXCEPT ![t].new = NULL]
    /\ UNCHANGED sys

CloseWin(t, s) ==
    /\ At(t, "app") /\ cons[t].new = NULL /\ Owns(t, s)
    /\ ui' = SheetFree(ui, s) /\ UNCHANGED <<cons, sys>>

End(t) == At(t, "app") /\ cons[t].new = NULL /\ Goto(t, "ending") /\ UNCHANGED <<ui, sys>>

\* cmd_app closes what the application has left open.
FreeWindow(t) ==
    \E s \in Sids :
        /\ At(t, "ending") /\ Owns(t, s) /\ \A k \in 0 .. (s - 1) : ~Owns(t, k)
        /\ ui' = SheetFree(ui, s) /\ UNCHANGED <<cons, sys>>

\* mutant: one window is enough
EndedEarly(t) ==
    At(t, "ending") /\ Goto(t, "prompt") /\ UNCHANGED <<ui, sys>>

Ended(t) ==
    /\ At(t, "ending") /\ \A s \in Sids : ~Owns(t, s)
    /\ Goto(t, "prompt") /\ UNCHANGED <<ui, sys>>

-----------------------------------------------------------------------------
(* The system *)

\* HariMain has given the keys to the first console.
Init ==
    /\ ui = [stack |-> <<SHT_BACK, 1, SHT_MOUSE>>,
             win |-> [s \in Sids |-> CASE s \in {SHT_BACK, SHT_MOUSE} -> DESK
                                       [] s = 1 -> [kind |-> "console", task |-> 1, lit |-> TRUE]
                                       [] OTHER -> FREE],
             key_win |-> 1,
             fifo |-> [t \in Tasks |-> <<>>],
             wild |-> FALSE]
    /\ cons = [t \in Tasks |-> IF t = 1 THEN Started(1) ELSE CLOSED]
    /\ sys = [fifo |-> <<>>, lost |-> {}]

TaskA ==
    \/ KeyEnter \/ Tab \/ ShiftF1 \/ ShiftF2 \/ F11 \/ TakeExit
    \/ \E s \in Sids : Click(s) \/ CloseApp(s) \/ CloseConsole(s)

\* The steps that a console takes on its own, once it has the processor.
Proceed(t) ==
    \/ TakeClose(t) \/ TypedExit(t) \/ Command(t) \/ Prompt(t)
    \/ StartApp(t) \/ CmdNcst(t) \/ StartSheet(t) \/ StartTask(t) \/ StartShow(t) \/ StartType(t)
    \/ GetkeyClose(t) \/ FreeWindow(t) \/ Ended(t)

App(t) ==
    \/ GetkeyTake(t) \/ GetkeyEnter(t) \/ OpenAlloc(t) \/ OpenOwn(t) \/ OpenShow(t) \/ End(t)
    \/ \E s \in Sids : CloseWin(t, s)

Next == TaskA \/ \E t \in Tasks : Proceed(t) \/ App(t)

Spec == Init /\ [][Next]_vars

\* task_a takes its messages, and consoles go on; applications need not.
FairSpec == Spec /\ WF_vars(TakeExit) /\ \A t \in Tasks : WF_vars(Proceed(t))

-----------------------------------------------------------------------------
(* Properties *)

Labels == {"none", "shell", "prompt", "start", "show", "type", "app", "closing", "ending", "dead"}
Kinds == {"free", "desk", "plain", "app", "console"}

UI == [stack : Seq(Sids),
       win : [Sids -> [kind : Kinds, task : Tasks \cup {NOBODY}, lit : BOOLEAN]],
       key_win : Sids \cup {NULL},
       fifo : [Tasks -> Seq({CLOSE, ENTER})],
       wild : BOOLEAN]

Consoles == [pc : Labels, sht : Sids \cup {NULL},
             new : Sids \cup {NULL}, to : Tasks \cup {NOBODY}]

Exits == [what : {"console", "task", "sheet"}, id : Sids \cup Tasks]

\* The variables keep their types, and no FIFO holds more than it has room for.
TypeOK ==
    /\ ui \in UI /\ \A t \in Tasks : Len(ui.fifo[t]) <= FIFO_SIZE
    /\ cons \in [Tasks -> Consoles]
    /\ sys \in [fifo : Seq(Exits), lost : SUBSET Exits] /\ Len(sys.fifo) <= SYS_SIZE

\* Who asks for m is done with it.
Settled(m) ==
    IF m.what = "task" THEN cons[m.id].pc = "dead" /\ cons[m.id].sht = NULL
    ELSE LET t == ui.win[m.id].task IN
         /\ ui.win[m.id].kind = "console"
         /\ IF m.what = "console" THEN cons[t].pc = "dead" /\ cons[t].sht = m.id
            ELSE ~Shown(ui, m.id) /\ cons[t].pc # "none" /\ cons[t].sht = NULL

\* An exit message names what is still there and will not act again, whoever
\* closed it and however: a console that has stopped with its window, a console
\* that has stopped without one, or a hidden window its console has let go.
ExitsMatch ==
    \A k \in DOMAIN sys.fifo :
        Settled(sys.fifo[k]) /\ \A j \in DOMAIN sys.fifo : sys.fifo[j] = sys.fifo[k] => j = k

\* A window of an application is there only while its task is inside cmd_app, so
\* that the close button, which does not ask, never breaks a console at its prompt.
WindowsOwned ==
    \A s \in Sids : ui.win[s].kind = "app" => cons[ui.win[s].task].pc \in Running \cup {"ending"}

\* No more than one window on the screen looks as if it had the keys, and that
\* one has them.
Highlight ==
    \A k \in DOMAIN ui.stack : ui.win[ui.stack[k]].lit => ui.stack[k] \in {ui.key_win, SHT_BACK}

\* A console that was told to close, or has no window, goes, unless its application
\* does not let it, or one of two things has gone wrong: its exit message found
\* task_a's FIFO full (Unheard), or its application was broken between taking the
\* message to close and acting on it (CutOff).
HasClose(q) == \E k \in DOMAIN q : q[k] = CLOSE

Closing(t) ==
    \/ cons[t].pc # "none" /\ cons[t].sht = NULL
    \/ cons[t].pc = "closing" \/ HasClose(ui.fifo[t])

Unheard(t) == cons[t].pc = "dead" /\ Says(t) \in sys.lost

CutOff(t) ==
    /\ cons[t].pc = "ending" /\ ~HasClose(ui.fifo[t])
    /\ cons[t].sht # NULL /\ ~Shown(ui, cons[t].sht)

CloseCompletes ==
    \A t \in Tasks : Closing(t) ~> (cons[t].pc \in {"none", "app"} \/ Unheard(t) \/ CutOff(t) \/ ui.wild)

\* With nothing but mouse and background on the screen, key_win is null when the
\* next event is handled (HariMain, lines 153 to 160), and a key goes nowhere.
NothingLeft == Top(ui) = 1 => Refresh(ui).key_win = NULL
=============================================================================
