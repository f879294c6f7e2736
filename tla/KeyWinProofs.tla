---------------------------- MODULE KeyWinProofs ----------------------------
(***************************************************************************)
(* Theorems about KeyWin, for any number of sheets and consoles: what       *)
(* task_a gives back is done with (ExitsMatch), no window outlives its      *)
(* application (WindowsOwned), one title at most is lit (Highlight), and    *)
(* who is told to close goes on its way (ClosersLeave) and is heard of      *)
(* (StoppedReported), but for one way each in which the code fails them.    *)
(***************************************************************************)
EXTENDS KeyWin, SequenceTheorems, TLAPS

-----------------------------------------------------------------------------
(* The inductive invariant *)

Kind(u, s) == u.win[s].kind
Task(u, s) == u.win[s].task
Live(t) == cons[t].pc # "none"
OnScreen == {"desk", "app", "console"}

\* The stack holds each sheet at most once, background and mouse always, and
\* nothing that is free or still being opened.
Screen(u) ==
    /\ \A j, k \in DOMAIN u.stack : u.stack[j] = u.stack[k] => j = k
    /\ Shown(u, SHT_BACK) /\ Shown(u, SHT_MOUSE)
    /\ \A s \in Sids : Shown(u, s) => Kind(u, s) \in OnScreen
    /\ \A s \in Sids : Kind(u, s) = "desk" <=> s \in {SHT_BACK, SHT_MOUSE}
    /\ \A s \in Sids : Task(u, s) \in Tasks <=> Kind(u, s) \in {"app", "console"}

Lights(u) ==
    \A s \in Sids : u.win[s].lit =>
        s \in {u.key_win, SHT_BACK} /\ s # SHT_MOUSE /\ Kind(u, s) \in OnScreen

\* A console and its window name each other, until the console lets go of the
\* window and says so.  When that message is lost, the window outlives its console.
Asked(s) == \E k \in DOMAIN sys.fifo : sys.fifo[k] = Exit("sheet", s)
Left(s) == Exit("sheet", s) \in sys.lost

Owners ==
    /\ \A t \in Tasks : cons[t].pc = "none" => cons[t].sht = NULL
    /\ \A t \in Tasks : cons[t].sht # NULL =>
          Kind(ui, cons[t].sht) = "console" /\ Task(ui, cons[t].sht) = t
    /\ \A s \in Sids : Kind(ui, s) = "console" /\ ~Left(s) =>
          LET t == Task(ui, s) IN
          Live(t) /\ (cons[t].sht = s \/ (cons[t].sht = NULL /\ Asked(s)))

Names(m) == m.id \in (IF m.what = "task" THEN Tasks ELSE Sids)

\* Besides, a console asks for its window to be given back before it stops.
Messages ==
    /\ \A k \in DOMAIN sys.fifo : Names(sys.fifo[k])
    /\ ExitsMatch
    /\ \A j, k \in DOMAIN sys.fifo :
          /\ sys.fifo[j].what = "task" /\ sys.fifo[k].what = "sheet"
          /\ Task(ui, sys.fifo[k].id) = sys.fifo[j].id
          => k < j

\* What a message was lost about stays as it is: a window that nobody shows or
\* frees any more, or a console that has stopped.
Gone(m) ==
    IF m.what = "sheet"
    THEN Kind(ui, m.id) = "console" /\ ~Shown(ui, m.id) /\ cons[Task(ui, m.id)].sht # m.id
    ELSE Settled(m)

Forgotten ==
    \A m \in sys.lost : Names(m) /\ Gone(m) /\ \A k \in DOMAIN sys.fifo : sys.fifo[k] # m

\* A console is told to close once, when its window has been hidden.
OneClose(q) == \A j, k \in DOMAIN q : q[j] = CLOSE /\ q[k] = CLOSE => j = k

CloseOnce ==
    \A t \in Tasks : Live(t) =>
        /\ OneClose(ui.fifo[t])
        /\ HasClose(ui.fifo[t]) \/ cons[t].pc = "closing" =>
              cons[t].sht # NULL /\ ~Shown(ui, cons[t].sht)
        /\ cons[t].pc = "closing" => ~HasClose(ui.fifo[t])

\* A sheet that is being opened belongs to the one who opens it, and a console that
\* is being started is there until it has got its command.
Building == {"start", "show", "app"}

OpeningBy(t) ==
    LET c == cons[t] IN
    /\ c.pc = "start" => c.new # NULL /\ Kind(ui, c.new) = "plain"
    /\ c.pc = "show" =>
          /\ c.new # NULL /\ c.to # NOBODY
          /\ Kind(ui, c.new) = "console" /\ Task(ui, c.new) = c.to
          /\ cons[c.to].sht = c.new /\ ~Shown(ui, c.new)
          /\ ~HasClose(ui.fifo[c.to]) /\ cons[c.to].pc # "closing"
    /\ c.pc = "type" => c.to # NOBODY /\ Live(c.to)
    /\ c.pc = "app" =>
          \/ c.new = NULL
          \/ Kind(ui, c.new) = "plain"
          \/ Kind(ui, c.new) = "app" /\ Task(ui, c.new) = t
    /\ c.pc \notin {"start", "show", "type", "app"} => c.new = NULL

Opening ==
    ~ui.wild =>
        /\ \A t \in Tasks : OpeningBy(t)
        /\ \A t, v \in Tasks :
              /\ cons[t].pc \in Building /\ cons[v].pc \in Building
              /\ cons[t].new = cons[v].new /\ cons[t].new # NULL
              => t = v

IInv ==
    /\ TypeOK /\ Screen(ui) /\ Lights(ui)
    /\ Owners /\ Messages /\ Forgotten /\ CloseOnce /\ Opening /\ WindowsOwned

-----------------------------------------------------------------------------
(* Sequences *)

LEMMA Numbers ==
    /\ MAX_SHEETS \in Nat /\ MAX_SHEETS >= 3 /\ MAX_CONSOLES \in Nat /\ MAX_CONSOLES >= 1
    /\ FIFO_SIZE \in Nat /\ FIFO_SIZE >= 1 /\ SYS_SIZE \in Nat /\ SYS_SIZE >= 1
    /\ SHT_BACK \in Sids /\ SHT_MOUSE \in Sids /\ 1 \in Sids /\ 1 \in Tasks
    /\ NULL \notin Sids /\ NOBODY \notin Tasks
BY KeyWinAssumption DEF Sids, Tasks, SHT_BACK, SHT_MOUSE, NULL, NOBODY

LEMMA EnterAppended ==
    ASSUME NEW q \in Seq({CLOSE, ENTER})
    PROVE  /\ Append(q, ENTER) \in Seq({CLOSE, ENTER})
           /\ HasClose(Append(q, ENTER)) <=> HasClose(q)
           /\ OneClose(q) => OneClose(Append(q, ENTER))
BY DEF HasClose, OneClose, CLOSE, ENTER

LEMMA CloseAppended ==
    ASSUME NEW q \in Seq({CLOSE, ENTER}), ~HasClose(q)
    PROVE  /\ Append(q, CLOSE) \in Seq({CLOSE, ENTER})
           /\ OneClose(Append(q, CLOSE))
BY DEF HasClose, OneClose

LEMMA HeadTaken ==
    ASSUME NEW q \in Seq({CLOSE, ENTER}), q # <<>>
    PROVE  /\ Tail(q) \in Seq({CLOSE, ENTER}) /\ Len(Tail(q)) = Len(q) - 1
           /\ HasClose(Tail(q)) => HasClose(q)
           /\ OneClose(q) => OneClose(Tail(q))
           /\ OneClose(q) /\ Head(q) = CLOSE => HasClose(q) /\ ~HasClose(Tail(q))
BY DEF HasClose, OneClose

In(q, x) == \E k \in DOMAIN q : q[k] = x
Once(q) == \A j, k \in DOMAIN q : q[j] = q[k] => j = k

LEMMA Joined ==
    ASSUME NEW S, NEW a \in Seq(S), NEW b \in Seq(S)
    PROVE  /\ a \o b \in Seq(S) /\ Len(a \o b) = Len(a) + Len(b)
           /\ \A k \in 1 .. (Len(a) + Len(b)) :
                 (a \o b)[k] = IF k <= Len(a) THEN a[k] ELSE b[k - Len(a)]
OBVIOUS

LEMMA Removed ==
    ASSUME NEW q \in Seq(Sids), Once(q), NEW i \in DOMAIN q
    PROVE  /\ RemoveAt(q, i) \in Seq(Sids) /\ Len(RemoveAt(q, i)) = Len(q) - 1
           /\ Once(RemoveAt(q, i))
           /\ \A x : In(RemoveAt(q, i), x) <=> In(q, x) /\ x # q[i]
<1> DEFINE r == RemoveAt(q, i)
<1>1. /\ r \in Seq(Sids) /\ Len(r) = Len(q) - 1
      /\ \A k \in 1 .. Len(r) : r[k] = IF k < i THEN q[k] ELSE q[k + 1]
  <2> DEFINE a == SubSeq(q, 1, i - 1)
             b == SubSeq(q, i + 1, Len(q))
  <2>1. a \in Seq(Sids) /\ Len(a) = i - 1 /\ \A k \in 1 .. (i - 1) : a[k] = q[k]
    OBVIOUS
  <2>2. /\ b \in Seq(Sids) /\ Len(b) = Len(q) - i
        /\ \A k \in 1 .. (Len(q) - i) : b[k] = q[k + i]
    OBVIOUS
  <2> HIDE DEF a, b
  <2>3. /\ a \o b \in Seq(Sids) /\ Len(a \o b) = Len(a) + Len(b)
        /\ \A k \in 1 .. (Len(a) + Len(b)) : (a \o b)[k] = IF k <= Len(a) THEN a[k] ELSE b[k - Len(a)]
    BY <2>1, <2>2, Joined, Zenon
  <2>4. r = a \o b BY DEF RemoveAt, a, b
  <2>5. i \in 1 .. Len(q) /\ Len(q) \in Nat OBVIOUS
  <2> HIDE DEF r
  <2>6. Len(r) = Len(q) - 1 BY SMTT(60), <2>1, <2>2, <2>3, <2>4, <2>5
  <2>7. ASSUME NEW k \in 1 .. Len(r) PROVE r[k] = IF k < i THEN q[k] ELSE q[k + 1]
    <3>1. k < i => r[k] = a[k] /\ k \in 1 .. (i - 1) BY <2>1, <2>2, <2>3, <2>4, <2>5, <2>6
    <3>2. CASE ~(k < i)
      <4> DEFINE n == k - Len(a)
      <4>1. n \in 1 .. (Len(q) - i) /\ n + i = k + 1 BY <2>1, <2>5, <2>6, <3>2
      <4>2. r[k] = b[n] BY SMTT(60), <2>1, <2>2, <2>3, <2>4, <2>5, <2>6, <3>2
      <4> HIDE DEF n
      <4> QED BY <2>2, <3>2, <4>1, <4>2
    <3> QED BY <2>1, <3>1, <3>2
  <2> QED BY <2>3, <2>4, <2>6, <2>7
<1> HIDE DEF r
<1>2. DOMAIN r = 1 .. Len(r) /\ DOMAIN q = 1 .. Len(q) /\ Len(q) \in Nat /\ Len(r) \in Nat
  BY <1>1
<1>3. Once(r)
  <2> SUFFICES ASSUME NEW j \in DOMAIN r, NEW k \in DOMAIN r, r[j] = r[k] PROVE j = k
    BY DEF Once
  <2> DEFINE at(n) == IF n < i THEN n ELSE n + 1
  <2>1. /\ at(j) \in DOMAIN q /\ at(k) \in DOMAIN q
        /\ q[at(j)] = r[j] /\ q[at(k)] = r[k]
    BY <1>1, <1>2
  <2>2. at(j) = at(k) BY <2>1 DEF Once
  <2> QED BY <1>2, <2>2
<1>4. ASSUME NEW x PROVE In(r, x) <=> In(q, x) /\ x # q[i]
  <2>1. ASSUME In(r, x) PROVE In(q, x) /\ x # q[i]
    <3>1. PICK k \in DOMAIN r : r[k] = x BY <2>1 DEF In
    <3>2. CASE k < i
      <4>1. x = q[k] /\ k \in DOMAIN q /\ k # i BY <1>1, <1>2, <3>1, <3>2
      <4> QED BY <4>1 DEF In, Once
    <3>3. CASE ~(k < i)
      <4>1. x = q[k + 1] /\ k + 1 \in DOMAIN q /\ k + 1 # i BY <1>1, <1>2, <3>1, <3>3
      <4> QED BY <4>1 DEF In, Once
    <3> QED BY <3>2, <3>3
  <2>2. ASSUME In(q, x), x # q[i] PROVE In(r, x)
    <3>1. PICK k \in DOMAIN q : q[k] = x BY <2>2 DEF In
    <3>2. CASE k < i
      <4>1. k \in DOMAIN r /\ r[k] = x BY <1>1, <1>2, <3>1, <3>2
      <4> QED BY <4>1 DEF In
    <3>3. CASE k > i
      <4>1. k - 1 \in DOMAIN r /\ r[k - 1] = x BY <1>1, <1>2, <3>1, <3>3
      <4> QED BY <4>1 DEF In
    <3> QED BY <1>2, <2>2, <3>1, <3>2, <3>3
  <2> QED BY <2>1, <2>2
<1> QED BY <1>1, <1>3, <1>4 DEF r

LEMMA Inserted ==
    ASSUME NEW q \in Seq(Sids), Once(q), NEW s \in Sids, ~In(q, s), NEW i \in 1 .. (Len(q) + 1)
    PROVE  /\ InsertAt(q, i, s) \in Seq(Sids)
           /\ Once(InsertAt(q, i, s))
           /\ \A x : In(InsertAt(q, i, s), x) <=> In(q, x) \/ x = s
<1> DEFINE r == InsertAt(q, i, s)
<1>1. /\ r \in Seq(Sids) /\ Len(r) = Len(q) + 1
      /\ \A k \in 1 .. Len(r) :
            r[k] = IF k < i THEN q[k] ELSE IF k = i THEN s ELSE q[k - 1]
  <2> DEFINE a == SubSeq(q, 1, i - 1)
             b == SubSeq(q, i, Len(q))
             c == a \o <<s>>
  <2>1. a \in Seq(Sids) /\ Len(a) = i - 1 /\ \A k \in 1 .. (i - 1) : a[k] = q[k]
    OBVIOUS
  <2>2. /\ b \in Seq(Sids) /\ Len(b) = Len(q) - i + 1
        /\ \A k \in 1 .. (Len(q) - i + 1) : b[k] = q[k + i - 1]
    OBVIOUS
  <2> HIDE DEF a, b
  <2>3. /\ c \in Seq(Sids) /\ Len(c) = i
        /\ \A k \in 1 .. i : c[k] = IF k < i THEN q[k] ELSE s
    BY <2>1
  <2> HIDE DEF c
  <2>4. /\ c \o b \in Seq(Sids) /\ Len(c \o b) = Len(c) + Len(b)
        /\ \A k \in 1 .. (Len(c) + Len(b)) : (c \o b)[k] = IF k <= Len(c) THEN c[k] ELSE b[k - Len(c)]
    BY <2>2, <2>3, Joined, Zenon
  <2>5. r = c \o b BY DEF InsertAt, a, b, c
  <2>6. i \in Nat /\ Len(q) \in Nat OBVIOUS
  <2> HIDE DEF r
  <2>7. Len(r) = Len(q) + 1 BY <2>2, <2>3, <2>4, <2>5, <2>6
  <2>8. ASSUME NEW k \in 1 .. Len(r)
        PROVE  r[k] = IF k < i THEN q[k] ELSE IF k = i THEN s ELSE q[k - 1]
    <3>1. k <= i => r[k] = c[k] /\ k \in 1 .. i BY <2>2, <2>3, <2>4, <2>5, <2>6, <2>7
    <3>2. k > i => r[k] = b[k - i] /\ k - i \in 1 .. (Len(q) - i + 1) /\ (k - i) + i - 1 = k - 1
      BY <2>2, <2>3, <2>4, <2>5, <2>6, <2>7
    <3> QED BY <2>2, <2>3, <2>6, <3>1, <3>2
  <2> QED BY <2>4, <2>5, <2>7, <2>8
<1> HIDE DEF r
<1>2. DOMAIN r = 1 .. Len(r) /\ DOMAIN q = 1 .. Len(q) /\ Len(q) \in Nat /\ Len(r) \in Nat
  BY <1>1
<1>3. Once(r)
  <2> SUFFICES ASSUME NEW j \in DOMAIN r, NEW k \in DOMAIN r, r[j] = r[k], j < k PROVE FALSE
    BY <1>2 DEF Once
  <2>1. ~(k # i /\ j # i)
    <3> SUFFICES ASSUME k # i, j # i PROVE FALSE OBVIOUS
    <3> DEFINE at(n) == IF n < i THEN n ELSE n - 1
    <3>1. /\ at(j) \in DOMAIN q /\ at(k) \in DOMAIN q
          /\ q[at(j)] = r[j] /\ q[at(k)] = r[k]
      BY <1>1, <1>2
    <3>2. at(j) = at(k) BY <3>1 DEF Once
    <3> QED BY <1>2, <3>2
  <2>2. k # i /\ j = i => k - 1 \in DOMAIN q /\ q[k - 1] = s BY <1>1, <1>2
  <2>3. k = i /\ j # i => j \in DOMAIN q /\ q[j] = s BY <1>1, <1>2
  <2> QED BY <1>2, <2>1, <2>2, <2>3 DEF In
<1>4. ASSUME NEW x PROVE In(r, x) <=> In(q, x) \/ x = s
  <2>1. ASSUME In(r, x) PROVE In(q, x) \/ x = s
    <3>1. PICK k \in DOMAIN r : r[k] = x BY <2>1 DEF In
    <3>2. k < i => k \in DOMAIN q /\ q[k] = x BY <1>1, <1>2, <3>1
    <3>3. k > i => k - 1 \in DOMAIN q /\ q[k - 1] = x BY <1>1, <1>2, <3>1
    <3>4. k = i => x = s BY <1>1, <1>2, <3>1
    <3> QED BY <1>2, <3>1, <3>2, <3>3, <3>4 DEF In
  <2>2. ASSUME In(q, x) PROVE In(r, x)
    <3>1. PICK k \in DOMAIN q : q[k] = x BY <2>2 DEF In
    <3>2. k < i => k \in DOMAIN r /\ r[k] = x BY <1>1, <1>2, <3>1
    <3>3. k >= i => k + 1 \in DOMAIN r /\ r[k + 1] = x BY <1>1, <1>2, <3>1
    <3> QED BY <1>2, <3>1, <3>2, <3>3 DEF In
  <2>3. i \in DOMAIN r /\ r[i] = s BY <1>1, <1>2
  <2> QED BY <2>1, <2>2, <2>3 DEF In
<1> QED BY <1>1, <1>3, <1>4 DEF r

-----------------------------------------------------------------------------
(* Functions on ui *)

\* v differs from u in titles, key_win and wildness only.
Looks(u, v) ==
    /\ v \in UI /\ v.stack = u.stack /\ v.fifo = u.fifo
    /\ u.wild => v.wild
    /\ \A s \in Sids : Kind(v, s) = Kind(u, s) /\ Task(v, s) = Task(u, s)

\* No title is lit, but perhaps in the background.
Dark(u) == \A s \in Sids : u.win[s].lit => s = SHT_BACK

LEMMA WildLooks ==
    ASSUME NEW u \in UI
    PROVE  /\ Looks(u, Wild(u)) /\ Wild(u).win = u.win /\ Wild(u).key_win = u.key_win
           /\ Wild(u).wild
BY DEF UI, Looks, Wild, Kind, Task

LEMMA LooksScreen ==
    ASSUME NEW u \in UI, NEW v, Looks(u, v), Screen(u)
    PROVE  Screen(v)
BY DEF Looks, Screen, Shown

LEMMA TitleLooks ==
    ASSUME NEW u \in UI, NEW s \in Sids \cup {NULL}, NEW act \in BOOLEAN
    PROVE  /\ Looks(u, Title(u, s, act)) /\ Title(u, s, act).key_win = u.key_win
           /\ \A x \in Sids : x # s => Title(u, s, act).win[x] = u.win[x]
           /\ s \in Sids /\ s # SHT_MOUSE /\ Kind(u, s) # "plain" =>
                 Title(u, s, act).win[s].lit = act
           /\ s = SHT_MOUSE \/ (s \in Sids /\ Kind(u, s) = "plain") =>
                 Title(u, s, act).win[s] = u.win[s]
<1>1. CASE s \in {NULL, SHT_MOUSE} \/ (s # NULL /\ u.win[s].kind = "plain")
  <2>1. Title(u, s, act) = Wild(u) BY <1>1 DEF Title
  <2> QED BY <1>1, <2>1, WildLooks, Numbers DEF Kind
<1>2. CASE ~(s \in {NULL, SHT_MOUSE} \/ (s # NULL /\ u.win[s].kind = "plain"))
  <2>1. Title(u, s, act) = [u EXCEPT !.win[s].lit = act] /\ s \in Sids
    BY <1>2 DEF Title
  <2>2. /\ u.win \in [Sids -> [kind : Kinds, task : Tasks \cup {NOBODY}, lit : BOOLEAN]]
        /\ u.win[s] \in [kind : Kinds, task : Tasks \cup {NOBODY}, lit : BOOLEAN]
    BY <2>1 DEF UI
  <2> DEFINE w == [u.win[s] EXCEPT !.lit = act]
             W == [u.win EXCEPT ![s] = w]
  <2>3. /\ w \in [kind : Kinds, task : Tasks \cup {NOBODY}, lit : BOOLEAN]
        /\ w.kind = u.win[s].kind /\ w.task = u.win[s].task /\ w.lit = act
    BY <2>2
  <2> HIDE DEF w
  <2>4. /\ W \in [Sids -> [kind : Kinds, task : Tasks \cup {NOBODY}, lit : BOOLEAN]]
        /\ W[s] = w /\ \A x \in Sids : x # s => W[x] = u.win[x]
    BY <2>1, <2>2, <2>3
  <2>5. Title(u, s, act) = [u EXCEPT !.win = W] BY <2>1, <2>2 DEF w, UI
  <2> HIDE DEF W
  <2>6. /\ Title(u, s, act) \in UI /\ Title(u, s, act).win = W
        /\ Title(u, s, act).stack = u.stack /\ Title(u, s, act).fifo = u.fifo
        /\ Title(u, s, act).key_win = u.key_win /\ Title(u, s, act).wild = u.wild
    BY <2>4, <2>5 DEF UI
  <2> QED BY <1>2, <2>1, <2>3, <2>4, <2>6 DEF Looks, Kind, Task
<1> QED BY <1>1, <1>2

LEMMA OffLooks ==
    ASSUME NEW u \in UI, Screen(u), Lights(u)
    PROVE  Looks(u, KeywinOff(u)) /\ KeywinOff(u).key_win = u.key_win /\ Dark(KeywinOff(u))
<1> DEFINE v == KeywinOff(u)
<1>1. u.key_win \in Sids \cup {NULL} BY DEF UI
<1>2. /\ Looks(u, v) /\ v.key_win = u.key_win
      /\ \A x \in Sids : x # u.key_win => v.win[x] = u.win[x]
      /\ u.key_win \in Sids /\ u.key_win # SHT_MOUSE /\ Kind(u, u.key_win) # "plain" =>
            v.win[u.key_win].lit = FALSE
      /\ u.key_win = SHT_MOUSE \/ (u.key_win \in Sids /\ Kind(u, u.key_win) = "plain") =>
            v.win[u.key_win] = u.win[u.key_win]
  BY <1>1, TitleLooks DEF KeywinOff
<1> HIDE DEF v
<1>3. Dark(v)
  <2> SUFFICES ASSUME NEW s \in Sids, v.win[s].lit, s # SHT_BACK PROVE FALSE BY DEF Dark
  <2>1. u.win[s].lit BY <1>2
  <2>2. s = u.key_win /\ s # SHT_MOUSE /\ Kind(u, s) \in OnScreen BY <2>1 DEF Lights
  <2> QED BY <1>2, <2>2 DEF OnScreen
<1> QED BY <1>2, <1>3 DEF v

LEMMA LitLooks ==
    ASSUME NEW u \in UI, NEW s \in Sids
    PROVE  /\ Looks(u, Title(u, s, TRUE)) /\ Title(u, s, TRUE).key_win = u.key_win
           /\ \A x \in Sids : x # s => Title(u, s, TRUE).win[x] = u.win[x]
           /\ s = SHT_MOUSE => Title(u, s, TRUE).win[s] = u.win[s]
<1> DEFINE P(act) ==
    /\ Looks(u, Title(u, s, act)) /\ Title(u, s, act).key_win = u.key_win
    /\ \A x \in Sids : x # s => Title(u, s, act).win[x] = u.win[x]
    /\ s = SHT_MOUSE => Title(u, s, act).win[s] = u.win[s]
<1>1. \A act \in BOOLEAN : P(act) BY TitleLooks
<1> HIDE DEF P
<1>2. P(TRUE) BY <1>1
<1> QED BY <1>2 DEF P

LEMMA OnLooks ==
    ASSUME NEW u \in UI, Screen(u), Dark(u), NEW s \in Sids, Shown(u, s)
    PROVE  Looks(u, KeywinOn(u, s)) /\ Lights(KeywinOn(u, s)) /\ KeywinOn(u, s).key_win = s
<1> DEFINE w == [u EXCEPT !.key_win = s]
           v == KeywinOn(u, s)
<1>1. /\ w \in UI /\ w.win = u.win /\ w.stack = u.stack /\ w.fifo = u.fifo /\ w.wild = u.wild
      /\ w.key_win = s
  BY DEF UI
<1>2. v = Title(w, s, TRUE) BY DEF KeywinOn
<1> HIDE DEF w, v
<1>3. /\ Looks(w, v) /\ v.key_win = s
      /\ \A x \in Sids : x # s => v.win[x] = w.win[x]
      /\ s = SHT_MOUSE => v.win[s] = w.win[s]
  BY <1>1, <1>2, LitLooks
<1>4. Looks(u, v) BY <1>1, <1>3 DEF Looks, Kind, Task
<1>5. Kind(u, SHT_BACK) = "desk" /\ Kind(u, s) \in OnScreen BY Numbers DEF Screen
<1>6. Lights(v)
  <2> SUFFICES ASSUME NEW x \in Sids, v.win[x].lit
               PROVE  x \in {s, SHT_BACK} /\ x # SHT_MOUSE /\ Kind(v, x) \in OnScreen
    BY <1>3 DEF Lights
  <2>1. x \in {s, SHT_BACK} BY <1>1, <1>3 DEF Dark
  <2>2. x # SHT_MOUSE
    BY <1>1, <1>3, <2>1, Numbers DEF Dark, SHT_BACK, SHT_MOUSE
  <2>3. Kind(v, x) \in OnScreen BY <1>4, <1>5, <2>1 DEF Looks, OnScreen
  <2> QED BY <2>1, <2>2, <2>3
<1> QED BY <1>3, <1>4, <1>6 DEF v

LEMMA TopBounds ==
    ASSUME NEW u \in UI, Screen(u)
    PROVE  Len(u.stack) \in Nat /\ Len(u.stack) >= 2 /\ Top(u) \in Nat /\ Top(u) >= 1
<1>1. u.stack \in Seq(Sids) BY DEF UI
<1>2. PICK j \in DOMAIN u.stack : u.stack[j] = SHT_BACK BY DEF Screen, Shown
<1>3. PICK k \in DOMAIN u.stack : u.stack[k] = SHT_MOUSE BY DEF Screen, Shown
<1>4. j # k BY <1>2, <1>3 DEF SHT_BACK, SHT_MOUSE
<1> QED BY <1>1, <1>2, <1>3, <1>4 DEF Top

LEMMA SheetShown ==
    ASSUME NEW u \in UI, NEW h \in 0 .. Top(u)
    PROVE  Sheets(u, h) \in Sids /\ Shown(u, Sheets(u, h))
<1>1. u.stack \in Seq(Sids) BY DEF UI
<1>2. h + 1 \in DOMAIN u.stack BY <1>1 DEF Top
<1> QED BY <1>1, <1>2 DEF Sheets, Shown

LEMMA HeightBounds ==
    ASSUME NEW u \in UI, NEW s
    PROVE  /\ Shown(u, s) => Height(u, s) \in 0 .. Top(u) /\ Sheets(u, Height(u, s)) = s
           /\ ~Shown(u, s) => Height(u, s) = -1
<1>1. u.stack \in Seq(Sids) BY DEF UI
<1>2. ASSUME Shown(u, s) PROVE Height(u, s) \in 0 .. Top(u) /\ Sheets(u, Height(u, s)) = s
  <2> DEFINE k == CHOOSE k \in DOMAIN u.stack : u.stack[k] = s
  <2>1. k \in DOMAIN u.stack /\ u.stack[k] = s BY <1>2 DEF Shown
  <2>2. Height(u, s) = k - 1 BY <1>2 DEF Height
  <2> HIDE DEF k
  <2> QED BY <1>1, <2>1, <2>2 DEF Top, Sheets
<1> QED BY <1>2 DEF Height

LEMMA WithoutIt ==
    ASSUME NEW u \in UI, Screen(u), NEW s \in Sids
    PROVE  /\ Without(u, s) \in Seq(Sids) /\ Once(Without(u, s))
           /\ Len(Without(u, s)) >= Top(u)
           /\ \A x : In(Without(u, s), x) <=> Shown(u, x) /\ x # s
<1>1. u.stack \in Seq(Sids) /\ Once(u.stack) BY DEF UI, Screen, Once
<1>2. CASE Shown(u, s)
  <2> DEFINE i == Height(u, s) + 1
  <2>1. Without(u, s) = RemoveAt(u.stack, i) BY <1>2 DEF Without
  <2>2. i \in DOMAIN u.stack /\ u.stack[i] = s BY <1>1, <1>2, HeightBounds DEF Top, Sheets
  <2> HIDE DEF i
  <2>3. /\ RemoveAt(u.stack, i) \in Seq(Sids) /\ Len(RemoveAt(u.stack, i)) = Len(u.stack) - 1
        /\ Once(RemoveAt(u.stack, i))
        /\ \A x : In(RemoveAt(u.stack, i), x) <=> In(u.stack, x) /\ x # s
    BY <1>1, <2>2, Removed
  <2> QED BY <1>1, <2>1, <2>3 DEF In, Shown, Top
<1>3. CASE ~Shown(u, s)
  <2>1. Without(u, s) = u.stack BY <1>3 DEF Without
  <2> QED BY <1>1, <1>3, <2>1 DEF In, Shown, Top
<1> QED BY <1>2, <1>3

LEMMA UpdownShows ==
    ASSUME NEW u \in UI, Screen(u), NEW s \in Sids, NEW h \in -1 .. Top(u),
           h = -1 => Kind(u, s) # "desk", h # -1 => Kind(u, s) \in OnScreen
    PROVE  LET v == SheetUpdown(u, s, h) IN
           /\ v \in UI /\ Screen(v)
           /\ v.win = u.win /\ v.key_win = u.key_win /\ v.fifo = u.fifo /\ v.wild = u.wild
           /\ \A x : Shown(v, x) <=> (x # s /\ Shown(u, x)) \/ (x = s /\ h # -1)
<1> DEFINE q == Without(u, s)
           r == IF h < 0 THEN q ELSE InsertAt(q, h + 1, s)
           v == SheetUpdown(u, s, h)
<1>1. /\ q \in Seq(Sids) /\ Once(q) /\ Len(q) >= Top(u)
      /\ \A x : In(q, x) <=> Shown(u, x) /\ x # s
  BY WithoutIt
<1>2. v = [u EXCEPT !.stack = r] BY DEF SheetUpdown
<1> HIDE DEF q
<1>3. r \in Seq(Sids) /\ Once(r) /\ \A x : In(r, x) <=> In(q, x) \/ (x = s /\ h # -1)
  <2>1. CASE h = -1 BY <1>1, <2>1
  <2>2. CASE h # -1
    <3>1. h + 1 \in 1 .. (Len(q) + 1) /\ h >= 0 BY <1>1, <2>2, TopBounds
    <3>2. ~In(q, s) BY <1>1
    <3>3. r = InsertAt(q, h + 1, s) BY <3>1
    <3>4. /\ InsertAt(q, h + 1, s) \in Seq(Sids) /\ Once(InsertAt(q, h + 1, s))
          /\ \A x : In(InsertAt(q, h + 1, s), x) <=> In(q, x) \/ x = s
      BY <1>1, <3>1, <3>2, Inserted
    <3> QED BY <2>2, <3>3, <3>4
  <2> QED BY <2>1, <2>2
<1> HIDE DEF r, v
<1>4. /\ v \in UI /\ v.stack = r
      /\ v.win = u.win /\ v.key_win = u.key_win /\ v.fifo = u.fifo /\ v.wild = u.wild
  BY <1>2, <1>3 DEF UI
<1>5. \A x : Shown(v, x) <=> (x # s /\ Shown(u, x)) \/ (x = s /\ h # -1)
  BY <1>1, <1>3, <1>4 DEF In, Shown
<1>6. Screen(v)
  <2>1. \A x \in Sids : Kind(v, x) = Kind(u, x) /\ Task(v, x) = Task(u, x) BY <1>4 DEF Kind, Task
  <2>2. Once(v.stack) BY <1>3, <1>4
  <2>3. Shown(v, SHT_BACK) /\ Shown(v, SHT_MOUSE) BY <1>5, Numbers DEF Screen
  <2>4. \A x \in Sids : Shown(v, x) => Kind(v, x) \in OnScreen BY <1>5, <2>1 DEF Screen
  <2> QED BY <2>1, <2>2, <2>3, <2>4 DEF Screen, Once
<1> QED BY <1>4, <1>5, <1>6 DEF v

LEMMA FreeShows ==
    ASSUME NEW u \in UI, Screen(u), Lights(u), NEW s \in Sids, Kind(u, s) # "desk"
    PROVE  LET v == SheetFree(u, s) IN
           /\ v \in UI /\ Screen(v) /\ Lights(v)
           /\ v.fifo = u.fifo /\ v.wild = u.wild
           /\ v.win[s] = FREE /\ \A x \in Sids : x # s => v.win[x] = u.win[x]
           /\ \A x : Shown(v, x) <=> x # s /\ Shown(u, x)
<1> DEFINE w == SheetUpdown(u, s, -1)
           v == SheetFree(u, s)
<1>1. -1 \in -1 .. Top(u) BY TopBounds
<1>2. /\ w \in UI /\ Screen(w)
      /\ w.win = u.win /\ w.key_win = u.key_win /\ w.fifo = u.fifo /\ w.wild = u.wild
      /\ \A x : Shown(w, x) <=> x # s /\ Shown(u, x)
  BY <1>1, UpdownShows
<1> DEFINE W == [w.win EXCEPT ![s] = FREE]
<1>3. v = [w EXCEPT !.win = W] BY DEF SheetFree
<1> HIDE DEF w, v
<1>4. FREE \in [kind : Kinds, task : Tasks \cup {NOBODY}, lit : BOOLEAN]
  BY DEF FREE, Kinds
<1>5. w.win \in [Sids -> [kind : Kinds, task : Tasks \cup {NOBODY}, lit : BOOLEAN]]
  BY <1>2 DEF UI
<1>6. /\ W \in [Sids -> [kind : Kinds, task : Tasks \cup {NOBODY}, lit : BOOLEAN]]
      /\ W[s] = FREE /\ \A x \in Sids : x # s => W[x] = u.win[x]
  BY <1>2, <1>4, <1>5
<1> HIDE DEF W
<1>7. /\ v \in UI /\ v.win = W /\ v.stack = w.stack
      /\ v.key_win = u.key_win /\ v.fifo = u.fifo /\ v.wild = u.wild
  BY <1>2, <1>3, <1>6 DEF UI
<1>8. \A x : Shown(v, x) <=> x # s /\ Shown(u, x) BY <1>2, <1>7 DEF Shown
<1>9. FREE.kind = "free" /\ FREE.task = NOBODY /\ FREE.lit = FALSE BY DEF FREE
<1>10. Screen(v)
  <2>1. \A x \in Sids : x # s => Kind(v, x) = Kind(u, x) /\ Task(v, x) = Task(u, x)
    BY <1>6, <1>7 DEF Kind, Task
  <2>2. Kind(v, s) = "free" /\ Task(v, s) = NOBODY BY <1>6, <1>7, <1>9 DEF Kind, Task
  <2>3. \A j, k \in DOMAIN v.stack : v.stack[j] = v.stack[k] => j = k BY <1>2, <1>7 DEF Screen
  <2>4. s \notin {SHT_BACK, SHT_MOUSE} BY DEF Screen
  <2>5. Shown(v, SHT_BACK) /\ Shown(v, SHT_MOUSE) BY <1>8, <2>4 DEF Screen
  <2>6. \A x \in Sids : Shown(v, x) => Kind(v, x) \in OnScreen BY <1>8, <2>1 DEF Screen
  <2>7. \A x \in Sids : Kind(v, x) = "desk" <=> x \in {SHT_BACK, SHT_MOUSE}
    BY <2>1, <2>2, <2>4 DEF Screen
  <2>8. \A x \in Sids : Task(v, x) \in Tasks <=> Kind(v, x) \in {"app", "console"}
    BY <2>1, <2>2, Numbers DEF Screen
  <2> QED BY <2>3, <2>5, <2>6, <2>7, <2>8 DEF Screen
<1>11. Lights(v) BY <1>6, <1>7, <1>9 DEF Lights, Kind
<1> QED BY <1>6, <1>7, <1>8, <1>10, <1>11 DEF v

LEMMA RefreshLooks ==
    ASSUME NEW u \in UI, Screen(u), Lights(u)
    PROVE  Looks(u, Refresh(u)) /\ Lights(Refresh(u)) /\ Screen(Refresh(u))
<1>1. CASE u.key_win = NULL \/ u.win[u.key_win].kind # "free"
  <2>1. Refresh(u) = u BY <1>1 DEF Refresh
  <2> QED BY <2>1 DEF Looks
<1>2. CASE ~(u.key_win = NULL \/ u.win[u.key_win].kind # "free")
  <2>1. Dark(u) BY <1>2 DEF Lights, Dark, OnScreen, Kind
  <2>2. CASE Top(u) = 1
    <3>1. Refresh(u) = [u EXCEPT !.key_win = NULL] BY <1>2, <2>2 DEF Refresh
    <3> DEFINE v == [u EXCEPT !.key_win = NULL]
    <3>2. /\ v \in UI /\ v.win = u.win /\ v.stack = u.stack /\ v.fifo = u.fifo
          /\ v.wild = u.wild /\ v.key_win = NULL
      BY DEF UI
    <3> HIDE DEF v
    <3>3. Looks(u, v) BY <3>2 DEF Looks, Kind, Task
    <3>4. Lights(v)
      BY <2>1, <3>2, Numbers DEF Dark, Lights, Kind, Screen, OnScreen, SHT_BACK, SHT_MOUSE
    <3> QED BY <3>1, <3>3, <3>4, LooksScreen DEF v
  <2>3. CASE Top(u) # 1
    <3>1. Refresh(u) = KeywinOn(u, Sheets(u, Top(u) - 1)) BY <1>2, <2>3 DEF Refresh
    <3>2. Top(u) - 1 \in 0 .. Top(u) BY TopBounds
    <3>3. Sheets(u, Top(u) - 1) \in Sids /\ Shown(u, Sheets(u, Top(u) - 1)) BY <3>2, SheetShown
    <3> QED BY <2>1, <3>1, <3>3, OnLooks, LooksScreen
  <2> QED BY <2>2, <2>3
<1> QED BY <1>1, <1>2

-----------------------------------------------------------------------------
(* Steps that send task_a nothing *)

Good(u) == u \in UI /\ Screen(u) /\ Lights(u)

\* Nothing happens to a sheet, but that it may be moved or hidden; or it has nothing
\* to do with consoles, until it is the window of one.
Kept(s) ==
    /\ Kind(ui', s) = Kind(ui, s) /\ Task(ui', s) = Task(ui, s)
    /\ Shown(ui', s) => Shown(ui, s)

Remade(s) ==
    /\ Kind(ui, s) # "console"
    /\ Kind(ui', s) = "console" =>
          cons'[Task(ui', s)].pc # "none" /\ cons'[Task(ui', s)].sht = s

\* Or it is the window of a console, comes to the screen, and nobody asks to close it.
Raised(s) ==
    /\ Kind(ui, s) = "console" /\ Kind(ui', s) = "console" /\ Task(ui', s) = Task(ui, s)
    /\ cons[Task(ui, s)].sht = s /\ ~HasClose(ui'.fifo[Task(ui, s)])
    /\ cons'[Task(ui, s)].pc # "closing"

\* Console t has just been told to close, and its window hidden.
Told(t) == cons[t].sht # NULL /\ Shown(ui, cons[t].sht) /\ ~Shown(ui', cons[t].sht)

Calm ==
    /\ Good(ui')
    /\ ui.wild => ui'.wild
    /\ \A s \in Sids : Kept(s) \/ Remade(s) \/ Raised(s)
    /\ \A t \in Tasks :
          /\ Len(ui'.fifo[t]) <= FIFO_SIZE
          /\ Live(t) => /\ OneClose(ui.fifo[t]) => OneClose(ui'.fifo[t])
                        /\ HasClose(ui'.fifo[t]) => HasClose(ui.fifo[t]) \/ Told(t)

\* A console goes on, or is started.
Takes(t) == HasClose(ui.fifo[t]) /\ ~HasClose(ui'.fifo[t])

Stays(t) ==
    /\ cons'[t].sht = cons[t].sht
    /\ cons'[t].pc = "none" <=> cons[t].pc = "none"
    /\ cons[t].pc = "dead" => cons'[t].pc = "dead"
    /\ cons'[t].pc = "closing" => cons[t].pc = "closing" \/ Takes(t)

Born(t) ==
    /\ cons[t].pc = "none" /\ cons'[t].pc = "shell" /\ cons'[t].new = NULL
    /\ ~HasClose(ui'.fifo[t])
    /\ cons'[t].sht # NULL =>
          /\ Kind(ui', cons'[t].sht) = "console" /\ Task(ui', cons'[t].sht) = t
          /\ Kind(ui, cons'[t].sht) # "console"

LEMMA SysBasics ==
    ASSUME IInv
    PROVE  /\ sys.fifo \in Seq(Exits) /\ sys.lost \in SUBSET Exits
           /\ DOMAIN sys.fifo = 1 .. Len(sys.fifo) /\ Len(sys.fifo) \in Nat
           /\ Len(sys.fifo) <= SYS_SIZE
           /\ \A k \in DOMAIN sys.fifo :
                 /\ sys.fifo[k] \in Exits /\ Settled(sys.fifo[k])
                 /\ sys.fifo[k].what \in {"console", "task", "sheet"}
                 /\ sys.fifo[k].what = "task" => sys.fifo[k].id \in Tasks
                 /\ sys.fifo[k].what # "task" =>
                       /\ sys.fifo[k].id \in Sids /\ Kind(ui, sys.fifo[k].id) = "console"
                       /\ Task(ui, sys.fifo[k].id) \in Tasks
<1>1. sys.fifo \in Seq(Exits) /\ sys.lost \in SUBSET Exits /\ Len(sys.fifo) <= SYS_SIZE
  BY DEF IInv, TypeOK
<1>2. DOMAIN sys.fifo = 1 .. Len(sys.fifo) /\ Len(sys.fifo) \in Nat BY <1>1
<1>3. \A k \in DOMAIN sys.fifo : sys.fifo[k] \in Exits /\ Settled(sys.fifo[k])
  BY <1>1 DEF IInv, Messages, ExitsMatch
<1>4. \A k \in DOMAIN sys.fifo : sys.fifo[k].what \in {"console", "task", "sheet"}
  BY <1>3 DEF Exits
<1>5. \A k \in DOMAIN sys.fifo : sys.fifo[k].what = "task" => sys.fifo[k].id \in Tasks
  BY DEF IInv, Messages, Names
<1>6. ASSUME NEW k \in DOMAIN sys.fifo, sys.fifo[k].what # "task"
      PROVE  /\ sys.fifo[k].id \in Sids /\ Kind(ui, sys.fifo[k].id) = "console"
             /\ Task(ui, sys.fifo[k].id) \in Tasks
  <2>1. sys.fifo[k].id \in Sids /\ Settled(sys.fifo[k])
    BY <1>3, <1>6 DEF IInv, Messages, Names
  <2>2. Kind(ui, sys.fifo[k].id) = "console" BY <1>6, <2>1 DEF Settled, Kind
  <2> QED BY <2>1, <2>2 DEF IInv, Screen
<1> QED BY <1>1, <1>2, <1>3, <1>4, <1>5, <1>6

LEMMA OwnersCalm ==
    ASSUME IInv, Calm, \A s \in Sids : (Asked(s) => Asked(s)') /\ (Left(s) => Left(s)'),
           \A t \in Tasks : Stays(t) \/ Born(t)
    PROVE  Owners'
<1>1. \A s \in Sids : Kind(ui, s) = "console" => Task(ui, s) \in Tasks BY DEF IInv, Screen
<1>2. \A t \in Tasks : cons[t].sht \in Sids \cup {NULL} BY DEF IInv, TypeOK, Consoles
<1>3. \A t \in Tasks : cons'[t].pc = "none" => cons'[t].sht = NULL
  BY DEF IInv, Owners, Stays, Born
<1>4. ASSUME NEW t \in Tasks, cons'[t].sht # NULL
      PROVE  Kind(ui', cons'[t].sht) = "console" /\ Task(ui', cons'[t].sht) = t
  <2>1. CASE Stays(t)
    <3>1. cons'[t].sht = cons[t].sht /\ cons[t].sht \in Sids BY <1>2, <1>4, <2>1 DEF Stays
    <3>2. Kind(ui, cons[t].sht) = "console" /\ Task(ui, cons[t].sht) = t
      BY <1>4, <3>1 DEF IInv, Owners
    <3>3. Kept(cons[t].sht) \/ Raised(cons[t].sht) BY <3>1, <3>2 DEF Calm, Remade
    <3> QED BY <3>1, <3>2, <3>3 DEF Kept, Raised
  <2>2. CASE Born(t) BY <1>4, <2>2 DEF Born
  <2> QED BY <2>1, <2>2
<1>5. ASSUME NEW s \in Sids, Kind(ui', s) = "console", ~Left(s)'
      PROVE  LET t == Task(ui', s) IN
             cons'[t].pc # "none" /\ (cons'[t].sht = s \/ (cons'[t].sht = NULL /\ Asked(s)'))
  <2>1. CASE Kept(s) \/ Raised(s)
    <3>1. Kind(ui, s) = "console" /\ Task(ui', s) = Task(ui, s) /\ Task(ui, s) \in Tasks
      BY <1>1, <1>5, <2>1 DEF Kept, Raised
    <3>2. Live(Task(ui, s)) /\ (cons[Task(ui, s)].sht = s \/ (cons[Task(ui, s)].sht = NULL /\ Asked(s)))
      BY <1>5, <3>1 DEF IInv, Owners
    <3>3. Stays(Task(ui, s)) BY <3>1, <3>2 DEF Live, Born
    <3> QED BY <3>1, <3>2, <3>3 DEF Stays, Live
  <2>2. CASE Remade(s) BY <1>5, <2>2 DEF Remade
  <2> QED BY <2>1, <2>2 DEF Calm
<1> QED BY <1>3, <1>4, <1>5 DEF Owners, Live

\* A message stays settled, and what was lost stays as it is.
LEMMA SettledCalm ==
    ASSUME IInv, Calm, \A t \in Tasks : Stays(t) \/ Born(t),
           NEW m \in Exits, Names(m), Settled(m)
    PROVE  Settled(m)'
<1>1. CASE m.what = "task"
  <2>1. m.id \in Tasks BY <1>1 DEF Names
  <2>2. Stays(m.id) BY <1>1, <2>1 DEF Settled, Born
  <2> QED BY <1>1, <2>2 DEF Settled, Stays
<1>2. CASE m.what # "task"
  <2>1. m.id \in Sids /\ Kind(ui, m.id) = "console" /\ Task(ui, m.id) \in Tasks
    <3>1. m.id \in Sids /\ Kind(ui, m.id) = "console" BY <1>2 DEF Names, Settled, Kind
    <3> QED BY <3>1 DEF IInv, Screen
  <2>2. Kept(m.id) \/ Raised(m.id) BY <2>1 DEF Calm, Remade
  <2>3. Stays(Task(ui, m.id)) BY <1>2, <2>1 DEF Settled, Born, Task
  <2>4. m.what = "sheet" => ~Raised(m.id)
    BY <2>1, Numbers DEF Settled, Raised, Task
  <2>5. m.what \in {"console", "sheet"} BY <1>2 DEF Exits
  <2>6. CASE m.what = "console"
    BY <2>2, <2>3, <2>6 DEF Settled, Kept, Raised, Kind, Task, Stays
  <2>7. CASE m.what = "sheet"
    BY <2>2, <2>3, <2>4, <2>7 DEF Settled, Kept, Kind, Task, Stays
  <2> QED BY <2>5, <2>6, <2>7
<1> QED BY <1>1, <1>2

LEMMA GoneCalm ==
    ASSUME IInv, Calm, \A t \in Tasks : Stays(t) \/ Born(t),
           NEW m \in Exits, Names(m), Gone(m)
    PROVE  Gone(m)'
<1>1. CASE m.what = "sheet"
  <2>1. /\ m.id \in Sids /\ Kind(ui, m.id) = "console" /\ ~Shown(ui, m.id)
        /\ cons[Task(ui, m.id)].sht # m.id /\ Task(ui, m.id) \in Tasks
    <3>1. m.id \in Sids /\ Kind(ui, m.id) = "console" BY <1>1 DEF Names, Gone
    <3> QED BY <1>1, <3>1 DEF Gone, IInv, Screen
  <2>2. Kept(m.id) BY <2>1 DEF Calm, Remade, Raised
  <2>3. cons'[Task(ui, m.id)].sht # m.id
    <3>1. CASE Stays(Task(ui, m.id)) BY <2>1, <3>1 DEF Stays
    <3>2. CASE Born(Task(ui, m.id)) BY <2>1, <3>2, Numbers DEF Born
    <3> QED BY <2>1, <3>1, <3>2
  <2> QED BY <1>1, <2>1, <2>2, <2>3 DEF Gone, Kept
<1>2. CASE m.what # "sheet"
  <2>1. Settled(m)' BY <1>2, SettledCalm DEF Gone
  <2> QED BY <1>2, <2>1 DEF Gone
<1> QED BY <1>1, <1>2

LEMMA FifoCalm ==
    ASSUME IInv, Calm, \A t \in Tasks : Stays(t) \/ Born(t),
           NEW k \in DOMAIN sys.fifo, sys'.fifo[k] = sys.fifo[k]
    PROVE  Settled(sys.fifo[k])'
<1>1. PICK m : m = sys.fifo[k] OBVIOUS
<1>2. m \in Exits /\ Names(m) /\ Settled(m) BY <1>1, SysBasics DEF IInv, Messages
<1>3. Settled(m)' BY <1>2, SettledCalm
<1> QED BY <1>1, <1>3 DEF Settled

LEMMA LostCalm ==
    ASSUME IInv, Calm, \A t \in Tasks : Stays(t) \/ Born(t)
    PROVE  \A m \in sys.lost : Names(m) /\ Gone(m)'
<1> SUFFICES ASSUME NEW m \in sys.lost PROVE Names(m) /\ Gone(m)' OBVIOUS
<1>1. m \in Exits /\ Names(m) /\ Gone(m) BY SysBasics DEF IInv, Forgotten
<1> QED BY <1>1, GoneCalm

LEMMA TasksOfMessages ==
    ASSUME IInv, Calm, NEW k \in DOMAIN sys.fifo, sys.fifo[k].what = "sheet"
    PROVE  Task(ui', sys.fifo[k].id) = Task(ui, sys.fifo[k].id)
<1>1. sys.fifo[k].id \in Sids /\ Kind(ui, sys.fifo[k].id) = "console" BY SysBasics
<1> QED BY <1>1 DEF Calm, Remade, Kept, Raised

LEMMA MessagesCalm ==
    ASSUME IInv, Calm, \A t \in Tasks : Stays(t) \/ Born(t), sys'.fifo = sys.fifo
    PROVE  Messages'
<1>1. \A k \in DOMAIN sys.fifo : Settled(sys.fifo[k])' BY FifoCalm
<1>2. ExitsMatch' BY <1>1 DEF IInv, Messages, ExitsMatch
<1>3. \A k \in DOMAIN sys.fifo :
         sys.fifo[k].what = "sheet" => Task(ui', sys.fifo[k].id) = Task(ui, sys.fifo[k].id)
  BY TasksOfMessages
<1>4. \A k \in DOMAIN sys'.fifo : Names(sys'.fifo[k]) BY DEF IInv, Messages
<1> QED BY <1>2, <1>3, <1>4 DEF IInv, Messages, Names

LEMMA ForgottenCalm ==
    ASSUME IInv, Calm, \A t \in Tasks : Stays(t) \/ Born(t), sys' = sys
    PROVE  Forgotten'
BY LostCalm DEF IInv, Forgotten, Names

LEMMA CloseOnceCalm ==
    ASSUME IInv, Calm, \A t \in Tasks : Stays(t) \/ Born(t)
    PROVE  CloseOnce'
<1> SUFFICES ASSUME NEW t \in Tasks, cons'[t].pc # "none"
             PROVE  /\ OneClose(ui'.fifo[t])
                    /\ HasClose(ui'.fifo[t]) \/ cons'[t].pc = "closing" =>
                          cons'[t].sht # NULL /\ ~Shown(ui', cons'[t].sht)
                    /\ cons'[t].pc = "closing" => ~HasClose(ui'.fifo[t])
  BY DEF CloseOnce, Live
<1>1. CASE Stays(t)
  <2>1. Live(t) /\ cons'[t].sht = cons[t].sht BY <1>1 DEF Stays, Live
  <2>2. /\ OneClose(ui.fifo[t])
        /\ HasClose(ui.fifo[t]) \/ cons[t].pc = "closing" =>
              cons[t].sht # NULL /\ ~Shown(ui, cons[t].sht)
        /\ cons[t].pc = "closing" => ~HasClose(ui.fifo[t])
    BY <2>1 DEF IInv, CloseOnce
  <2>3. ASSUME cons[t].sht # NULL, ~Shown(ui, cons[t].sht),
               HasClose(ui'.fifo[t]) \/ cons'[t].pc = "closing"
        PROVE  ~Shown(ui', cons[t].sht)
    <3>1. /\ cons[t].sht \in Sids /\ Kind(ui, cons[t].sht) = "console"
          /\ Task(ui, cons[t].sht) = t
      BY <2>3 DEF IInv, TypeOK, Consoles, Owners
    <3> QED BY <2>3, <3>1 DEF Calm, Kept, Remade, Raised
  <2>4. OneClose(ui'.fifo[t]) /\ (HasClose(ui'.fifo[t]) => HasClose(ui.fifo[t]) \/ Told(t))
    BY <2>1, <2>2 DEF Calm
  <2>5. CASE cons'[t].pc = "closing"
    <3>1. cons[t].pc = "closing" \/ Takes(t) BY <1>1, <2>5 DEF Stays
    <3>2. cons[t].sht # NULL /\ ~Shown(ui, cons[t].sht) BY <2>2, <3>1 DEF Takes
    <3>3. ~HasClose(ui'.fifo[t]) BY <2>2, <2>4, <3>1, <3>2 DEF Takes, Told
    <3> QED BY <2>1, <2>3, <2>4, <2>5, <3>2, <3>3
  <2>6. CASE cons'[t].pc # "closing" BY <2>1, <2>2, <2>3, <2>4, <2>6 DEF Told
  <2> QED BY <2>5, <2>6
<1>2. CASE Born(t) BY <1>2 DEF Born, OneClose, HasClose
<1> QED BY <1>1, <1>2

LEMMA OpeningByCalm ==
    ASSUME IInv, Calm, ~ui'.wild, \A v \in Tasks : Stays(v) \/ Born(v),
           NEW t \in Tasks, cons'[t] = cons[t],
           cons[t].pc \in Building /\ cons[t].new # NULL => Kept(cons[t].new)
    PROVE  OpeningBy(t)'
<1> DEFINE c == cons[t]
<1>1. OpeningBy(t) BY DEF IInv, Opening, Calm
<1>2. c.new \in Sids \cup {NULL} /\ c.to \in Tasks \cup {NOBODY} BY DEF IInv, TypeOK, Consoles
<1>3. ASSUME c.pc \in Building, c.new # NULL
      PROVE  /\ Kind(ui', c.new) = Kind(ui, c.new) /\ Task(ui', c.new) = Task(ui, c.new)
             /\ Shown(ui', c.new) => Shown(ui, c.new)
  BY <1>2, <1>3 DEF Kept
<1>4. ASSUME c.to # NOBODY, Live(c.to)
      PROVE  /\ cons'[c.to].sht = cons[c.to].sht /\ cons'[c.to].pc # "none"
             /\ HasClose(ui'.fifo[c.to]) => HasClose(ui.fifo[c.to]) \/ Told(c.to)
             /\ cons'[c.to].pc = "closing" => cons[c.to].pc = "closing" \/ HasClose(ui.fifo[c.to])
  <2>1. c.to \in Tasks BY <1>2, <1>4
  <2>2. Stays(c.to) BY <1>4, <2>1 DEF Live, Born
  <2> QED BY <1>4, <2>1, <2>2 DEF Calm, Stays, Live, Takes
<1>5. CASE c.pc = "start" BY <1>1, <1>3, <1>5 DEF OpeningBy, Building
<1>6. CASE c.pc = "show"
  <2>1. Live(c.to) /\ c.to # NOBODY
    BY <1>1, <1>2, <1>6 DEF OpeningBy, IInv, Owners, Live
  <2>2. ~Told(c.to) BY <1>1, <1>6 DEF OpeningBy, Told
  <2> QED BY <1>1, <1>3, <1>4, <1>6, <2>1, <2>2 DEF OpeningBy, Building
<1>7. CASE c.pc = "type" BY <1>1, <1>4, <1>7 DEF OpeningBy, Live
<1>8. CASE c.pc = "app" BY <1>1, <1>3, <1>8 DEF OpeningBy, Building
<1>9. CASE c.pc \notin {"start", "show", "type", "app"} BY <1>1, <1>9 DEF OpeningBy
<1> QED BY <1>5, <1>6, <1>7, <1>8, <1>9

\* Console t acts, if any does, and others are as they were or are started.
LEMMA Step ==
    ASSUME IInv, Calm, sys' = sys, cons' \in [Tasks -> Consoles],
           NEW t \in Tasks, Stays(t) \/ Born(t),
           \A v \in Tasks \ {t} : cons'[v] = cons[v] \/ Born(v),
           ~ui'.wild => OpeningBy(t)',
           \A v \in Tasks \ {t} :
              ~ui.wild /\ cons[v].pc \in Building /\ cons[v].new # NULL =>
                 /\ Kept(cons[v].new)
                 /\ cons'[t].pc \in Building => cons[v].new # cons'[t].new,
           \A s \in Sids : Kind(ui', s) = "app" => cons'[Task(ui', s)].pc \in {"app", "closing", "ending"}
    PROVE  IInv'
<1>1. \A v \in Tasks : Stays(v) \/ Born(v)
  <2>1. \A v \in Tasks : cons'[v] = cons[v] => Stays(v) BY DEF Stays
  <2> QED BY <2>1
<1>2. \A s \in Sids : (Asked(s)' <=> Asked(s)) /\ (Left(s)' <=> Left(s)) BY DEF Asked, Left
<1>3. TypeOK' BY DEF Calm, Good, IInv, TypeOK
<1>4. Opening'
  <2> SUFFICES ASSUME ~ui'.wild PROVE Opening' BY DEF Opening
  <2>1. ~ui.wild BY DEF Calm
  <2>2. ASSUME NEW v \in Tasks \ {t} PROVE OpeningBy(v)'
    <3>1. CASE cons'[v] = cons[v] BY <1>1, <2>1, <3>1, OpeningByCalm
    <3>2. CASE Born(v) BY <3>2 DEF Born, OpeningBy
    <3> QED BY <3>1, <3>2
  <2>3. ASSUME NEW v \in Tasks, NEW w \in Tasks, v # w,
               cons'[v].pc \in Building, cons'[w].pc \in Building,
               cons'[v].new = cons'[w].new, cons'[v].new # NULL
        PROVE  FALSE
    <3>1. \A x \in Tasks \ {t} : cons'[x].pc \in Building => cons'[x] = cons[x]
      BY DEF Born, Building
    <3>2. CASE v # t /\ w # t BY <2>1, <2>3, <3>1, <3>2 DEF IInv, Opening
    <3>3. CASE v = t BY <2>1, <2>3, <3>1, <3>3
    <3>4. CASE w = t BY <2>1, <2>3, <3>1, <3>4
    <3> QED BY <3>2, <3>3, <3>4
  <2> QED BY <2>2, <2>3 DEF Opening
<1>5. WindowsOwned' BY DEF WindowsOwned, Running, Kind, Task
<1>6. Messages' /\ Forgotten' BY <1>1, MessagesCalm, ForgottenCalm
<1>7. Owners' /\ CloseOnce' BY <1>1, <1>2, OwnersCalm, CloseOnceCalm
<1> QED BY <1>3, <1>4, <1>5, <1>6, <1>7 DEF IInv, Calm, Good

AllKept == \A s \in Sids : Kept(s)

LEMMA Still ==
    ASSUME IInv, Calm, AllKept, sys' = sys, cons' = cons
    PROVE  IInv'
<1>1. \A v \in Tasks : Stays(v) BY DEF Stays
<1>2. cons \in [Tasks -> Consoles] BY DEF IInv, TypeOK
<1>3. \A v \in Tasks : cons[v].new \in Sids \cup {NULL} BY <1>2 DEF Consoles
<1>4. 1 \in Tasks BY Numbers
<1>5. ~ui'.wild => OpeningBy(1)' BY <1>1, <1>3, <1>4, OpeningByCalm DEF AllKept
<1>6. \A v \in Tasks \ {1} :
         ~ui.wild /\ cons[v].pc \in Building /\ cons[v].new # NULL =>
            /\ Kept(cons[v].new)
            /\ cons'[1].pc \in Building => cons[v].new # cons'[1].new
  BY <1>3, <1>4 DEF AllKept, IInv, Opening
<1>7. \A s \in Sids : Kind(ui', s) = "app" => cons'[Task(ui', s)].pc \in {"app", "closing", "ending"}
  BY DEF IInv, WindowsOwned, Running, AllKept, Kept, Kind, Task
<1> QED BY <1>1, <1>2, <1>4, <1>5, <1>6, <1>7, Step

\* The label b follows, and nothing is being opened.
Idle == {"shell", "prompt", "app", "closing", "ending"}

LEMMA Turn ==
    ASSUME IInv, Calm, AllKept, sys' = sys, NEW t \in Tasks, NEW b \in Idle,
           cons[t].pc \in Idle \cup {"type"}, cons' \in [Tasks -> Consoles],
           \A v \in Tasks \ {t} : cons'[v] = cons[v],
           cons'[t].pc = b, cons'[t].new = NULL, cons'[t].sht = cons[t].sht,
           b \in {"shell", "prompt"} => \A s \in Sids : ~Owns(t, s),
           b = "closing" => Takes(t)
    PROVE  IInv'
<1>1. Stays(t) BY DEF Stays, Idle
<1>2. \A v \in Tasks : cons[v].new \in Sids \cup {NULL} BY DEF IInv, TypeOK, Consoles
<1>3. OpeningBy(t)' BY DEF OpeningBy, Idle
<1>4. \A v \in Tasks \ {t} :
         cons[v].pc \in Building /\ cons[v].new # NULL =>
            /\ Kept(cons[v].new)
            /\ cons'[t].pc \in Building => cons[v].new # cons'[t].new
  BY <1>2 DEF AllKept
<1>5. ASSUME NEW s \in Sids, Kind(ui', s) = "app"
      PROVE  cons'[Task(ui', s)].pc \in {"app", "closing", "ending"}
  <2>1. Kind(ui, s) = "app" /\ Task(ui', s) = Task(ui, s) BY <1>5 DEF AllKept, Kept
  <2>2. Task(ui, s) \in Tasks /\ cons[Task(ui, s)].pc \in {"app", "closing", "ending"}
    BY <2>1 DEF IInv, Screen, WindowsOwned, Running, Kind, Task
  <2>3. Task(ui, s) = t => b \in {"app", "closing", "ending"} BY <2>1 DEF Owns, Kind, Task, Idle
  <2> QED BY <2>1, <2>2, <2>3
<1> QED BY <1>1, <1>3, <1>4, <1>5, Step

\* fifo32_put into task_a's FIFO, of a message that is neither there nor lost.
LEMMA Sent ==
    ASSUME IInv, NEW m \in Exits, Send(m), Names(m), Settled(m)', Gone(m)',
           ~In(sys.fifo, m), m \notin sys.lost,
           \A x \in Exits : In(sys.fifo, x) => Settled(x)',
           \A x \in sys.lost : Gone(x)',
           \A k \in DOMAIN sys.fifo :
              /\ sys.fifo[k].what = "sheet" =>
                    Task(ui', sys.fifo[k].id) = Task(ui, sys.fifo[k].id)
              /\ sys.fifo[k].what = "task" /\ m.what = "sheet" =>
                    Task(ui', m.id) # sys.fifo[k].id
    PROVE  /\ sys' \in [fifo : Seq(Exits), lost : SUBSET Exits] /\ Len(sys'.fifo) <= SYS_SIZE
           /\ Messages' /\ Forgotten'
           /\ In(sys'.fifo, m) \/ m \in sys'.lost
           /\ \A x : (In(sys.fifo, x) => In(sys'.fifo, x)) /\ (x \in sys.lost => x \in sys'.lost)
<1>1. /\ sys \in [fifo : Seq(Exits), lost : SUBSET Exits]
      /\ DOMAIN sys.fifo = 1 .. Len(sys.fifo) /\ Len(sys.fifo) \in Nat
      /\ Len(sys.fifo) <= SYS_SIZE
  BY SysBasics DEF IInv, TypeOK
<1>2. \A x \in sys.lost : Names(x) /\ Gone(x)' /\ ~In(sys.fifo, x) BY DEF IInv, Forgotten, In
<1>3. \A k \in DOMAIN sys.fifo : Names(sys.fifo[k]) BY DEF IInv, Messages
<1>4. \A j, k \in DOMAIN sys.fifo : sys.fifo[j] = sys.fifo[k] => j = k
  <2>1. ExitsMatch BY DEF IInv, Messages
  <2> QED BY <2>1 DEF ExitsMatch
<1>5. CASE Len(sys.fifo) < SYS_SIZE /\ sys' = [sys EXCEPT !.fifo = Append(@, m)]
  <2> DEFINE n == Len(sys.fifo) + 1
  <2>1. /\ sys'.fifo = Append(sys.fifo, m) /\ sys'.lost = sys.lost
        /\ sys' \in [fifo : Seq(Exits), lost : SUBSET Exits]
    <3>1. Append(sys.fifo, m) \in Seq(Exits) BY <1>1
    <3>2. sys' = [fifo |-> Append(sys.fifo, m), lost |-> sys.lost] BY <1>1, <1>5
    <3> QED BY <1>1, <3>1, <3>2
  <2>2. /\ DOMAIN sys'.fifo = 1 .. n /\ n \in Nat /\ Len(sys'.fifo) = n /\ sys'.fifo[n] = m
        /\ \A k \in DOMAIN sys.fifo : k \in DOMAIN sys'.fifo /\ sys'.fifo[k] = sys.fifo[k] /\ k < n
        /\ \A k \in DOMAIN sys'.fifo : k \in DOMAIN sys.fifo \/ k = n
    BY <1>1, <2>1
  <2>3. n <= SYS_SIZE BY <1>1, <1>5, Numbers
  <2> HIDE DEF n
  <2>4. \A x : In(sys'.fifo, x) <=> In(sys.fifo, x) \/ x = m
    <3> SUFFICES ASSUME NEW x PROVE In(sys'.fifo, x) <=> In(sys.fifo, x) \/ x = m OBVIOUS
    <3>1. In(sys'.fifo, x) => In(sys.fifo, x) \/ x = m BY <2>2 DEF In
    <3>2. In(sys.fifo, x) => In(sys'.fifo, x) BY <2>2 DEF In
    <3>3. n \in DOMAIN sys'.fifo BY <2>2, <1>1 DEF n
    <3>4. x = m => In(sys'.fifo, x) BY <2>2, <3>3 DEF In
    <3> QED BY <3>1, <3>2, <3>4
  <2>5. \A k \in DOMAIN sys'.fifo : sys'.fifo[k] \in Exits BY <2>1
  <2>6. \A x \in Exits : In(sys'.fifo, x) => Settled(x)' BY <2>4
  <2>7. ASSUME NEW k \in DOMAIN sys'.fifo PROVE Settled(sys.fifo[k])'
    <3>1. PICK x : x = sys'.fifo[k] OBVIOUS
    <3>2. Settled(x)' BY <2>5, <2>6, <3>1 DEF In
    <3> QED BY <3>1, <3>2 DEF Settled
  <2>8. ASSUME NEW j \in DOMAIN sys'.fifo, NEW k \in DOMAIN sys'.fifo, sys'.fifo[j] = sys'.fifo[k]
        PROVE  j = k
    BY <1>4, <2>2, <2>8 DEF In
  <2>9. ExitsMatch' BY <2>7, <2>8 DEF ExitsMatch
  <2>10. \A k \in DOMAIN sys'.fifo : Names(sys'.fifo[k]) BY <1>3, <2>2
  <2>11. ASSUME NEW j \in DOMAIN sys'.fifo, NEW k \in DOMAIN sys'.fifo,
                sys'.fifo[j].what = "task", sys'.fifo[k].what = "sheet",
                Task(ui', sys'.fifo[k].id) = sys'.fifo[j].id
         PROVE  k < j
    <3>1. CASE k \in DOMAIN sys.fifo /\ j \in DOMAIN sys.fifo
      BY <2>2, <2>11, <3>1 DEF IInv, Messages
    <3>2. CASE k \in DOMAIN sys.fifo /\ j = n BY <2>2, <3>2
    <3>3. CASE k = n /\ j \in DOMAIN sys.fifo BY <2>2, <2>11, <3>3
    <3>4. CASE k = n /\ j = n BY <2>11, <3>4
    <3> QED BY <2>2, <3>1, <3>2, <3>3, <3>4
  <2>12. Messages' BY <2>9, <2>10, <2>11 DEF Messages, Names
  <2>13. Forgotten' BY <1>2, <2>1, <2>4 DEF Forgotten, In, Names
  <2> QED BY <2>1, <2>2, <2>3, <2>4, <2>12, <2>13
<1>6. CASE sys' = [sys EXCEPT !.lost = @ \cup {m}]
  <2>1. /\ sys'.fifo = sys.fifo /\ sys'.lost = sys.lost \cup {m}
        /\ sys' \in [fifo : Seq(Exits), lost : SUBSET Exits]
    BY <1>1, <1>6
  <2>2. ASSUME NEW k \in DOMAIN sys'.fifo PROVE Settled(sys.fifo[k])'
    <3>1. PICK x : x = sys'.fifo[k] OBVIOUS
    <3>2. x \in Exits BY <1>1, <2>1, <3>1
    <3>3. Settled(x)' BY <2>1, <3>1, <3>2 DEF In
    <3> QED BY <3>1, <3>3 DEF Settled
  <2>3. ExitsMatch' BY <1>4, <2>1, <2>2 DEF ExitsMatch
  <2>4. Messages' BY <1>3, <2>1, <2>3 DEF IInv, Messages, Names
  <2>5. Forgotten' BY <1>2, <2>1 DEF Forgotten, In, Names
  <2> QED BY <1>1, <2>1, <2>4, <2>5
<1> QED BY <1>5, <1>6 DEF Send

\* cmd_exit
LEMMA Stops ==
    ASSUME IInv, Calm, AllKept, NEW t \in Tasks, cons[t].pc \in {"shell", "prompt"},
           cons' = [cons EXCEPT ![t].pc = "dead"], Send(Says(t))
    PROVE  IInv' /\ (In(sys'.fifo, Says(t)) \/ Says(t) \in sys'.lost)
<1>0. PICK m : m = Says(t) OBVIOUS
<1>1. /\ cons \in [Tasks -> Consoles] /\ cons' \in [Tasks -> Consoles]
      /\ \A v \in Tasks \ {t} : cons'[v] = cons[v]
      /\ cons'[t].pc = "dead" /\ cons'[t].new = cons[t].new
      /\ cons'[t].sht = cons[t].sht /\ cons'[t].to = cons[t].to
  BY DEF IInv, TypeOK, Consoles, Labels
<1>2. cons[t].sht \in Sids \cup {NULL} BY <1>1 DEF Consoles
<1>3. m \in Exits /\ m.what # "sheet" /\ Names(m)
  BY <1>0, <1>2 DEF Says, Exit, Exits, Names
<1>5. Settled(m)'
  <2>1. CASE cons[t].sht # NULL
    <3>1. Kind(ui, cons[t].sht) = "console" /\ Task(ui, cons[t].sht) = t
      BY <2>1 DEF IInv, Owners
    <3>2. Kind(ui', cons[t].sht) = "console" /\ Task(ui', cons[t].sht) = t
      BY <1>2, <2>1, <3>1 DEF AllKept, Kept
    <3> QED BY <1>0, <1>1, <2>1, <3>2 DEF Settled, Says, Exit, Kind, Task
  <2>2. CASE cons[t].sht = NULL BY <1>0, <1>1, <2>2 DEF Settled, Says, Exit
  <2> QED BY <2>1, <2>2
<1>6. ~Settled(m)
  <2> SUFFICES ASSUME Settled(m) PROVE FALSE OBVIOUS
  <2>1. CASE cons[t].sht # NULL
    <3>1. Task(ui, cons[t].sht) = t BY <2>1 DEF IInv, Owners
    <3> QED BY <1>0, <2>1, <3>1 DEF Settled, Says, Exit, Task
  <2>2. CASE cons[t].sht = NULL BY <1>0, <2>2 DEF Settled, Says, Exit
  <2> QED BY <2>1, <2>2
<1>7. \A v \in Tasks : Stays(v) BY <1>1 DEF Stays
<1>8. ~In(sys.fifo, m) /\ m \notin sys.lost
  BY <1>3, <1>6, SysBasics DEF In, IInv, Forgotten, Gone
<1>9. \A x \in Exits : In(sys.fifo, x) => Settled(x)'
  <2> SUFFICES ASSUME NEW x \in Exits, In(sys.fifo, x) PROVE Settled(x)' OBVIOUS
  <2>1. Names(x) /\ Settled(x) BY SysBasics DEF In, IInv, Messages
  <2> QED BY <1>7, <2>1, SettledCalm
<1>10. \A x \in sys.lost : Gone(x)' BY <1>7, LostCalm
<1>11. \A k \in DOMAIN sys.fifo : sys.fifo[k].what = "sheet" =>
                                     Task(ui', sys.fifo[k].id) = Task(ui, sys.fifo[k].id)
  BY TasksOfMessages
<1>12. Gone(m)' BY <1>3, <1>5 DEF Gone
<1>13. Send(m) BY <1>0
<1>14. /\ sys' \in [fifo : Seq(Exits), lost : SUBSET Exits] /\ Len(sys'.fifo) <= SYS_SIZE
       /\ Messages' /\ Forgotten'
       /\ In(sys'.fifo, m) \/ m \in sys'.lost
       /\ \A x : (In(sys.fifo, x) => In(sys'.fifo, x)) /\ (x \in sys.lost => x \in sys'.lost)
  BY <1>3, <1>5, <1>8, <1>9, <1>10, <1>11, <1>12, <1>13, Sent
<1>15. TypeOK' BY <1>1, <1>14 DEF Calm, Good, TypeOK
<1>16. Owners'
  <2>1. \A s \in Sids : (Asked(s) => Asked(s)') /\ (Left(s) => Left(s)')
    BY <1>14 DEF Asked, Left, In
  <2> QED BY <1>7, <2>1, OwnersCalm
<1>17. CloseOnce' BY <1>7, CloseOnceCalm
<1>18. Opening'
  <2> SUFFICES ASSUME ~ui'.wild PROVE Opening' BY DEF Opening
  <2>0. ~ui.wild BY DEF Calm
  <2>5. \A v \in Tasks : cons[v].new \in Sids \cup {NULL} BY <1>1 DEF Consoles
  <2>1. \A v \in Tasks \ {t} : OpeningBy(v)' BY <1>1, <1>7, <2>5, OpeningByCalm DEF AllKept
  <2>2. cons[t].new = NULL BY <2>0 DEF IInv, Opening, OpeningBy
  <2>3. OpeningBy(t)' BY <1>1, <2>2 DEF OpeningBy
  <2>4. \A v, w \in Tasks :
           /\ cons'[v].pc \in Building /\ cons'[w].pc \in Building
           /\ cons'[v].new = cons'[w].new /\ cons'[v].new # NULL
           => v = w
    BY <1>1, <2>0, <2>2 DEF IInv, Opening
  <2> QED BY <2>1, <2>3, <2>4 DEF Opening
<1>19. WindowsOwned'
  <2> SUFFICES ASSUME NEW s \in Sids, Kind(ui', s) = "app"
               PROVE  cons'[Task(ui', s)].pc \in {"app", "closing", "ending"}
    BY DEF WindowsOwned, Running, Kind, Task
  <2>1. Kind(ui, s) = "app" /\ Task(ui', s) = Task(ui, s) BY DEF AllKept, Kept
  <2>2. Task(ui, s) \in Tasks /\ cons[Task(ui, s)].pc \in {"app", "closing", "ending"}
    BY <2>1 DEF IInv, Screen, WindowsOwned, Running, Kind, Task
  <2> QED BY <1>1, <2>1, <2>2
<1> QED BY <1>0, <1>14, <1>15, <1>16, <1>17, <1>18, <1>19 DEF IInv, Calm, Good

-----------------------------------------------------------------------------
(* What task_a does to the screen *)

\* Sheets keep what they are, and no more of them are on the screen.
Quiet(u, v) ==
    /\ Good(v) /\ v.fifo = u.fifo
    /\ u.wild => v.wild
    /\ \A s \in Sids : /\ Kind(v, s) = Kind(u, s) /\ Task(v, s) = Task(u, s)
                       /\ Shown(v, s) => Shown(u, s)

LEMMA QuietTwice ==
    ASSUME NEW u, NEW v, NEW w, Quiet(u, v), Quiet(v, w)
    PROVE  Quiet(u, w)
BY DEF Quiet

LEMMA QuietWild ==
    ASSUME NEW u, Good(u)
    PROVE  Quiet(u, u) /\ Quiet(u, Wild(u))
<1>1. Looks(u, Wild(u)) /\ Wild(u).win = u.win /\ Wild(u).key_win = u.key_win
  BY WildLooks DEF Good
<1>2. Screen(Wild(u)) BY <1>1, LooksScreen DEF Good
<1> QED BY <1>1, <1>2 DEF Good, Quiet, Looks, Lights, Kind, Shown

LEMMA QuietRefresh ==
    ASSUME NEW u, Good(u)
    PROVE  Quiet(u, Refresh(u)) /\ \A s : Shown(Refresh(u), s) <=> Shown(u, s)
<1>1. Looks(u, Refresh(u)) /\ Lights(Refresh(u)) /\ Screen(Refresh(u)) BY RefreshLooks DEF Good
<1> QED BY <1>1 DEF Good, Quiet, Looks, Shown

LEMMA QuietUpdown ==
    ASSUME NEW u, Good(u), NEW s \in Sids, NEW h \in -1 .. Top(u), Shown(u, s),
           h = -1 => Kind(u, s) # "desk"
    PROVE  /\ Quiet(u, SheetUpdown(u, s, h))
           /\ \A x : Shown(SheetUpdown(u, s, h), x) <=> Shown(u, x) /\ (x = s => h # -1)
           /\ SheetUpdown(u, s, h).key_win = u.key_win
<1> DEFINE v == SheetUpdown(u, s, h)
<1>1. Kind(u, s) \in OnScreen BY DEF Good, Screen
<1>2. /\ v \in UI /\ Screen(v)
      /\ v.win = u.win /\ v.key_win = u.key_win /\ v.fifo = u.fifo /\ v.wild = u.wild
      /\ \A x : Shown(v, x) <=> (x # s /\ Shown(u, x)) \/ (x = s /\ h # -1)
  BY <1>1, UpdownShows DEF Good
<1> HIDE DEF v
<1>3. \A x : Shown(v, x) <=> Shown(u, x) /\ (x = s => h # -1) BY <1>2
<1>4. Lights(v) BY <1>2 DEF Good, Lights, Kind
<1>5. Quiet(u, v) BY <1>2, <1>3, <1>4 DEF Good, Quiet, Kind, Task
<1> QED BY <1>2, <1>3, <1>5 DEF v

LEMMA QuietOff ==
    ASSUME NEW u, Good(u)
    PROVE  /\ Quiet(u, KeywinOff(u)) /\ Dark(KeywinOff(u))
           /\ KeywinOff(u).key_win = u.key_win
           /\ \A s : Shown(KeywinOff(u), s) <=> Shown(u, s)
<1> DEFINE v == KeywinOff(u)
<1>1. Looks(u, v) /\ v.key_win = u.key_win /\ Dark(v) BY OffLooks DEF Good
<1> HIDE DEF v
<1>2. Screen(v) BY <1>1, LooksScreen DEF Good
<1>3. Lights(v)
  BY <1>1, <1>2, Numbers DEF Dark, Lights, Screen, OnScreen, SHT_BACK, SHT_MOUSE
<1> QED BY <1>1, <1>2, <1>3 DEF v, Good, Quiet, Looks, Shown

LEMMA QuietOn ==
    ASSUME NEW u, Good(u), Dark(u), NEW s \in Sids, Shown(u, s)
    PROVE  Quiet(u, KeywinOn(u, s))
<1> DEFINE v == KeywinOn(u, s)
<1>1. Looks(u, v) /\ Lights(v) BY OnLooks DEF Good
<1> HIDE DEF v
<1>2. Screen(v) BY <1>1, LooksScreen DEF Good
<1> QED BY <1>1, <1>2 DEF v, Good, Quiet, Looks, Shown

LEMMA QuietCalm ==
    ASSUME IInv, Quiet(ui, ui')
    PROVE  Calm /\ AllKept
BY DEF IInv, TypeOK, Quiet, Calm, AllKept, Kept

LEMMA QuietStill ==
    ASSUME IInv, Quiet(ui, ui'), UNCHANGED <<cons, sys>>
    PROVE  IInv'
BY QuietCalm, Still

LEMMA KeyTasks ==
    ASSUME NEW u, Good(u)
    PROVE  KeyTask(u) \in Tasks \cup {NOBODY} /\ u.key_win \in Sids \cup {NULL}
<1>1. u.key_win \in Sids \cup {NULL} BY DEF Good, UI
<1>2. \A s \in Sids : u.win[s].task \in Tasks \cup {NOBODY} BY DEF Good, UI
<1> QED BY <1>1, <1>2 DEF KeyTask

\* fifo32_put, when the other FIFOs are as before
LEMMA Puts ==
    ASSUME NEW u, Good(u), \A t \in Tasks : Len(u.fifo[t]) <= FIFO_SIZE,
           NEW t \in Tasks, NEW m \in {CLOSE, ENTER}
    PROVE  LET v == Put(u, t, m) IN
           /\ Good(v) /\ v.stack = u.stack /\ v.win = u.win /\ v.wild = u.wild
           /\ \A x \in Tasks : Len(v.fifo[x]) <= FIFO_SIZE
           /\ \A x \in Tasks \ {t} : v.fifo[x] = u.fifo[x]
           /\ v.fifo[t] = u.fifo[t] \/ v.fifo[t] = Append(u.fifo[t], m)
<1>1. CASE Len(u.fifo[t]) = FIFO_SIZE
  <2>1. Put(u, t, m) = u BY <1>1 DEF Put
  <2> QED BY <2>1
<1>2. CASE Len(u.fifo[t]) # FIFO_SIZE
  <2> DEFINE q == Append(u.fifo[t], m)
             F == [u.fifo EXCEPT ![t] = q]
             v == [u EXCEPT !.fifo = F]
  <2>1. Put(u, t, m) = v BY <1>2 DEF Put, Good, UI
  <2>2. u.fifo \in [Tasks -> Seq({CLOSE, ENTER})] /\ u.fifo[t] \in Seq({CLOSE, ENTER})
    BY DEF Good, UI
  <2>3. q \in Seq({CLOSE, ENTER}) /\ Len(q) = Len(u.fifo[t]) + 1 BY <2>2
  <2>4. Len(q) <= FIFO_SIZE BY <1>2, <2>2, <2>3, Numbers
  <2> HIDE DEF q
  <2>5. F \in [Tasks -> Seq({CLOSE, ENTER})] /\ F[t] = q /\ \A x \in Tasks \ {t} : F[x] = u.fifo[x]
    BY <2>2, <2>3
  <2> HIDE DEF F
  <2>6. /\ v \in UI /\ v.fifo = F /\ v.stack = u.stack /\ v.win = u.win /\ v.wild = u.wild
        /\ v.key_win = u.key_win
    BY <2>5 DEF Good, UI
  <2> HIDE DEF v
  <2>7. Screen(v) /\ Lights(v) BY <2>6 DEF Good, Screen, Lights, Kind, Task, Shown
  <2> QED BY <2>1, <2>4, <2>5, <2>6, <2>7 DEF Good, q
<1> QED BY <1>1, <1>2

LEMMA EnterCalm ==
    ASSUME IInv, NEW v, Quiet(ui, v), NEW t \in Tasks, ui' = Put(v, t, ENTER)
    PROVE  Calm /\ AllKept
<1>1. /\ Good(ui') /\ ui'.stack = v.stack /\ ui'.win = v.win /\ ui'.wild = v.wild
      /\ \A x \in Tasks : Len(ui'.fifo[x]) <= FIFO_SIZE
      /\ \A x \in Tasks \ {t} : ui'.fifo[x] = v.fifo[x]
      /\ ui'.fifo[t] = v.fifo[t] \/ ui'.fifo[t] = Append(v.fifo[t], ENTER)
  <2>1. \A x \in Tasks : Len(v.fifo[x]) <= FIFO_SIZE BY DEF IInv, TypeOK, Quiet
  <2> DEFINE P(m) == LET w == Put(v, t, m) IN
                     /\ Good(w) /\ w.stack = v.stack /\ w.win = v.win /\ w.wild = v.wild
                     /\ \A x \in Tasks : Len(w.fifo[x]) <= FIFO_SIZE
                     /\ \A x \in Tasks \ {t} : w.fifo[x] = v.fifo[x]
                     /\ w.fifo[t] = v.fifo[t] \/ w.fifo[t] = Append(v.fifo[t], m)
  <2>2. \A m \in {CLOSE, ENTER} : P(m) BY <2>1, Puts, ZenonT(60) DEF Quiet
  <2> HIDE DEF P
  <2>3. P(ENTER) BY <2>2
  <2> QED BY <2>3 DEF P
<1>2. /\ v.fifo = ui.fifo /\ (ui.wild => v.wild)
      /\ \A s \in Sids : /\ Kind(v, s) = Kind(ui, s) /\ Task(v, s) = Task(ui, s)
                         /\ Shown(v, s) => Shown(ui, s)
  BY DEF Quiet
<1>3. AllKept BY <1>1, <1>2 DEF AllKept, Kept, Kind, Task, Shown
<1>4. \A x \in Tasks :
         /\ OneClose(ui.fifo[x]) => OneClose(ui'.fifo[x])
         /\ HasClose(ui'.fifo[x]) => HasClose(ui.fifo[x])
  <2>1. ui.fifo[t] \in Seq({CLOSE, ENTER}) BY DEF IInv, TypeOK, UI
  <2>2. /\ HasClose(Append(ui.fifo[t], ENTER)) <=> HasClose(ui.fifo[t])
        /\ OneClose(ui.fifo[t]) => OneClose(Append(ui.fifo[t], ENTER))
    BY <2>1, EnterAppended
  <2>3. \A x \in Tasks : \/ ui'.fifo[x] = ui.fifo[x]
                         \/ x = t /\ ui'.fifo[x] = Append(ui.fifo[t], ENTER)
    BY <1>1, <1>2
  <2> QED BY <2>2, <2>3
<1> QED BY <1>1, <1>2, <1>3, <1>4 DEF Calm, AllKept

LEMMA RestBasics ==
    ASSUME IInv, NEW t \in Tasks, ui.fifo[t] # <<>>
    PROVE  /\ Good(Rest(t)) /\ Rest(t).stack = ui.stack /\ Rest(t).win = ui.win
           /\ Rest(t).wild = ui.wild /\ Rest(t).fifo[t] = Tail(ui.fifo[t])
           /\ \A x \in Tasks \ {t} : Rest(t).fifo[x] = ui.fifo[x]
           /\ \A x \in Tasks : /\ Len(Rest(t).fifo[x]) <= FIFO_SIZE
                               /\ OneClose(ui.fifo[x]) => OneClose(Rest(t).fifo[x])
                               /\ HasClose(Rest(t).fifo[x]) => HasClose(ui.fifo[x])
<1> DEFINE q == Tail(ui.fifo[t])
           F == [ui.fifo EXCEPT ![t] = q]
           v == Rest(t)
<1>1. /\ ui \in UI /\ ui.fifo \in [Tasks -> Seq({CLOSE, ENTER})]
      /\ ui.fifo[t] \in Seq({CLOSE, ENTER}) /\ Len(ui.fifo[t]) <= FIFO_SIZE
  BY DEF IInv, TypeOK, UI
<1>2. /\ q \in Seq({CLOSE, ENTER}) /\ Len(q) = Len(ui.fifo[t]) - 1
      /\ HasClose(q) => HasClose(ui.fifo[t])
      /\ OneClose(ui.fifo[t]) => OneClose(q)
  BY <1>1, HeadTaken
<1>3. v = [ui EXCEPT !.fifo = F] BY <1>1 DEF Rest, UI
<1>4. Len(q) <= FIFO_SIZE BY <1>1, <1>2, Numbers
<1> HIDE DEF q, v
<1>5. F \in [Tasks -> Seq({CLOSE, ENTER})] /\ F[t] = q /\ \A x \in Tasks \ {t} : F[x] = ui.fifo[x]
  BY <1>1, <1>2
<1> HIDE DEF F
<1>6. /\ v \in UI /\ v.fifo = F /\ v.stack = ui.stack /\ v.win = ui.win /\ v.wild = ui.wild
      /\ v.key_win = ui.key_win
  BY <1>1, <1>3, <1>5 DEF UI
<1>7. Good(v) BY <1>6 DEF Good, IInv, Screen, Lights, Kind, Task, Shown
<1>8. \A x \in Tasks : Len(ui.fifo[x]) <= FIFO_SIZE BY DEF IInv, TypeOK
<1> QED BY <1>2, <1>4, <1>5, <1>6, <1>7, <1>8 DEF v, q

LEMMA RestCalm ==
    ASSUME IInv, NEW t \in Tasks, ui.fifo[t] # <<>>, ui' = Rest(t)
    PROVE  Calm /\ AllKept
BY RestBasics DEF Calm, AllKept, Kept, Kind, Task, Shown

-----------------------------------------------------------------------------
(* Events *)

LEMMA Refreshed ==
    ASSUME IInv
    PROVE  Good(Refresh(ui)) /\ Quiet(ui, Refresh(ui)) /\ Good(ui)
BY QuietRefresh DEF IInv, Good, TypeOK, Quiet

LEMMA KeyEnterKeeps ==
    ASSUME IInv, KeyEnter PROVE IInv'
<1> DEFINE u == Refresh(ui)
<1>1. Good(u) /\ Quiet(ui, u) BY Refreshed
<1> HIDE DEF u
<1>2. /\ ui' = IF u.key_win = NULL THEN u
               ELSE IF KeyTask(u) = NOBODY THEN Wild(u) ELSE Put(u, KeyTask(u), ENTER)
      /\ UNCHANGED <<cons, sys>>
  BY DEF KeyEnter, Handle, u
<1>3. CASE u.key_win = NULL BY <1>1, <1>2, <1>3, QuietStill
<1>4. CASE u.key_win # NULL /\ KeyTask(u) = NOBODY
  BY <1>1, <1>2, <1>4, QuietWild, QuietTwice, QuietStill
<1>5. CASE u.key_win # NULL /\ KeyTask(u) # NOBODY
  <2>1. KeyTask(u) \in Tasks BY <1>1, <1>5, KeyTasks
  <2>2. Calm /\ AllKept BY <1>1, <1>2, <1>5, <2>1, EnterCalm
  <2> QED BY <1>2, <2>2, Still
<1> QED BY <1>3, <1>4, <1>5

LEMMA TabKeeps ==
    ASSUME IInv, Tab PROVE IInv'
<1> DEFINE u == Refresh(ui)
           w == KeywinOff(u)
           j == Height(w, w.key_win) - 1
<1>1. Good(u) /\ Quiet(ui, u) BY Refreshed
<1> HIDE DEF u
<1>2. /\ ui' = IF u.key_win = NULL THEN u ELSE Tabbed(w)
      /\ UNCHANGED <<cons, sys>>
  BY DEF Tab, Handle, u
<1>3. CASE u.key_win = NULL BY <1>1, <1>2, <1>3, QuietStill
<1>4. CASE u.key_win # NULL
  <2>1. Quiet(u, w) /\ Dark(w) BY <1>1, QuietOff
  <2> HIDE DEF w
  <2>2. Good(w) /\ Quiet(ui, w) BY <1>1, <2>1, QuietTwice DEF Quiet
  <2>3. CASE j < 0
    <3>1. ui' = Wild(w) BY <1>2, <1>4, <2>3 DEF Tabbed
    <3> QED BY <1>2, <2>2, <3>1, QuietWild, QuietTwice, QuietStill
  <2>4. CASE ~(j < 0)
    <3> DEFINE h == IF j = 0 THEN Top(w) - 1 ELSE j
    <3>1. ui' = KeywinOn(w, Sheets(w, h)) BY <1>2, <1>4, <2>4 DEF Tabbed
    <3>2. Top(w) \in Nat /\ Top(w) >= 1 BY <2>2, TopBounds DEF Good
    <3>3. j \in 0 .. Top(w)
      <4>1. Height(w, w.key_win) \in 0 .. Top(w) \/ Height(w, w.key_win) = -1
        BY <2>2, HeightBounds DEF Good
      <4> QED BY <2>4, <3>2, <4>1
    <3>4. h \in 0 .. Top(w) BY <3>2, <3>3
    <3>5. Sheets(w, h) \in Sids /\ Shown(w, Sheets(w, h)) BY <2>2, <3>4, SheetShown DEF Good
    <3>6. Quiet(w, ui') BY <2>1, <2>2, <3>1, <3>5, QuietOn
    <3> QED BY <1>2, <2>2, <3>6, QuietTwice, QuietStill
  <2> QED BY <2>3, <2>4
<1> QED BY <1>3, <1>4

\* F11, a click, and the sheet that a click is on
LEMMA RaiseQuiet ==
    ASSUME NEW u, Good(u), NEW s \in Sids, Shown(u, s)
    PROVE  /\ Quiet(u, SheetUpdown(u, s, Top(u) - 1))
           /\ \A x : Shown(SheetUpdown(u, s, Top(u) - 1), x) <=> Shown(u, x)
<1>1. Top(u) \in Nat /\ Top(u) >= 1 BY TopBounds DEF Good
<1> DEFINE h == Top(u) - 1
<1>2. h \in -1 .. Top(u) /\ h # -1 BY <1>1
<1> HIDE DEF h
<1>3. Quiet(u, SheetUpdown(u, s, h)) /\ \A x : Shown(SheetUpdown(u, s, h), x) <=> Shown(u, x)
  BY <1>2, QuietUpdown
<1> QED BY <1>3 DEF h

LEMMA F11Keeps ==
    ASSUME IInv, F11 PROVE IInv'
<1> DEFINE u == Refresh(ui)
<1>1. Good(u) /\ Quiet(ui, u) BY Refreshed
<1> HIDE DEF u
<1>2. ui' = SheetUpdown(u, Sheets(u, 1), Top(u) - 1) /\ UNCHANGED <<cons, sys>>
  BY DEF F11, Handle, u
<1>3. 1 \in 0 .. Top(u) BY <1>1, TopBounds DEF Good
<1>4. Sheets(u, 1) \in Sids /\ Shown(u, Sheets(u, 1)) BY <1>1, <1>3, SheetShown DEF Good
<1>5. Quiet(u, ui') BY <1>1, <1>2, <1>4, RaiseQuiet
<1> QED BY <1>1, <1>2, <1>5, QuietTwice, QuietStill

LEMMA ClickedQuiet ==
    ASSUME IInv, NEW s \in Sids, Clickable(s)
    PROVE  Quiet(ui, Clicked(s)) /\ Shown(ui, s) /\ Shown(Clicked(s), s)
<1> DEFINE u == Refresh(ui)
           v == SheetUpdown(u, s, Top(u) - 1)
<1>1. Good(u) /\ Quiet(ui, u) /\ Good(ui) BY Refreshed
<1>2. Shown(ui, s)
  <2> SUFFICES ASSUME ~Shown(ui, s) PROVE FALSE OBVIOUS
  <2>1. Height(ui, s) = -1 BY <1>1, HeightBounds DEF Good
  <2>2. Top(ui) \in Nat BY <1>1, TopBounds DEF Good
  <2> QED BY <2>1, <2>2 DEF Clickable
<1>3. Shown(u, s) BY <1>1, <1>2, QuietRefresh
<1>4. Clicked(s) = IF s = u.key_win THEN v ELSE KeywinOn(KeywinOff(v), s)
  BY DEF Clicked
<1> HIDE DEF u
<1>5. Quiet(u, v) /\ Shown(v, s) BY <1>1, <1>3, RaiseQuiet
<1> HIDE DEF v
<1>6. Quiet(ui, v) /\ Good(v) BY <1>1, <1>5, QuietTwice DEF Quiet
<1>7. CASE s = u.key_win BY <1>2, <1>4, <1>5, <1>6, <1>7
<1>8. CASE s # u.key_win
  <2> DEFINE w == KeywinOff(v)
  <2>1. Quiet(v, w) /\ Dark(w) /\ Shown(w, s) BY <1>5, <1>6, QuietOff
  <2> HIDE DEF w
  <2>2. Clicked(s) = KeywinOn(w, s) BY <1>4, <1>8 DEF w
  <2>3. Good(w) BY <2>1 DEF Quiet
  <2>4. Quiet(w, KeywinOn(w, s)) /\ KeywinOn(w, s).stack = w.stack
    BY <2>1, <2>3, QuietOn, OnLooks DEF Good, Looks
  <2>5. Quiet(ui, Clicked(s)) BY <1>6, <2>1, <2>2, <2>4, QuietTwice
  <2>6. Shown(Clicked(s), s) BY <2>1, <2>2, <2>4 DEF Shown
  <2> QED BY <1>2, <2>5, <2>6
<1> QED BY <1>7, <1>8

LEMMA ClickKeeps ==
    ASSUME IInv, NEW s \in Sids, Click(s) PROVE IInv'
BY ClickedQuiet, QuietStill DEF Click, Handle

LEMMA BrokenKeeps ==
    ASSUME IInv, Quiet(ui, ui'), sys' = sys, NEW t \in Tasks, cons[t].pc \in Running, Broken(t)
    PROVE  IInv'
<1>1. cons \in [Tasks -> Consoles] BY DEF IInv, TypeOK
<1>2. /\ cons' \in [Tasks -> Consoles] /\ \A v \in Tasks \ {t} : cons'[v] = cons[v]
      /\ cons'[t].pc = "ending" /\ cons'[t].new = NULL /\ cons'[t].sht = cons[t].sht
  BY <1>1 DEF Broken, Consoles, Labels
<1>3. "ending" \in Idle /\ cons[t].pc \in Idle BY DEF Idle, Running
<1> QED BY <1>2, <1>3, QuietCalm, Turn

LEMMA ShiftF1Keeps ==
    ASSUME IInv, ShiftF1 PROVE IInv'
<1> DEFINE u == Refresh(ui)
           t == KeyTask(u)
<1>1. Good(u) /\ Quiet(ui, u) BY Refreshed
<1>2. /\ ui' = u /\ UNCHANGED sys
      /\ IF t # NOBODY /\ cons[t].pc \in Running THEN Broken(t) ELSE UNCHANGED cons
  BY DEF ShiftF1, Handle
<1> HIDE DEF u
<1>3. t \in Tasks \cup {NOBODY} BY <1>1, KeyTasks
<1> HIDE DEF t
<1>4. CASE t # NOBODY /\ cons[t].pc \in Running BY <1>1, <1>2, <1>3, <1>4, BrokenKeeps
<1>5. CASE ~(t # NOBODY /\ cons[t].pc \in Running) BY <1>1, <1>2, <1>5, QuietStill
<1> QED BY <1>4, <1>5

LEMMA CloseAppKeeps ==
    ASSUME IInv, NEW s \in Sids, CloseApp(s) PROVE IInv'
<1> DEFINE t == ui.win[s].task
<1>1. /\ Clickable(s) /\ ui.win[s].kind = "app"
      /\ IF cons[t].pc \in Running THEN Handle(Clicked(s)) /\ Broken(t)
         ELSE Handle(Wild(Clicked(s))) /\ UNCHANGED cons
  BY DEF CloseApp
<1>2. t \in Tasks BY <1>1 DEF IInv, Screen, Kind, Task
<1>3. Quiet(ui, Clicked(s)) BY <1>1, ClickedQuiet
<1> HIDE DEF t
<1>4. CASE cons[t].pc \in Running BY <1>1, <1>2, <1>3, <1>4, BrokenKeeps DEF Handle
<1>5. CASE cons[t].pc \notin Running
  <2>1. Quiet(ui, ui') BY <1>1, <1>3, <1>5, QuietWild, QuietTwice DEF Handle, Quiet
  <2> QED BY <1>1, <1>5, <2>1, QuietStill DEF Handle
<1> QED BY <1>4, <1>5

\* The window is on the screen, so that its console has not been told before.
LEMMA CloseConsoleKeeps ==
    ASSUME IInv, NEW s \in Sids, CloseConsole(s) PROVE IInv'
<1> DEFINE c == Clicked(s)
           v == SheetUpdown(c, s, -1)
           w == KeywinOff(v)
           x == KeywinOn(w, Sheets(w, Top(w) - 1))
           t == ui.win[s].task
<1>1. /\ Clickable(s) /\ ui.win[s].kind # "app" /\ UNCHANGED <<cons, sys>>
      /\ ui' = IF t = NOBODY THEN Wild(ui) ELSE Put(x, t, CLOSE)
  BY DEF CloseConsole, Handle
<1>2. Good(ui) /\ Quiet(ui, c) /\ Shown(ui, s) /\ Shown(c, s) BY <1>1, Refreshed, ClickedQuiet
<1>3. CASE t = NOBODY BY <1>1, <1>2, <1>3, QuietWild, QuietStill
<1>4. CASE t # NOBODY
  <2>1. t \in Tasks /\ Kind(ui, s) = "console" /\ Task(ui, s) = t
    <3>1. t \in Tasks BY <1>2, <1>4 DEF Good, UI
    <3> QED BY <1>1, <3>1 DEF IInv, Screen, Kind, Task
  <2> HIDE DEF t
  <2>2. Good(c) /\ Kind(c, s) = "console" BY <1>2, <2>1 DEF Quiet
  <2> HIDE DEF c
  <2>3. Quiet(c, v) /\ ~Shown(v, s)
    <3>1. Top(c) \in Nat BY <2>2, TopBounds DEF Good
    <3>2. -1 \in -1 .. Top(c) BY <3>1
    <3> DEFINE h == -1
    <3>3. h \in -1 .. Top(c) /\ h = -1 BY <3>2
    <3> HIDE DEF h
    <3>4. /\ Quiet(c, SheetUpdown(c, s, h))
          /\ \A y : Shown(SheetUpdown(c, s, h), y) <=> Shown(c, y) /\ (y = s => h # -1)
      BY <1>2, <2>2, <3>3, QuietUpdown
    <3> QED BY <3>3, <3>4 DEF h
  <2>4. Good(v) BY <2>3 DEF Quiet
  <2> HIDE DEF v
  <2>5. Quiet(v, w) /\ Dark(w) /\ Good(w) BY <2>4, QuietOff DEF Quiet
  <2> HIDE DEF w
  <2>6. Quiet(w, x)
    <3>1. Top(w) - 1 \in 0 .. Top(w) BY <2>5, TopBounds DEF Good
    <3>2. Sheets(w, Top(w) - 1) \in Sids /\ Shown(w, Sheets(w, Top(w) - 1))
      BY <2>5, <3>1, SheetShown DEF Good
    <3> QED BY <2>5, <3>2, QuietOn
  <2>7. ui' = Put(x, t, CLOSE) BY <1>1, <1>4
  <2> HIDE DEF x
  <2>8. Quiet(ui, x) /\ Good(x) /\ ~Shown(x, s)
    BY <1>2, <2>3, <2>5, <2>6, QuietTwice DEF Quiet
  <2>9. /\ Good(ui') /\ ui'.stack = x.stack /\ ui'.win = x.win /\ ui'.wild = x.wild
        /\ \A y \in Tasks : Len(ui'.fifo[y]) <= FIFO_SIZE
        /\ \A y \in Tasks \ {t} : ui'.fifo[y] = x.fifo[y]
        /\ ui'.fifo[t] = x.fifo[t] \/ ui'.fifo[t] = Append(x.fifo[t], CLOSE)
    <3> DEFINE P(m) == LET z == Put(x, t, m) IN
                       /\ Good(z) /\ z.stack = x.stack /\ z.win = x.win /\ z.wild = x.wild
                       /\ \A y \in Tasks : Len(z.fifo[y]) <= FIFO_SIZE
                       /\ \A y \in Tasks \ {t} : z.fifo[y] = x.fifo[y]
                       /\ z.fifo[t] = x.fifo[t] \/ z.fifo[t] = Append(x.fifo[t], m)
    <3>1. \A y \in Tasks : Len(x.fifo[y]) <= FIFO_SIZE BY <2>8 DEF IInv, TypeOK, Quiet
    <3>2. \A m \in {CLOSE, ENTER} : P(m) BY <2>1, <2>8, <3>1, Puts
    <3> HIDE DEF P
    <3>3. P(CLOSE) BY <3>2
    <3> QED BY <2>7, <3>3 DEF P
  <2>10. AllKept BY <2>8, <2>9 DEF Quiet, AllKept, Kept, Kind, Task, Shown
  <2>11. cons[t].sht = s /\ ~HasClose(ui.fifo[t])
    <3>0. ~Left(s)
      <4> SUFFICES ASSUME Left(s) PROVE FALSE OBVIOUS
      <4>1. Gone(Exit("sheet", s)) BY DEF Left, IInv, Forgotten
      <4> QED BY <1>2, <4>1 DEF Gone, Exit
    <3>1. Live(t) /\ (cons[t].sht = s \/ (cons[t].sht = NULL /\ Asked(s)))
      BY <2>1, <3>0 DEF IInv, Owners
    <3>2. ~Asked(s)
      <4> SUFFICES ASSUME NEW k \in DOMAIN sys.fifo, sys.fifo[k] = Exit("sheet", s) PROVE FALSE
        BY DEF Asked
      <4>1. Settled(Exit("sheet", s)) BY DEF IInv, Messages, ExitsMatch
      <4> QED BY <1>2, <4>1 DEF Settled, Exit
    <3> QED BY <1>2, <2>1, <3>1, <3>2 DEF IInv, CloseOnce
  <2>12. Told(t)
    BY <1>2, <2>8, <2>9, <2>11, Numbers DEF Told, Shown
  <2>13. /\ OneClose(ui.fifo[t]) => OneClose(ui'.fifo[t])
    <3>1. ui.fifo[t] \in Seq({CLOSE, ENTER}) /\ x.fifo = ui.fifo
      BY <2>1, <2>8 DEF IInv, TypeOK, UI, Quiet
    <3>2. OneClose(Append(ui.fifo[t], CLOSE)) BY <2>11, <3>1, CloseAppended
    <3> QED BY <2>9, <3>1, <3>2
  <2>14. \A y \in Tasks \ {t} : ui'.fifo[y] = ui.fifo[y] BY <2>8, <2>9 DEF Quiet
  <2>15. ui.wild => ui'.wild BY <2>8, <2>9 DEF Quiet
  <2>16. \A y \in Tasks :
            Live(y) => /\ OneClose(ui.fifo[y]) => OneClose(ui'.fifo[y])
                       /\ HasClose(ui'.fifo[y]) => HasClose(ui.fifo[y]) \/ Told(y)
    BY <2>12, <2>13, <2>14
  <2>17. Calm BY <2>9, <2>10, <2>15, <2>16 DEF Calm, AllKept
  <2> QED BY <1>1, <2>10, <2>17, Still
<1> QED BY <1>3, <1>4

-----------------------------------------------------------------------------
(* Sheets and consoles that are new *)

LEMMA Vacant ==
    ASSUME IInv, NEW n \in Tasks, cons[n] = CLOSED
    PROVE  /\ ~Live(n) /\ cons[n].pc = "none"
           /\ \A s \in Sids : Kind(ui, s) = "app" => Task(ui, s) # n
<1>1. cons[n].pc = "none" BY DEF CLOSED
<1>2. ASSUME NEW s \in Sids, Kind(ui, s) = "app" PROVE Task(ui, s) # n
  <2>1. cons[Task(ui, s)].pc \in {"app", "closing", "ending"} BY <1>2 DEF IInv, WindowsOwned, Running, Kind, Task
  <2> QED BY <1>1, <2>1
<1> QED BY <1>1, <1>2 DEF Live

\* What is being opened is not free.
LEMMA Opened ==
    ASSUME IInv, ~ui.wild, NEW t \in Tasks, cons[t].pc \in Building, cons[t].new # NULL
    PROVE  /\ cons[t].new \in Sids
           /\ \/ Kind(ui, cons[t].new) = "plain"
              \/ Kind(ui, cons[t].new) = "console" /\ cons[t].pc = "show"
              \/ Kind(ui, cons[t].new) = "app" /\ Task(ui, cons[t].new) = t /\ cons[t].pc = "app"
<1>1. cons[t].new \in Sids BY DEF IInv, TypeOK, Consoles
<1>2. OpeningBy(t) BY DEF IInv, Opening
<1> QED BY <1>1, <1>2 DEF OpeningBy, Building

LEMMA ConsoledGood ==
    ASSUME NEW u, Good(u), NEW s \in Sids, Kind(u, s) \in {"free", "plain"}, NEW t \in Tasks
    PROVE  LET v == Consoled(u, s, t) IN
           /\ Good(v) /\ (Dark(u) => Dark(v))
           /\ v.stack = u.stack /\ v.wild = u.wild
           /\ \A x \in Sids \ {s} : v.win[x] = u.win[x]
           /\ Kind(v, s) = "console" /\ Task(v, s) = t /\ ~Shown(v, s)
           /\ v.fifo[t] = <<>> /\ \A x \in Tasks \ {t} : v.fifo[x] = u.fifo[x]
<1> DEFINE w == [kind |-> "console", task |-> t, lit |-> FALSE]
           W == [u.win EXCEPT ![s] = w]
           F == [u.fifo EXCEPT ![t] = <<>>]
           v == [u EXCEPT !.win = W, !.fifo = F]
<1>1. /\ u \in UI /\ u.fifo \in [Tasks -> Seq({CLOSE, ENTER})]
      /\ u.win \in [Sids -> [kind : Kinds, task : Tasks \cup {NOBODY}, lit : BOOLEAN]]
  BY DEF Good, UI
<1>2. Consoled(u, s, t) = v BY <1>1 DEF Consoled, UI
<1>3. /\ w \in [kind : Kinds, task : Tasks \cup {NOBODY}, lit : BOOLEAN]
      /\ w.kind = "console" /\ w.task = t /\ ~w.lit
  BY DEF Kinds
<1> HIDE DEF w
<1>4. /\ W \in [Sids -> [kind : Kinds, task : Tasks \cup {NOBODY}, lit : BOOLEAN]]
      /\ W[s] = w /\ \A x \in Sids \ {s} : W[x] = u.win[x]
  BY <1>1, <1>3
<1>5. <<>> \in Seq({CLOSE, ENTER}) OBVIOUS
<1>6. /\ F \in [Tasks -> Seq({CLOSE, ENTER})] /\ F[t] = <<>>
      /\ \A x \in Tasks \ {t} : F[x] = u.fifo[x]
  BY <1>1, <1>5
<1> HIDE DEF W, F
<1>7. /\ v \in UI /\ v.win = W /\ v.fifo = F /\ v.stack = u.stack /\ v.wild = u.wild
      /\ v.key_win = u.key_win
  BY <1>1, <1>4, <1>6 DEF UI
<1> HIDE DEF v
<1>8. ~Shown(u, s) /\ s \notin {SHT_BACK, SHT_MOUSE} BY DEF Good, Screen, OnScreen
<1>9. Kind(v, s) = "console" /\ Task(v, s) = t /\ ~v.win[s].lit BY <1>3, <1>4, <1>7 DEF Kind, Task
<1>10. \A x \in Sids \ {s} : v.win[x] = u.win[x] /\ Kind(v, x) = Kind(u, x) /\ Task(v, x) = Task(u, x)
  BY <1>4, <1>7 DEF Kind, Task
<1>11. Screen(v)
  <2>1. \A x : Shown(v, x) <=> Shown(u, x) BY <1>7 DEF Shown
  <2>2. \A j, k \in DOMAIN v.stack : v.stack[j] = v.stack[k] => j = k BY <1>7 DEF Good, Screen
  <2>3. \A x \in Sids : Shown(v, x) => Kind(v, x) \in OnScreen
    BY <1>8, <1>10, <2>1 DEF Good, Screen
  <2>4. \A x \in Sids : Kind(v, x) = "desk" <=> x \in {SHT_BACK, SHT_MOUSE}
    BY <1>8, <1>9, <1>10 DEF Good, Screen
  <2>5. \A x \in Sids : Task(v, x) \in Tasks <=> Kind(v, x) \in {"app", "console"}
    BY <1>9, <1>10 DEF Good, Screen
  <2> QED BY <2>1, <2>2, <2>3, <2>4, <2>5 DEF Good, Screen
<1>12. Lights(v) BY <1>7, <1>9, <1>10 DEF Good, Lights
<1>13. Dark(u) => Dark(v) BY <1>9, <1>10 DEF Dark
<1>14. ~Shown(v, s) BY <1>7, <1>8 DEF Shown
<1> QED BY <1>2, <1>6, <1>7, <1>9, <1>10, <1>11, <1>12, <1>13, <1>14 DEF Good

\* Console n is started, with window s.
LEMMA StartedCalm ==
    ASSUME IInv, NEW n \in Tasks, NEW s \in Sids, cons[n] = CLOSED, cons'[n] = Started(s),
           Kind(ui, s) \in {"free", "plain"},
           Kind(ui', s) = "console", Task(ui', s) = n, \A x \in Sids \ {s} : Kept(x),
           Good(ui'), ui.wild => ui'.wild,
           ui'.fifo[n] = <<>>, \A x \in Tasks \ {n} : ui'.fifo[x] = ui.fifo[x]
    PROVE  Calm /\ Born(n)
<1>1. ~Live(n) /\ cons[n].pc = "none" BY Vacant
<1>2. cons'[n].pc = "shell" /\ cons'[n].new = NULL /\ cons'[n].sht = s BY DEF Started, CLOSED
<1>3. Remade(s) BY <1>2 DEF Remade
<1>4. Len(ui'.fifo[n]) <= FIFO_SIZE BY Numbers
<1>5. \A x \in Tasks : Len(ui'.fifo[x]) <= FIFO_SIZE BY <1>4 DEF IInv, TypeOK
<1>6. ~HasClose(ui'.fifo[n]) BY DEF HasClose
<1>7. Born(n) BY <1>1, <1>2, <1>6 DEF Born
<1> QED BY <1>1, <1>3, <1>5, <1>7 DEF Calm

LEMMA StartedType ==
    ASSUME NEW s \in Sids \cup {NULL}
    PROVE  Started(s) \in Consoles /\ CLOSED \in Consoles
BY DEF Started, CLOSED, Consoles, Labels

LEMMA ShiftF2Keeps ==
    ASSUME IInv, ShiftF2 PROVE IInv'
<1> DEFINE u == Refresh(ui)
           v == IF u.key_win = NULL THEN u ELSE KeywinOff(u)
<1>1. Good(u) /\ Quiet(ui, u) BY Refreshed
<1>2. \/ \E s \in Sids, t \in Tasks :
            /\ Free(v, s) /\ FreeTask(t)
            /\ Handle(KeywinOn(SheetUpdown(Consoled(v, s, t), s, Top(v)), s))
            /\ cons' = [cons EXCEPT ![t] = Started(s)]
      \/ Handle(Wild(v)) /\ UNCHANGED cons
  BY DEF ShiftF2
<1> HIDE DEF u
<1>3. Quiet(ui, v) /\ Good(v) /\ Dark(v)
  <2>1. CASE u.key_win = NULL
    <3>1. v = u BY <2>1
    <3>2. Dark(u) BY <1>1, <2>1, Numbers DEF Good, Lights, Dark
    <3> QED BY <1>1, <3>1, <3>2
  <2>2. CASE u.key_win # NULL
    <3>1. v = KeywinOff(u) BY <2>2
    <3> QED BY <1>1, <3>1, QuietOff, QuietTwice DEF Quiet
  <2> QED BY <2>1, <2>2
<1> HIDE DEF v
<1>4. CASE Handle(Wild(v)) /\ UNCHANGED cons
  BY <1>3, <1>4, QuietWild, QuietTwice, QuietStill DEF Handle
<1>5. ASSUME NEW s \in Sids, NEW t \in Tasks, Free(v, s), FreeTask(t),
             Handle(KeywinOn(SheetUpdown(Consoled(v, s, t), s, Top(v)), s)),
             cons' = [cons EXCEPT ![t] = Started(s)]
      PROVE  IInv'
  <2> DEFINE w == Consoled(v, s, t)
             x == SheetUpdown(w, s, Top(w))
  <2>1. Kind(v, s) = "free" BY <1>5 DEF Free, FREE, Kind
  <2>2. /\ Good(w) /\ Dark(w) /\ w.stack = v.stack /\ w.wild = v.wild
        /\ \A y \in Sids \ {s} : w.win[y] = v.win[y]
        /\ Kind(w, s) = "console" /\ Task(w, s) = t /\ ~Shown(w, s)
        /\ w.fifo[t] = <<>> /\ \A y \in Tasks \ {t} : w.fifo[y] = v.fifo[y]
    BY <1>3, <2>1, ConsoledGood
  <2>3. ui' = KeywinOn(x, s) /\ ~ui.wild /\ sys' = sys BY <1>5, <2>2 DEF Handle, Top
  <2> HIDE DEF w
  <2>4. Top(w) \in -1 .. Top(w) /\ Top(w) # -1 BY <2>2, TopBounds DEF Good
  <2>5. /\ x \in UI /\ Screen(x) /\ x.win = w.win /\ x.fifo = w.fifo /\ x.wild = w.wild
        /\ \A y : Shown(x, y) <=> (y # s /\ Shown(w, y)) \/ y = s
    BY <2>2, <2>4, UpdownShows DEF Good, OnScreen
  <2> HIDE DEF x
  <2>6. Dark(x) BY <2>2, <2>5 DEF Dark
  <2>7. Looks(x, ui') /\ Lights(ui') BY <2>3, <2>5, <2>6, OnLooks
  <2>8. Good(ui') BY <2>5, <2>7, LooksScreen DEF Looks, Good
  <2>9. ASSUME NEW y \in Sids \ {s} PROVE Kept(y)
    <3>1. Kind(w, y) = Kind(v, y) /\ Task(w, y) = Task(v, y) BY <2>2 DEF Kind, Task
    <3>2. Kind(x, y) = Kind(w, y) /\ Task(x, y) = Task(w, y) BY <2>5 DEF Kind, Task
    <3>3. Kind(ui', y) = Kind(v, y) /\ Task(ui', y) = Task(v, y) BY <2>7, <3>1, <3>2 DEF Looks
    <3>4. Shown(ui', y) => Shown(x, y) BY <2>7 DEF Looks, Shown
    <3>5. Shown(x, y) => Shown(v, y) BY <2>2, <2>5, ZenonT(60) DEF Shown
    <3> QED BY <1>3, <3>3, <3>4, <3>5 DEF Kept, Quiet
  <2>10. Kind(ui', s) = "console" /\ Task(ui', s) = t
    BY <2>2, <2>5, <2>7 DEF Looks, Kind, Task
  <2>11. ui'.fifo[t] = <<>> /\ \A y \in Tasks \ {t} : ui'.fifo[y] = ui.fifo[y]
    BY <1>3, <2>2, <2>5, <2>7 DEF Quiet, Looks
  <2>12. Kind(ui, s) = "free" BY <1>3, <2>1 DEF Quiet
  <2>13. cons[t] = CLOSED BY <1>5 DEF FreeTask
  <2>14. cons \in [Tasks -> Consoles] BY DEF IInv, TypeOK
  <2>15. /\ cons' \in [Tasks -> Consoles] /\ cons'[t] = Started(s)
         /\ \A y \in Tasks \ {t} : cons'[y] = cons[y]
    BY <1>5, <2>14, StartedType
  <2>16. Calm /\ Born(t)
    BY <2>3, <2>8, <2>9, <2>10, <2>11, <2>12, <2>13, <2>15, StartedCalm
  <2>17. OpeningBy(t)' BY <2>16 DEF Born, OpeningBy
  <2>18. ASSUME NEW y \in Tasks \ {t}, cons[y].pc \in Building, cons[y].new # NULL
         PROVE  Kept(cons[y].new) /\ (cons'[t].pc \in Building => cons[y].new # cons'[t].new)
    BY <2>3, <2>9, <2>12, <2>16, <2>18, Opened DEF Born, Building
  <2>19. ASSUME NEW y \in Sids, Kind(ui', y) = "app"
         PROVE  cons'[Task(ui', y)].pc \in {"app", "closing", "ending"}
    <3>1. Kind(ui, y) = "app" /\ Task(ui', y) = Task(ui, y) /\ Task(ui, y) \in Tasks
      BY <2>9, <2>10, <2>19 DEF Kept, IInv, Screen
    <3>2. Task(ui, y) # t BY <2>13, <3>1, Vacant
    <3> QED BY <2>15, <3>1, <3>2 DEF IInv, WindowsOwned, Running, Kind, Task
  <2> QED BY <2>3, <2>15, <2>16, <2>17, <2>18, <2>19, Step
<1> QED BY <1>2, <1>4, <1>5

-----------------------------------------------------------------------------
(* Consoles *)

LEMMA WildKeeps ==
    ASSUME IInv, Crash PROVE IInv'
<1>1. Quiet(ui, ui') BY Refreshed, QuietWild DEF Crash
<1> QED BY <1>1, QuietStill DEF Crash

LEMMA QuietUi ==
    ASSUME IInv, ui' = ui
    PROVE  Calm /\ AllKept
<1>1. Quiet(ui, ui') BY Refreshed, QuietWild
<1> QED BY <1>1, QuietCalm

\* A console at another label than these has no windows of an application.
LEMMA NoWindows ==
    ASSUME IInv, NEW t \in Tasks, cons[t].pc \notin {"app", "closing", "ending"}
    PROVE  \A s \in Sids : ~Owns(t, s)
BY DEF IInv, WindowsOwned, Running, Owns

LEMMA Labelled ==
    ASSUME IInv, NEW t \in Tasks, NEW b \in Labels, Goto(t, b)
    PROVE  /\ cons' \in [Tasks -> Consoles] /\ \A v \in Tasks \ {t} : cons'[v] = cons[v]
           /\ cons'[t].pc = b /\ cons'[t].new = cons[t].new
           /\ cons'[t].sht = cons[t].sht /\ cons'[t].to = cons[t].to
BY DEF IInv, TypeOK, Consoles, Goto

LEMMA NothingNew ==
    ASSUME IInv, ~ui.wild, NEW t \in Tasks, cons[t].pc \notin {"start", "show", "type", "app"}
    PROVE  cons[t].new = NULL
BY DEF IInv, Opening, OpeningBy

\* The steps that only go from one label to another, and may take what was typed
LEMMA Goes ==
    ASSUME IInv, ~ui.wild, Calm, AllKept, sys' = sys, NEW t \in Tasks, NEW b \in Idle,
           cons[t].pc \in Idle, cons[t].new = NULL, Goto(t, b),
           b \in {"shell", "prompt"} => \A s \in Sids : ~Owns(t, s),
           b = "closing" => Takes(t)
    PROVE  IInv'
<1>1. b \in Labels BY DEF Labels, Idle
<1>2. /\ cons' \in [Tasks -> Consoles] /\ \A v \in Tasks \ {t} : cons'[v] = cons[v]
      /\ cons'[t].pc = b /\ cons'[t].new = cons[t].new /\ cons'[t].sht = cons[t].sht
  BY <1>1, Labelled
<1> QED BY <1>2, Turn

LEMMA CommandKeeps ==
    ASSUME IInv, NEW t \in Tasks, Command(t) PROVE IInv'
<1>1. /\ ~ui.wild /\ cons[t].pc = "shell" /\ ui.fifo[t] # <<>> /\ ui' = Rest(t)
      /\ sys' = sys /\ Goto(t, "prompt")
  BY DEF Command, At, Got
<1>2. "prompt" \in Idle /\ "shell" \in Idle BY DEF Idle
<1>3. \A s \in Sids : ~Owns(t, s) BY <1>1, NoWindows
<1>4. cons[t].new = NULL BY <1>1, NothingNew
<1> QED BY <1>1, <1>2, <1>3, <1>4, RestCalm, Goes

LEMMA StartAppKeeps ==
    ASSUME IInv, NEW t \in Tasks, StartApp(t) PROVE IInv'
<1>1. /\ ~ui.wild /\ cons[t].pc = "shell" /\ ui.fifo[t] # <<>> /\ ui' = Rest(t)
      /\ sys' = sys /\ Goto(t, "app")
  BY DEF StartApp, At, Got
<1>2. "app" \in Idle /\ "shell" \in Idle /\ "app" \notin {"shell", "prompt"} BY DEF Idle
<1>3. cons[t].new = NULL BY <1>1, NothingNew
<1> QED BY <1>1, <1>2, <1>3, RestCalm, Goes

LEMMA EndKeeps ==
    ASSUME IInv, NEW t \in Tasks, End(t) PROVE IInv'
<1>1. /\ ~ui.wild /\ cons[t].pc = "app" /\ cons[t].new = NULL /\ ui' = ui
      /\ sys' = sys /\ Goto(t, "ending")
  BY DEF End, At
<1>2. "app" \in Idle /\ "ending" \in Idle /\ "ending" \notin {"shell", "prompt"} BY DEF Idle
<1> QED BY <1>1, <1>2, QuietUi, Goes

LEMMA EndedKeeps ==
    ASSUME IInv, NEW t \in Tasks, Ended(t) PROVE IInv'
<1>1. /\ ~ui.wild /\ cons[t].pc = "ending" /\ ui' = ui /\ \A s \in Sids : ~Owns(t, s)
      /\ sys' = sys /\ Goto(t, "prompt")
  BY DEF Ended, At
<1>2. "prompt" \in Idle /\ "ending" \in Idle BY DEF Idle
<1>3. cons[t].new = NULL BY <1>1, NothingNew
<1> QED BY <1>1, <1>2, <1>3, QuietUi, Goes

LEMMA ExitKeeps ==
    ASSUME IInv, NEW t \in Tasks, TakeClose(t) \/ TypedExit(t) PROVE IInv'
<1>1. cons[t].pc = "shell" /\ ui.fifo[t] # <<>> /\ CmdExit(t, Rest(t))
  BY DEF TakeClose, TypedExit, At, Got
<1> QED BY <1>1, RestCalm, Stops DEF CmdExit, Goto

LEMMA PromptKeeps ==
    ASSUME IInv, NEW t \in Tasks, Prompt(t) PROVE IInv'
<1>1. /\ ~ui.wild /\ cons[t].pc = "prompt"
      /\ IF cons[t].sht = NULL THEN CmdExit(t, ui) ELSE Goto(t, "shell") /\ UNCHANGED <<ui, sys>>
  BY DEF Prompt, At
<1>2. CASE cons[t].sht = NULL BY <1>1, <1>2, QuietUi, Stops DEF CmdExit, Goto
<1>3. CASE cons[t].sht # NULL
  <2>1. "prompt" \in Idle /\ "shell" \in Idle BY DEF Idle
  <2>2. \A s \in Sids : ~Owns(t, s) BY <1>1, NoWindows
  <2>3. cons[t].new = NULL BY <1>1, NothingNew
  <2> QED BY <1>1, <1>3, <2>1, <2>2, <2>3, QuietUi, Goes
<1> QED BY <1>2, <1>3

\* It takes the one message to close that there is.
LEMMA TakesClose ==
    ASSUME IInv, NEW t \in Tasks, Live(t), Got(t, CLOSE), ui' = Rest(t)
    PROVE  Takes(t)
<1>1. ui.fifo[t] \in Seq({CLOSE, ENTER}) /\ ui.fifo[t] # <<>> /\ Head(ui.fifo[t]) = CLOSE
  BY DEF IInv, TypeOK, UI, Got
<1>2. OneClose(ui.fifo[t]) BY DEF IInv, CloseOnce
<1>3. ui'.fifo[t] = Tail(ui.fifo[t]) BY <1>1, RestBasics
<1> QED BY <1>1, <1>2, <1>3, HeadTaken DEF Takes

LEMMA GetkeyTakeKeeps ==
    ASSUME IInv, NEW t \in Tasks, GetkeyTake(t) PROVE IInv'
<1>1. /\ ~ui.wild /\ cons[t].pc = "app" /\ cons[t].new = NULL
      /\ Got(t, CLOSE) /\ ui.fifo[t] # <<>> /\ ui' = Rest(t) /\ sys' = sys /\ Goto(t, "closing")
  BY DEF GetkeyTake, At, Got
<1>2. "app" \in Idle /\ "closing" \in Idle /\ "closing" \notin {"shell", "prompt"} BY DEF Idle
<1>3. Takes(t) BY <1>1, TakesClose DEF Live
<1> QED BY <1>1, <1>2, <1>3, RestCalm, Goes

LEMMA GetkeyEnterKeeps ==
    ASSUME IInv, NEW t \in Tasks, GetkeyEnter(t) PROVE IInv'
BY RestCalm, Still DEF GetkeyEnter, Got

\* All windows of applications are where they were, so that their owners are, too.
LEMMA OwnersRun ==
    ASSUME IInv, NEW s \in Sids, Kind(ui', s) = "app", Kept(s),
           \A v \in Tasks : cons[v].pc \in {"app", "closing", "ending"} => cons'[v].pc \in {"app", "closing", "ending"}
    PROVE  cons'[Task(ui', s)].pc \in {"app", "closing", "ending"}
<1>1. Kind(ui, s) = "app" /\ Task(ui', s) = Task(ui, s) BY DEF Kept
<1>2. Task(ui, s) \in Tasks /\ cons[Task(ui, s)].pc \in {"app", "closing", "ending"}
  BY <1>1 DEF IInv, Screen, WindowsOwned, Running, Kind, Task
<1> QED BY <1>1, <1>2

LEMMA StartTypeKeeps ==
    ASSUME IInv, NEW t \in Tasks, StartType(t) PROVE IInv'
<1> DEFINE n == cons[t].to
<1>1. /\ ~ui.wild /\ cons[t].pc = "type" /\ ui' = Put(ui, n, ENTER) /\ sys' = sys
      /\ cons' = [cons EXCEPT ![t].pc = "prompt", ![t].new = NULL, ![t].to = NOBODY]
  BY DEF StartType, At
<1>2. cons \in [Tasks -> Consoles] BY DEF IInv, TypeOK
<1>3. n \in Tasks
  <2>1. n \in Tasks \cup {NOBODY} BY <1>2 DEF Consoles
  <2>2. n # NOBODY BY <1>1 DEF IInv, Opening, OpeningBy
  <2> QED BY <2>1, <2>2
<1> HIDE DEF n
<1>4. Calm /\ AllKept BY <1>1, <1>3, Refreshed, QuietWild, EnterCalm
<1>5. /\ cons' \in [Tasks -> Consoles] /\ \A v \in Tasks \ {t} : cons'[v] = cons[v]
      /\ cons'[t].pc = "prompt" /\ cons'[t].new = NULL /\ cons'[t].sht = cons[t].sht
  BY <1>1, <1>2, ZenonT(60) DEF Consoles, Labels
<1>6. "prompt" \in Idle BY DEF Idle
<1>7. \A s \in Sids : ~Owns(t, s) BY <1>1, NoWindows
<1> QED BY <1>1, <1>4, <1>5, <1>6, <1>7, Turn

LEMMA CmdNcstKeeps ==
    ASSUME IInv, NEW t \in Tasks, CmdNcst(t) PROVE IInv'
<1>1. /\ ~ui.wild /\ cons[t].pc = "shell" /\ ui.fifo[t] # <<>>
      /\ \/ Crash
         \/ \E n \in Tasks :
              /\ FreeTask(n) /\ ui' = [Rest(t) EXCEPT !.fifo[n] = <<ENTER>>]
              /\ cons' = [cons EXCEPT ![n] = Started(NULL), ![t].pc = "prompt"]
              /\ sys' = sys
  BY DEF CmdNcst, At, Got
<1>2. CASE Crash BY <1>2, WildKeeps
<1>3. ASSUME NEW n \in Tasks, FreeTask(n), ui' = [Rest(t) EXCEPT !.fifo[n] = <<ENTER>>],
             cons' = [cons EXCEPT ![n] = Started(NULL), ![t].pc = "prompt"], sys' = sys
      PROVE  IInv'
  <2> DEFINE u == Rest(t)
             F == [u.fifo EXCEPT ![n] = <<ENTER>>]
  <2>1. cons[n].pc = "none" /\ ~Live(n) /\ n # t
    BY <1>1, <1>3, Vacant DEF FreeTask
  <2>2. /\ Good(u) /\ u.stack = ui.stack /\ u.win = ui.win /\ u.wild = ui.wild
        /\ \A x \in Tasks : /\ Len(u.fifo[x]) <= FIFO_SIZE
                            /\ OneClose(ui.fifo[x]) => OneClose(u.fifo[x])
                            /\ HasClose(u.fifo[x]) => HasClose(ui.fifo[x])
    BY <1>1, RestBasics
  <2>3. ui' = [u EXCEPT !.fifo = F] BY <1>3, <2>2 DEF Good, UI
  <2> HIDE DEF u
  <2>4. <<ENTER>> \in Seq({CLOSE, ENTER}) /\ Len(<<ENTER>>) = 1 /\ ~HasClose(<<ENTER>>)
    BY DEF HasClose, CLOSE, ENTER
  <2>5. u.fifo \in [Tasks -> Seq({CLOSE, ENTER})] BY <2>2 DEF Good, UI
  <2>6. /\ F \in [Tasks -> Seq({CLOSE, ENTER})] /\ F[n] = <<ENTER>>
        /\ \A x \in Tasks \ {n} : F[x] = u.fifo[x]
    BY <2>4, <2>5
  <2> HIDE DEF F
  <2>7. /\ ui' \in UI /\ ui'.fifo = F /\ ui'.stack = u.stack /\ ui'.win = u.win
        /\ ui'.wild = u.wild /\ ui'.key_win = u.key_win
    BY <2>2, <2>3, <2>6 DEF Good, UI
  <2>8. Good(ui') BY <2>2, <2>7 DEF Good, Screen, Lights, Kind, Task, Shown
  <2>9. AllKept BY <2>2, <2>7 DEF AllKept, Kept, Kind, Task, Shown
  <2>10. \A x \in Tasks : Len(ui'.fifo[x]) <= FIFO_SIZE BY <2>2, <2>4, <2>6, <2>7, Numbers
  <2>11. \A x \in Tasks : Live(x) =>
            /\ OneClose(ui.fifo[x]) => OneClose(ui'.fifo[x])
            /\ HasClose(ui'.fifo[x]) => HasClose(ui.fifo[x])
    BY <2>1, <2>2, <2>6, <2>7
  <2>12. Calm BY <2>2, <2>7, <2>8, <2>9, <2>10, <2>11 DEF Calm, AllKept
  <2>13. cons \in [Tasks -> Consoles] BY DEF IInv, TypeOK
  <2>14. /\ cons' \in [Tasks -> Consoles] /\ \A v \in Tasks \ {n, t} : cons'[v] = cons[v]
         /\ cons'[t].pc = "prompt" /\ cons'[t].new = cons[t].new /\ cons'[t].sht = cons[t].sht
         /\ cons'[n] = Started(NULL)
    <3>1. Started(NULL) \in Consoles BY StartedType
    <3> QED BY <1>3, <2>1, <2>13, <3>1 DEF Consoles, Labels
  <2>15. Born(n) BY <2>1, <2>4, <2>6, <2>7, <2>14 DEF Born, Started, CLOSED
  <2>16. Stays(t) BY <1>1, <2>14 DEF Stays
  <2>17. cons[t].new = NULL BY <1>1, NothingNew
  <2>18. OpeningBy(t)' BY <2>14, <2>17 DEF OpeningBy
  <2>19. \A v \in Tasks : cons[v].new \in Sids \cup {NULL} BY <2>13 DEF Consoles
  <2>20. \A v \in Tasks \ {t} :
            ~ui.wild /\ cons[v].pc \in Building /\ cons[v].new # NULL =>
               /\ Kept(cons[v].new)
               /\ cons'[t].pc \in Building => cons[v].new # cons'[t].new
    BY <2>9, <2>14, <2>17, <2>19 DEF AllKept
  <2>21. \A v \in Tasks : cons[v].pc \in {"app", "closing", "ending"} => cons'[v].pc \in {"app", "closing", "ending"}
    BY <1>1, <2>1, <2>14
  <2>22. \A s \in Sids : Kind(ui', s) = "app" => cons'[Task(ui', s)].pc \in {"app", "closing", "ending"}
    BY <2>9, <2>21, OwnersRun DEF AllKept
  <2>23. \A v \in Tasks \ {t} : cons'[v] = cons[v] \/ Born(v) BY <2>14, <2>15
  <2> QED BY <1>3, <2>12, <2>14, <2>16, <2>18, <2>20, <2>22, <2>23, Step
<1> QED BY <1>1, <1>2, <1>3

-----------------------------------------------------------------------------
(* Sheets that are being opened *)

Wins == [kind : Kinds, task : Tasks \cup {NOBODY}, lit : BOOLEAN]

LEMMA RewinGood ==
    ASSUME NEW u, Good(u), NEW s \in Sids, Kind(u, s) \in {"free", "plain"},
           NEW w \in Wins,
           w.kind \in {"plain", "app"}, w.task \in Tasks <=> w.kind = "app", ~w.lit
    PROVE  LET v == [u EXCEPT !.win = [u.win EXCEPT ![s] = w]] IN
           /\ Good(v) /\ v.stack = u.stack /\ v.fifo = u.fifo /\ v.wild = u.wild
           /\ v.win[s] = w /\ \A x \in Sids \ {s} : v.win[x] = u.win[x]
<1> DEFINE W == [u.win EXCEPT ![s] = w]
           v == [u EXCEPT !.win = W]
<1>1. u \in UI /\ u.win \in [Sids -> Wins]
  BY DEF Good, UI, Wins
<1>2. /\ W \in [Sids -> Wins]
      /\ W[s] = w /\ \A x \in Sids \ {s} : W[x] = u.win[x]
  BY <1>1
<1> HIDE DEF W
<1>3. /\ v \in UI /\ v.win = W /\ v.stack = u.stack /\ v.fifo = u.fifo /\ v.wild = u.wild
      /\ v.key_win = u.key_win
  BY <1>1, <1>2 DEF UI, Wins
<1> HIDE DEF v
<1>4. \A x \in Sids \ {s} : Kind(v, x) = Kind(u, x) /\ Task(v, x) = Task(u, x) /\ v.win[x] = u.win[x]
  BY <1>2, <1>3 DEF Kind, Task
<1>5. Kind(v, s) = w.kind /\ Task(v, s) = w.task /\ ~v.win[s].lit BY <1>2, <1>3 DEF Kind, Task
<1>6. ~Shown(u, s) /\ s \notin {SHT_BACK, SHT_MOUSE} BY DEF Good, Screen, OnScreen
<1>7. Screen(v)
  <2>1. \A x : Shown(v, x) <=> Shown(u, x) BY <1>3 DEF Shown
  <2>2. \A j, k \in DOMAIN v.stack : v.stack[j] = v.stack[k] => j = k BY <1>3 DEF Good, Screen
  <2>3. \A x \in Sids : Shown(v, x) => Kind(v, x) \in OnScreen
    BY <1>4, <1>6, <2>1 DEF Good, Screen
  <2>4. \A x \in Sids : Kind(v, x) = "desk" <=> x \in {SHT_BACK, SHT_MOUSE}
    BY <1>4, <1>5, <1>6 DEF Good, Screen
  <2>5. \A x \in Sids : Task(v, x) \in Tasks <=> Kind(v, x) \in {"app", "console"}
    BY <1>4, <1>5 DEF Good, Screen
  <2> QED BY <2>1, <2>2, <2>3, <2>4, <2>5 DEF Good, Screen
<1>8. Lights(v) BY <1>3, <1>4, <1>5 DEF Good, Lights
<1> QED BY <1>2, <1>3, <1>7, <1>8 DEF Good, v, W

\* Sheet s has no console before and after, and is not being opened by another.
LEMMA Edits ==
    ASSUME IInv, ~ui.wild, sys' = sys, NEW t \in Tasks, NEW s \in Sids,
           Good(ui'), \A x \in Sids \ {s} : Kept(x),
           Kind(ui, s) # "console", Kind(ui', s) \notin {"console"},
           \A x \in Tasks : /\ Len(ui'.fifo[x]) <= FIFO_SIZE
                            /\ OneClose(ui.fifo[x]) => OneClose(ui'.fifo[x])
                            /\ HasClose(ui'.fifo[x]) => HasClose(ui.fifo[x]),
           cons' \in [Tasks -> Consoles], \A v \in Tasks \ {t} : cons'[v] = cons[v],
           Stays(t), OpeningBy(t)', cons'[t].new \in {s, NULL},
           \A v \in Tasks \ {t} : cons[v].pc \in Building => cons[v].new # s,
           cons[t].pc \in {"app", "closing", "ending"} => cons'[t].pc \in {"app", "closing", "ending"},
           Kind(ui', s) = "app" => Task(ui', s) = t /\ cons'[t].pc \in {"app", "closing", "ending"}
    PROVE  IInv'
<1>1. Remade(s) BY DEF Remade
<1>2. Calm BY <1>1 DEF Calm
<1>3. \A v \in Tasks : cons[v].new \in Sids \cup {NULL} BY DEF IInv, TypeOK, Consoles
<1>4. \A v \in Tasks \ {t} :
         ~ui.wild /\ cons[v].pc \in Building /\ cons[v].new # NULL =>
            /\ Kept(cons[v].new)
            /\ cons'[t].pc \in Building => cons[v].new # cons'[t].new
  BY <1>3
<1>5. ASSUME NEW x \in Sids, Kind(ui', x) = "app"
      PROVE  cons'[Task(ui', x)].pc \in {"app", "closing", "ending"}
  <2>1. CASE x = s BY <1>5, <2>1
  <2>2. CASE x # s
    <3>1. \A v \in Tasks : cons[v].pc \in {"app", "closing", "ending"} => cons'[v].pc \in {"app", "closing", "ending"}
      OBVIOUS
    <3> QED BY <1>5, <2>2, <3>1, OwnersRun
  <2> QED BY <2>1, <2>2
<1> QED BY <1>2, <1>4, <1>5, Step

\* sheet_alloc hands out sheet s, and console t keeps it.
LEMMA AllocKeeps ==
    ASSUME IInv, ~ui.wild, sys' = sys, NEW t \in Tasks, NEW s \in Sids, Free(ui, s),
           NEW u, Good(u), u.stack = ui.stack, u.win = ui.win, u.wild = ui.wild,
           \A x \in Tasks : /\ Len(u.fifo[x]) <= FIFO_SIZE
                            /\ OneClose(ui.fifo[x]) => OneClose(u.fifo[x])
                            /\ HasClose(u.fifo[x]) => HasClose(ui.fifo[x]),
           ui' = [u EXCEPT !.win[s].kind = "plain"],
           NEW b \in {"app", "start"}, cons[t].pc \in {"app", "shell"},
           b = "app" <=> cons[t].pc = "app",
           cons' = [cons EXCEPT ![t].pc = b, ![t].new = s]
    PROVE  IInv'
<1> DEFINE w == [u.win[s] EXCEPT !.kind = "plain"]
<1>1. u.win[s] = FREE /\ Kind(u, s) = "free" BY DEF Free, FREE, Kind
<1>2. u.win[s].task = NOBODY /\ u.win[s].lit = FALSE BY <1>1 DEF FREE
<1>3. u.win \in [Sids -> Wins] /\ u.win[s] \in Wins
  BY DEF Good, UI, Wins
<1>4. ui' = [u EXCEPT !.win = [u.win EXCEPT ![s] = w]]
  <2>1. [u.win EXCEPT ![s].kind = "plain"] = [u.win EXCEPT ![s] = w] OBVIOUS
  <2> QED BY <2>1 DEF Good, UI
<1>5. /\ w \in Wins
      /\ w.kind = "plain" /\ w.task = NOBODY /\ ~w.lit
  BY <1>2, <1>3 DEF Kinds, Wins
<1> HIDE DEF w
<1>6. /\ Good(ui') /\ ui'.stack = u.stack /\ ui'.fifo = u.fifo /\ ui'.wild = u.wild
      /\ ui'.win[s] = w /\ \A x \in Sids \ {s} : ui'.win[x] = u.win[x]
  <2>1. w.kind \in {"plain", "app"} /\ (w.task \in Tasks <=> w.kind = "app")
    BY <1>5, Numbers
  <2> DEFINE v == [u EXCEPT !.win = [u.win EXCEPT ![s] = w]]
  <2>2. /\ Good(v) /\ v.stack = u.stack /\ v.fifo = u.fifo /\ v.wild = u.wild
        /\ v.win[s] = w /\ \A x \in Sids \ {s} : v.win[x] = u.win[x]
    BY <1>1, <1>5, <2>1, RewinGood
  <2> HIDE DEF v
  <2>3. ui' = v BY <1>4 DEF v
  <2> QED BY <2>2, <2>3
<1>7. Kind(ui, s) = "free" /\ Kind(ui', s) = "plain" BY <1>1, <1>5, <1>6 DEF Kind
<1>8. \A x \in Sids \ {s} : Kept(x) BY <1>6 DEF Kept, Kind, Task, Shown
<1>9. cons \in [Tasks -> Consoles] BY DEF IInv, TypeOK
<1>10. /\ cons' \in [Tasks -> Consoles] /\ \A v \in Tasks \ {t} : cons'[v] = cons[v]
       /\ cons'[t].pc = b /\ cons'[t].new = s /\ cons'[t].sht = cons[t].sht
  BY ZenonT(60), <1>9 DEF Consoles, Labels
<1>11. Stays(t) BY <1>10 DEF Stays
<1>12. OpeningBy(t)' BY <1>7, <1>10, Numbers DEF OpeningBy
<1>13. \A v \in Tasks \ {t} : cons[v].pc \in Building => cons[v].new # s
  BY <1>7, Numbers, Opened
<1>14. \A x \in Tasks : /\ Len(ui'.fifo[x]) <= FIFO_SIZE
                        /\ OneClose(ui.fifo[x]) => OneClose(ui'.fifo[x])
                        /\ HasClose(ui'.fifo[x]) => HasClose(ui.fifo[x])
  BY <1>6
<1>15. cons[t].pc \in {"app", "closing", "ending"} => cons'[t].pc \in {"app", "closing", "ending"} BY <1>10
<1> QED BY <1>6, <1>7, <1>8, <1>10, <1>11, <1>12, <1>13, <1>14, <1>15, Edits

LEMMA StartSheetKeeps ==
    ASSUME IInv, NEW t \in Tasks, StartSheet(t) PROVE IInv'
<1>1. /\ ~ui.wild /\ cons[t].pc = "shell" /\ ui.fifo[t] # <<>>
      /\ \/ Crash
         \/ \E s \in Sids :
              /\ Free(ui, s) /\ ui' = [Rest(t) EXCEPT !.win[s].kind = "plain"]
              /\ cons' = [cons EXCEPT ![t].pc = "start", ![t].new = s]
              /\ sys' = sys
  BY DEF StartSheet, At, Got
<1>2. CASE Crash BY <1>2, WildKeeps
<1>3. ASSUME NEW s \in Sids, Free(ui, s), ui' = [Rest(t) EXCEPT !.win[s].kind = "plain"],
             cons' = [cons EXCEPT ![t].pc = "start", ![t].new = s], sys' = sys
      PROVE  IInv'
  <2>1. PICK b \in {"app", "start"} : b = "start" OBVIOUS
  <2>2. cons' = [cons EXCEPT ![t].pc = b, ![t].new = s] BY <1>3, <2>1
  <2>3. cons[t].pc \in {"app", "shell"} /\ (b = "app" <=> cons[t].pc = "app") BY <1>1, <2>1
  <2>4. PICK u : u = Rest(t) OBVIOUS
  <2>5. ui' = [u EXCEPT !.win[s].kind = "plain"] BY <1>3, <2>4
  <2>6. /\ Good(u) /\ u.stack = ui.stack /\ u.win = ui.win /\ u.wild = ui.wild
        /\ \A x \in Tasks : /\ Len(u.fifo[x]) <= FIFO_SIZE
                            /\ OneClose(ui.fifo[x]) => OneClose(u.fifo[x])
                            /\ HasClose(u.fifo[x]) => HasClose(ui.fifo[x])
    BY <1>1, <2>4, RestBasics
  <2> QED BY <1>1, <1>3, <2>2, <2>3, <2>5, <2>6, AllocKeeps
<1> QED BY <1>1, <1>2, <1>3

LEMMA OpenAllocKeeps ==
    ASSUME IInv, NEW t \in Tasks, OpenAlloc(t) PROVE IInv'
<1>1. /\ ~ui.wild /\ cons[t].pc = "app"
      /\ \/ Crash
         \/ \E s \in Sids :
              /\ Free(ui, s) /\ ui' = [ui EXCEPT !.win[s].kind = "plain"]
              /\ cons' = [cons EXCEPT ![t].new = s]
              /\ sys' = sys
  BY DEF OpenAlloc, At
<1>2. CASE Crash BY <1>2, WildKeeps
<1>3. ASSUME NEW s \in Sids, Free(ui, s), ui' = [ui EXCEPT !.win[s].kind = "plain"],
             cons' = [cons EXCEPT ![t].new = s], sys' = sys
      PROVE  IInv'
  <2>1. PICK b \in {"app", "start"} : b = "app" OBVIOUS
  <2>2. cons' = [cons EXCEPT ![t].pc = b, ![t].new = s]
    <3>1. cons \in [Tasks -> Consoles] BY DEF IInv, TypeOK
    <3> QED BY <1>1, <1>3, <2>1, <3>1, ZenonT(60) DEF Consoles
  <2>3. cons[t].pc \in {"app", "shell"} /\ (b = "app" <=> cons[t].pc = "app") BY <1>1, <2>1
  <2>4. PICK u : u = ui OBVIOUS
  <2>5. ui' = [u EXCEPT !.win[s].kind = "plain"] BY <1>3, <2>4
  <2>6. /\ Good(u) /\ u.stack = ui.stack /\ u.win = ui.win /\ u.wild = ui.wild
        /\ \A x \in Tasks : /\ Len(u.fifo[x]) <= FIFO_SIZE
                            /\ OneClose(ui.fifo[x]) => OneClose(u.fifo[x])
                            /\ HasClose(u.fifo[x]) => HasClose(ui.fifo[x])
    BY <2>4, Refreshed DEF IInv, TypeOK
  <2> QED BY <1>1, <1>3, <2>2, <2>3, <2>5, <2>6, AllocKeeps
<1> QED BY <1>1, <1>2, <1>3

\* Steps that leave consoles alone and close or claim a window of application t
LEMMA OpenOwnKeeps ==
    ASSUME IInv, NEW t \in Tasks, OpenOwn(t) PROVE IInv'
<1> DEFINE s == cons[t].new
           w == [ui.win[s] EXCEPT !.kind = "app", !.task = t]
<1>1. /\ ~ui.wild /\ cons[t].pc = "app" /\ s # NULL /\ ui.win[s].kind = "plain"
      /\ ui' = [ui EXCEPT !.win[s].kind = "app", !.win[s].task = t]
      /\ cons' = cons /\ sys' = sys
  BY DEF OpenOwn, At
<1>2. cons \in [Tasks -> Consoles] /\ s \in Sids BY <1>1 DEF IInv, TypeOK, Consoles
<1>3. Good(ui) BY Refreshed
<1>4. /\ ui.win \in [Sids -> Wins]
      /\ ui.win[s] \in Wins
      /\ ui \in UI
  BY <1>2, <1>3 DEF Good, UI, Wins
<1>5. Kind(ui, s) = "plain" /\ ui.win[s].lit = FALSE
  BY <1>1, <1>2, <1>3, <1>4 DEF Good, Lights, Kind, OnScreen
<1>6. /\ w \in Wins
      /\ w.kind = "app" /\ w.task = t /\ ~w.lit
  BY <1>4, <1>5 DEF Kinds, Wins
<1>7. ui' = [ui EXCEPT !.win = [ui.win EXCEPT ![s] = w]]
  <2>1. [ui.win EXCEPT ![s].kind = "app", ![s].task = t] = [ui.win EXCEPT ![s] = w]
    BY <1>2, <1>4
  <2> QED BY <1>1, <1>4, <2>1 DEF UI
<1> HIDE DEF s, w
<1>8. /\ Good(ui') /\ ui'.stack = ui.stack /\ ui'.fifo = ui.fifo /\ ui'.wild = ui.wild
      /\ ui'.win[s] = w /\ \A x \in Sids \ {s} : ui'.win[x] = ui.win[x]
  <2>1. w.kind \in {"plain", "app"} /\ (w.task \in Tasks <=> w.kind = "app") BY <1>6
  <2> QED BY <1>2, <1>3, <1>5, <1>6, <1>7, <2>1, RewinGood
<1>9. Kind(ui', s) = "app" /\ Task(ui', s) = t BY <1>6, <1>8 DEF Kind, Task
<1>10. \A x \in Sids \ {s} : Kept(x) BY <1>8 DEF Kept, Kind, Task, Shown
<1>11. Stays(t) BY <1>1 DEF Stays
<1>12. OpeningBy(t)' BY <1>1, <1>9 DEF OpeningBy, s
<1>13. \A v \in Tasks \ {t} : cons[v].pc \in Building => cons[v].new # s
  BY <1>1 DEF IInv, Opening, s, Building
<1>14. \A x \in Tasks : Len(ui.fifo[x]) <= FIFO_SIZE BY DEF IInv, TypeOK
<1>15. cons'[t].new \in {s, NULL} BY <1>1 DEF s
<1> QED BY <1>1, <1>2, <1>5, <1>8, <1>9, <1>10, <1>11, <1>12, <1>13, <1>14, <1>15, Edits

LEMMA OpenShowKeeps ==
    ASSUME IInv, NEW t \in Tasks, OpenShow(t) PROVE IInv'
<1> DEFINE s == cons[t].new
<1>1. /\ ~ui.wild /\ cons[t].pc = "app" /\ s # NULL /\ ui.win[s].kind = "app"
      /\ ui' = SheetUpdown(ui, s, Top(ui)) /\ sys' = sys
      /\ cons' = [cons EXCEPT ![t].new = NULL]
  BY DEF OpenShow, At
<1>2. cons \in [Tasks -> Consoles] /\ s \in Sids BY <1>1 DEF IInv, TypeOK, Consoles
<1>3. Good(ui) BY Refreshed
<1>4. Kind(ui, s) = "app" /\ Task(ui, s) = t BY <1>1, <1>2, Opened DEF Building, Kind
<1>5. /\ cons' \in [Tasks -> Consoles] /\ \A v \in Tasks \ {t} : cons'[v] = cons[v]
      /\ cons'[t].pc = "app" /\ cons'[t].new = NULL /\ cons'[t].sht = cons[t].sht
  BY <1>1, <1>2 DEF Consoles
<1>6. \A v \in Tasks \ {t} : cons[v].pc \in Building => cons[v].new # s
  BY <1>1 DEF IInv, Opening, Building
<1> HIDE DEF s
<1>7. Top(ui) \in -1 .. Top(ui) /\ Top(ui) # -1 BY <1>3, TopBounds DEF Good
<1>8. /\ ui' \in UI /\ Screen(ui')
      /\ ui'.win = ui.win /\ ui'.key_win = ui.key_win /\ ui'.fifo = ui.fifo /\ ui'.wild = ui.wild
      /\ \A x : Shown(ui', x) <=> (x # s /\ Shown(ui, x)) \/ x = s
  BY <1>1, <1>2, <1>3, <1>4, <1>7, UpdownShows DEF Good, OnScreen
<1>9. Good(ui') BY <1>3, <1>8 DEF Good, Lights, Kind
<1>10. \A x \in Sids \ {s} : Kept(x) BY <1>8 DEF Kept, Kind, Task
<1>11. Kind(ui', s) = "app" /\ Task(ui', s) = t BY <1>4, <1>8 DEF Kind, Task
<1>12. Stays(t) BY <1>1, <1>5 DEF Stays
<1>13. OpeningBy(t)' BY <1>5 DEF OpeningBy
<1>14. \A x \in Tasks : Len(ui.fifo[x]) <= FIFO_SIZE BY DEF IInv, TypeOK
<1> QED BY <1>1, <1>2, <1>4, <1>5, <1>6, <1>8, <1>9, <1>10, <1>11, <1>12, <1>13, <1>14, Edits

\* sheet_free of a window of an application that has shown it
LEMMA AppFreed ==
    ASSUME IInv, NEW t \in Tasks, NEW s \in Sids, Owns(t, s), ~ui.wild,
           cons[t].pc \in {"app", "closing", "ending"}, cons[t].new = NULL,
           ui' = SheetFree(ui, s), UNCHANGED <<cons, sys>>
    PROVE  IInv'
<1>1. Good(ui) BY Refreshed
<1>2. Kind(ui, s) = "app" /\ Task(ui, s) = t BY DEF Owns, Kind, Task
<1>3. /\ ui' \in UI /\ Screen(ui') /\ Lights(ui')
      /\ ui'.fifo = ui.fifo /\ ui'.wild = ui.wild
      /\ ui'.win[s] = FREE /\ \A x \in Sids : x # s => ui'.win[x] = ui.win[x]
      /\ \A x : Shown(ui', x) <=> x # s /\ Shown(ui, x)
  BY <1>1, <1>2, FreeShows DEF Good
<1>4. Good(ui') BY <1>3 DEF Good
<1>5. Kind(ui', s) = "free" BY <1>3 DEF Kind, FREE
<1>6. \A x \in Sids \ {s} : Kept(x) BY <1>3 DEF Kept, Kind, Task
<1>7. Stays(t) BY DEF Stays
<1>8. OpeningBy(t)' BY DEF OpeningBy
<1>9. \A v \in Tasks \ {t} : cons[v].pc \in Building => cons[v].new # s
  BY <1>2, Numbers, Opened
<1>10. \A x \in Tasks : Len(ui.fifo[x]) <= FIFO_SIZE BY DEF IInv, TypeOK
<1>11. cons' \in [Tasks -> Consoles] BY DEF IInv, TypeOK
<1> QED BY <1>2, <1>3, <1>4, <1>5, <1>6, <1>7, <1>8, <1>9, <1>10, <1>11, Edits

LEMMA CloseWinKeeps ==
    ASSUME IInv, NEW t \in Tasks, NEW s \in Sids, CloseWin(t, s) PROVE IInv'
BY AppFreed DEF CloseWin, At

LEMMA FreeWindowKeeps ==
    ASSUME IInv, NEW t \in Tasks, FreeWindow(t) PROVE IInv'
<1>1. PICK s \in Sids : At(t, "ending") /\ Owns(t, s) /\ ui' = SheetFree(ui, s)
                        /\ UNCHANGED <<cons, sys>>
  BY DEF FreeWindow
<1>2. ~ui.wild /\ cons[t].pc = "ending" BY <1>1 DEF At
<1>3. cons[t].new = NULL BY <1>2, NothingNew
<1> QED BY <1>1, <1>2, <1>3, AppFreed

\* The two steps of cmd_start that make a console of a sheet and show it
LEMMA StartTaskKeeps ==
    ASSUME IInv, NEW t \in Tasks, StartTask(t) PROVE IInv'
<1> DEFINE s == cons[t].new
<1>1. /\ ~ui.wild /\ cons[t].pc = "start"
      /\ \/ Crash
         \/ \E n \in Tasks :
              /\ FreeTask(n) /\ ui' = Consoled(ui, s, n) /\ sys' = sys
              /\ cons' = [cons EXCEPT ![t].pc = "show", ![t].to = n, ![n] = Started(s)]
  BY DEF StartTask, At
<1>2. CASE Crash BY <1>2, WildKeeps
<1>3. ASSUME NEW n \in Tasks, FreeTask(n), ui' = Consoled(ui, s, n), sys' = sys,
             cons' = [cons EXCEPT ![t].pc = "show", ![t].to = n, ![n] = Started(s)]
      PROVE  IInv'
  <2>1. Good(ui) /\ cons \in [Tasks -> Consoles] BY Refreshed DEF IInv, TypeOK
  <2>2. s \in Sids /\ s # NULL /\ Kind(ui, s) = "plain"
    <3>1. s # NULL /\ Kind(ui, s) = "plain" BY <1>1 DEF IInv, Opening, OpeningBy
    <3> QED BY <2>1, <3>1 DEF Consoles
  <2>3. cons[n] = CLOSED /\ cons[n].pc = "none" /\ n # t /\ ~Live(n)
    BY <1>1, <1>3, Vacant DEF FreeTask
  <2>4. /\ cons' \in [Tasks -> Consoles] /\ \A v \in Tasks \ {n, t} : cons'[v] = cons[v]
        /\ cons'[t].pc = "show" /\ cons'[t].new = s /\ cons'[t].to = n
        /\ cons'[t].sht = cons[t].sht /\ cons'[n] = Started(s)
    <3>1. Started(s) \in Consoles BY <2>2, StartedType
    <3> QED BY <1>3, <2>1, <2>3, <3>1 DEF Consoles, Labels
  <2>5. \A v \in Tasks \ {t} : cons[v].pc \in Building => cons[v].new # s
    BY <1>1, <2>2 DEF IInv, Opening, Building
  <2> HIDE DEF s
  <2>6. /\ Good(ui') /\ ui'.stack = ui.stack /\ ui'.wild = ui.wild
        /\ \A x \in Sids \ {s} : ui'.win[x] = ui.win[x]
        /\ Kind(ui', s) = "console" /\ Task(ui', s) = n /\ ~Shown(ui', s)
        /\ ui'.fifo[n] = <<>> /\ \A x \in Tasks \ {n} : ui'.fifo[x] = ui.fifo[x]
    BY <1>3, <2>1, <2>2, ConsoledGood
  <2>7. \A x \in Sids \ {s} : Kept(x) BY <2>6 DEF Kept, Kind, Task, Shown
  <2>8. Calm /\ Born(n) BY <2>2, <2>3, <2>4, <2>6, <2>7, StartedCalm
  <2>9. Stays(t) BY <1>1, <2>4 DEF Stays
  <2>10. OpeningBy(t)'
    <3>1. cons'[n].sht = s /\ cons'[n].pc # "closing" BY <2>4 DEF Started, CLOSED
    <3>2. ~HasClose(ui'.fifo[n]) BY <2>8 DEF Born
    <3> QED BY <2>2, <2>4, <2>6, <3>1, <3>2, Numbers DEF OpeningBy
  <2>11. \A v \in Tasks : cons[v].new \in Sids \cup {NULL} BY <2>1 DEF Consoles
  <2>12. \A v \in Tasks \ {t} :
            ~ui.wild /\ cons[v].pc \in Building /\ cons[v].new # NULL =>
               /\ Kept(cons[v].new)
               /\ cons'[t].pc \in Building => cons[v].new # cons'[t].new
    BY <2>4, <2>5, <2>7, <2>11
  <2>13. \A v \in Tasks : cons[v].pc \in {"app", "closing", "ending"} => cons'[v].pc \in {"app", "closing", "ending"}
    BY <1>1, <2>3, <2>4
  <2>14. \A x \in Sids : Kind(ui', x) = "app" => cons'[Task(ui', x)].pc \in {"app", "closing", "ending"}
    BY <2>6, <2>7, <2>13, OwnersRun
  <2>15. \A v \in Tasks \ {t} : cons'[v] = cons[v] \/ Born(v) BY <2>4, <2>8
  <2> QED BY <1>3, <2>4, <2>8, <2>9, <2>10, <2>12, <2>14, <2>15, Step
<1> QED BY <1>1, <1>2, <1>3

LEMMA StartShowKeeps ==
    ASSUME IInv, NEW t \in Tasks, StartShow(t) PROVE IInv'
<1> DEFINE s == cons[t].new
           n == cons[t].to
<1>1. /\ ~ui.wild /\ cons[t].pc = "show" /\ ui' = SheetUpdown(ui, s, Top(ui)) /\ sys' = sys
      /\ Goto(t, "type")
  BY DEF StartShow, At
<1>2. Good(ui) /\ cons \in [Tasks -> Consoles] BY Refreshed DEF IInv, TypeOK
<1>3. /\ s # NULL /\ n # NOBODY
      /\ Kind(ui, s) = "console" /\ Task(ui, s) = n /\ cons[n].sht = s
      /\ ~HasClose(ui.fifo[n]) /\ cons[n].pc # "closing"
  BY <1>1 DEF IInv, Opening, OpeningBy
<1>4. s \in Sids /\ n \in Tasks BY <1>2, <1>3 DEF Consoles
<1>5. /\ cons' \in [Tasks -> Consoles] /\ \A v \in Tasks \ {t} : cons'[v] = cons[v]
      /\ cons'[t].pc = "type" /\ cons'[t].new = s /\ cons'[t].sht = cons[t].sht /\ cons'[t].to = n
  BY <1>1, Labelled DEF Labels
<1>6. \A v \in Tasks \ {t} : cons[v].pc \in Building => cons[v].new # s
  BY <1>1, <1>3 DEF IInv, Opening, Building
<1>7. Live(n) BY <1>3, <1>4 DEF IInv, Owners, Live
<1> HIDE DEF s, n
<1>8. Top(ui) \in -1 .. Top(ui) /\ Top(ui) # -1 BY <1>2, TopBounds DEF Good
<1>9. /\ ui' \in UI /\ Screen(ui')
      /\ ui'.win = ui.win /\ ui'.key_win = ui.key_win /\ ui'.fifo = ui.fifo /\ ui'.wild = ui.wild
      /\ \A x : Shown(ui', x) <=> (x # s /\ Shown(ui, x)) \/ x = s
  BY <1>1, <1>2, <1>3, <1>4, <1>8, UpdownShows DEF Good, OnScreen
<1>10. Good(ui') BY <1>2, <1>9 DEF Good, Lights, Kind
<1>11. \A x \in Sids \ {s} : Kept(x) BY <1>9 DEF Kept, Kind, Task
<1>12. Raised(s)
  <2>1. cons'[n].pc # "closing" BY <1>3, <1>4, <1>5
  <2> QED BY <1>3, <1>9, <2>1 DEF Raised, Kind, Task
<1>13. Calm BY <1>9, <1>10, <1>11, <1>12 DEF Calm, IInv, TypeOK
<1>14. Stays(t) BY <1>1, <1>5 DEF Stays
<1>15. OpeningBy(t)'
  <2>1. cons'[n].pc # "none" BY <1>1, <1>4, <1>5, <1>7 DEF Live
  <2> QED BY <1>3, <1>5, <2>1 DEF OpeningBy, Live
<1>16. \A v \in Tasks : cons[v].new \in Sids \cup {NULL} BY <1>2 DEF Consoles
<1>17. \A v \in Tasks \ {t} :
          ~ui.wild /\ cons[v].pc \in Building /\ cons[v].new # NULL =>
             /\ Kept(cons[v].new)
             /\ cons'[t].pc \in Building => cons[v].new # cons'[t].new
  BY <1>5, <1>6, <1>11, <1>16 DEF Building
<1>18. \A v \in Tasks : cons[v].pc \in {"app", "closing", "ending"} => cons'[v].pc \in {"app", "closing", "ending"}
  BY <1>1, <1>5
<1>19. \A x \in Sids : Kind(ui', x) = "app" => cons'[Task(ui', x)].pc \in {"app", "closing", "ending"}
  <2>1. Kind(ui', s) # "app" BY <1>3, <1>9 DEF Kind
  <2> QED BY <1>11, <1>18, <2>1, OwnersRun
<1> QED BY <1>1, <1>5, <1>13, <1>14, <1>15, <1>17, <1>19, Step

\* The console lets its window go, and says so.
LEMMA GetkeyCloseSafe ==
    ASSUME IInv, NEW t \in Tasks, GetkeyClose(t)
    PROVE  /\ IInv'
           /\ \A x : (In(sys.fifo, x) => In(sys'.fifo, x)) /\ (x \in sys.lost => x \in sys'.lost)
<1>1. /\ ~ui.wild /\ cons[t].pc = "closing" /\ ui' = ui
      /\ Send(Exit("sheet", cons[t].sht))
      /\ cons' = [cons EXCEPT ![t].pc = "app", ![t].sht = NULL]
  BY DEF GetkeyClose, At
<1>2. cons \in [Tasks -> Consoles] BY DEF IInv, TypeOK
<1>3. PICK s : s = cons[t].sht OBVIOUS
<1>4. s # NULL /\ ~Shown(ui, s) /\ ~HasClose(ui.fifo[t]) /\ OneClose(ui.fifo[t])
  BY <1>1, <1>3 DEF IInv, CloseOnce, Live
<1>5. s \in Sids /\ Kind(ui, s) = "console" /\ Task(ui, s) = t
  BY <1>2, <1>3, <1>4 DEF Consoles, IInv, Owners
<1>6. cons[t].new = NULL BY <1>1 DEF IInv, Opening, OpeningBy
<1>7. /\ cons' \in [Tasks -> Consoles] /\ \A v \in Tasks \ {t} : cons'[v] = cons[v]
      /\ cons'[t].pc = "app" /\ cons'[t].new = NULL /\ cons'[t].sht = NULL
  <2> DEFINE c == [cons[t] EXCEPT !.pc = "app", !.sht = NULL]
  <2>1. cons[t] \in Consoles BY <1>2
  <2>2. c \in Consoles /\ c.pc = "app" /\ c.new = NULL /\ c.sht = NULL
    BY <1>6, <2>1 DEF Consoles, Labels
  <2>3. cons' = [cons EXCEPT ![t] = c] BY <1>1, <1>2
  <2> HIDE DEF c
  <2> QED BY <1>2, <2>2, <2>3
<1>8. Calm /\ AllKept BY <1>1, QuietUi
<1>9. PICK m : m = Exit("sheet", s) OBVIOUS
<1>10. m \in Exits /\ m.what = "sheet" /\ m.id = s /\ Names(m)
  BY <1>5, <1>9 DEF Exit, Exits, Names
\* No message that is settled names this console.
<1>11. ASSUME NEW x \in Exits, Names(x), Settled(x)
       PROVE  /\ x.what = "task" => x.id \in Tasks \ {t}
              /\ x.what # "task" =>
                    /\ x.id \in Sids /\ Kind(ui, x.id) = "console"
                    /\ Task(ui, x.id) \in Tasks \ {t}
  <2>1. CASE x.what = "task" BY <1>1, <1>11, <2>1 DEF Settled, Names
  <2>2. CASE x.what # "task"
    <3>1. x.id \in Sids /\ Kind(ui, x.id) = "console" BY <1>11, <2>2 DEF Settled, Names, Kind
    <3>2. Task(ui, x.id) \in Tasks BY <3>1 DEF IInv, Screen
    <3>3. Task(ui, x.id) # t BY <1>1, <1>3, <1>4, <1>11, <2>2 DEF Settled, Task
    <3> QED BY <2>2, <3>1, <3>2, <3>3
  <2> QED BY <2>1, <2>2
<1>12. ASSUME NEW x \in Exits, Names(x), Settled(x) PROVE Settled(x)'
  <2>1. CASE x.what = "task"
    <3>1. cons'[x.id] = cons[x.id] BY <1>7, <1>11, <1>12, <2>1
    <3> QED BY <1>12, <2>1, <3>1 DEF Settled
  <2>2. CASE x.what # "task"
    <3>1. cons'[ui.win[x.id].task] = cons[ui.win[x.id].task]
      BY <1>7, <1>11, <1>12, <2>2 DEF Task
    <3> QED BY <1>1, <1>12, <2>2, <3>1 DEF Settled, Shown
  <2> QED BY <2>1, <2>2
<1>13. ~In(sys.fifo, m)
  <2> SUFFICES ASSUME In(sys.fifo, m) PROVE FALSE OBVIOUS
  <2>1. Settled(m) BY SysBasics DEF In
  <2> QED BY <1>5, <1>10, <1>11, <2>1
<1>14. m \notin sys.lost BY <1>3, <1>5, <1>10 DEF IInv, Forgotten, Gone
<1>15. \A x \in Exits : In(sys.fifo, x) => Settled(x)'
  BY <1>12, SysBasics DEF In, IInv, Messages
<1>16. ASSUME NEW x \in sys.lost PROVE Gone(x)'
  <2>1. x \in Exits /\ Names(x) /\ Gone(x) BY SysBasics DEF IInv, Forgotten
  <2>2. CASE x.what = "sheet"
    <3>1. /\ x.id \in Sids /\ Kind(ui, x.id) = "console" /\ ~Shown(ui, x.id)
          /\ cons[Task(ui, x.id)].sht # x.id
      BY <2>1, <2>2 DEF Names, Gone
    <3>2. Task(ui, x.id) \in Tasks BY <3>1 DEF IInv, Screen
    <3>3. cons'[Task(ui, x.id)].sht # x.id BY <1>7, <3>1, <3>2, Numbers
    <3> QED BY <1>1, <2>2, <3>1, <3>3 DEF Gone, Kind, Task, Shown
  <2>3. CASE x.what # "sheet"
    <3>1. Settled(x)' BY <1>12, <2>1, <2>3 DEF Gone
    <3> QED BY <2>3, <3>1 DEF Gone
  <2> QED BY <2>2, <2>3
<1>17. Settled(m)' /\ Gone(m)'
  <2>1. Kind(ui', s) = "console" /\ Task(ui', s) = t /\ ~Shown(ui', s)
    BY <1>1, <1>4, <1>5 DEF Kind, Task, Shown
  <2>2. cons'[t].pc # "none" /\ cons'[t].sht = NULL /\ NULL # s BY <1>4, <1>7
  <2> QED BY <1>10, <2>1, <2>2 DEF Settled, Gone, Kind, Task
<1>18. ASSUME NEW k \in DOMAIN sys.fifo
       PROVE  /\ sys.fifo[k].what = "sheet" =>
                    Task(ui', sys.fifo[k].id) = Task(ui, sys.fifo[k].id)
              /\ sys.fifo[k].what = "task" /\ m.what = "sheet" =>
                    Task(ui', m.id) # sys.fifo[k].id
  <2>1. sys.fifo[k] \in Exits /\ Names(sys.fifo[k]) /\ Settled(sys.fifo[k])
    BY SysBasics DEF IInv, Messages
  <2> QED BY <1>1, <1>5, <1>10, <1>11, <2>1 DEF Task
<1>19. Send(m) BY <1>1, <1>3, <1>9
<1>20. /\ sys' \in [fifo : Seq(Exits), lost : SUBSET Exits] /\ Len(sys'.fifo) <= SYS_SIZE
       /\ Messages' /\ Forgotten'
       /\ In(sys'.fifo, m) \/ m \in sys'.lost
       /\ \A x : (In(sys.fifo, x) => In(sys'.fifo, x)) /\ (x \in sys.lost => x \in sys'.lost)
  BY <1>10, <1>13, <1>14, <1>15, <1>16, <1>17, <1>18, <1>19, Sent
<1>21. TypeOK' BY <1>7, <1>8, <1>20 DEF Calm, Good, TypeOK
<1>22. Owners'
  <2>1. ASSUME NEW v \in Tasks
        PROVE  /\ cons'[v].pc = "none" => cons'[v].sht = NULL
               /\ cons'[v].sht # NULL =>
                    Kind(ui', cons'[v].sht) = "console" /\ Task(ui', cons'[v].sht) = v
    <3>1. CASE v = t BY <1>7, <3>1
    <3>2. CASE v # t
      <4>1. cons'[v] = cons[v] BY <1>7, <3>2
      <4> QED BY <1>1, <4>1 DEF IInv, Owners, Kind, Task
    <3> QED BY <3>1, <3>2
  <2>2. ASSUME NEW x \in Sids, Kind(ui', x) = "console", ~Left(x)'
        PROVE  LET v == Task(ui', x) IN
               cons'[v].pc # "none" /\ (cons'[v].sht = x \/ (cons'[v].sht = NULL /\ Asked(x)'))
    <3>1. Kind(ui, x) = "console" /\ Task(ui', x) = Task(ui, x) /\ Task(ui, x) \in Tasks
      BY <1>1, <2>2 DEF Kind, Task, IInv, Screen
    <3>2. (Asked(x) => Asked(x)') /\ (Left(x) => Left(x)') BY <1>20 DEF Asked, Left, In
    <3>3. Live(Task(ui, x)) /\ (cons[Task(ui, x)].sht = x \/ (cons[Task(ui, x)].sht = NULL /\ Asked(x)))
      BY <2>2, <3>1, <3>2 DEF IInv, Owners
    <3>4. CASE Task(ui, x) = t
      <4>1. x = s BY <1>3, <1>4, <3>3, <3>4
      <4>2. Asked(x)' BY <1>9, <1>20, <2>2, <4>1 DEF Asked, Left, In
      <4> QED BY <1>7, <3>1, <3>4, <4>2
    <3>5. CASE Task(ui, x) # t BY <1>7, <3>1, <3>2, <3>3, <3>5 DEF Live
    <3> QED BY <3>4, <3>5
  <2> QED BY <2>1, <2>2 DEF Owners, Live
<1>23. CloseOnce'
  <2> SUFFICES ASSUME NEW v \in Tasks, cons'[v].pc # "none"
               PROVE  /\ OneClose(ui'.fifo[v])
                      /\ HasClose(ui'.fifo[v]) \/ cons'[v].pc = "closing" =>
                            cons'[v].sht # NULL /\ ~Shown(ui', cons'[v].sht)
                      /\ cons'[v].pc = "closing" => ~HasClose(ui'.fifo[v])
    BY DEF CloseOnce, Live
  <2>1. CASE v = t BY <1>1, <1>4, <1>7, <2>1
  <2>2. CASE v # t
    <3>1. cons'[v] = cons[v] BY <1>7, <2>2
    <3> QED BY <1>1, <3>1 DEF IInv, CloseOnce, Live, Shown
  <2> QED BY <2>1, <2>2
<1>24. Opening'
  <2> SUFFICES ASSUME ~ui'.wild PROVE Opening' BY DEF Opening
  <2>1. OpeningBy(t)' BY <1>7 DEF OpeningBy
  <2>2. ASSUME NEW v \in Tasks \ {t} PROVE OpeningBy(v)'
    <3>1. OpeningBy(v) /\ cons'[v] = cons[v] BY <1>1, <1>7 DEF IInv, Opening
    <3>2. cons[v].to \in Tasks \cup {NOBODY} BY <1>2 DEF Consoles
    <3>3. cons[v].pc = "show" => cons[v].to # t BY <1>1, <3>1 DEF OpeningBy
    <3>4. cons[v].to # NOBODY /\ cons[v].to # t => cons'[cons[v].to] = cons[cons[v].to]
      BY <1>7, <3>2
    <3>5. cons'[t].pc # "none" BY <1>7
    <3>6. CASE cons[v].pc = "show" BY <1>1, <3>1, <3>3, <3>4, <3>6 DEF OpeningBy, Kind, Task, Shown
    <3>7. CASE cons[v].pc = "type" BY <3>1, <3>4, <3>5, <3>7 DEF OpeningBy, Live
    <3>8. CASE cons[v].pc \in {"start", "app"} BY <1>1, <3>1, <3>8 DEF OpeningBy, Kind, Task
    <3>9. CASE cons[v].pc \notin {"start", "show", "type", "app"} BY <3>1, <3>9 DEF OpeningBy
    <3> QED BY <3>6, <3>7, <3>8, <3>9
  <2>3. ASSUME NEW v \in Tasks, NEW w \in Tasks,
               cons'[v].pc \in Building, cons'[w].pc \in Building,
               cons'[v].new = cons'[w].new, cons'[v].new # NULL
        PROVE  v = w
    <3>1. v # t /\ w # t BY <1>7, <2>3
    <3> QED BY <1>1, <1>7, <2>3, <3>1 DEF IInv, Opening
  <2> QED BY <2>1, <2>2, <2>3 DEF Opening
<1>25. WindowsOwned'
  <2>1. \A v \in Tasks : cons[v].pc \in {"app", "closing", "ending"} => cons'[v].pc \in {"app", "closing", "ending"}
    BY <1>7
  <2>2. \A x \in Sids : Kind(ui', x) = "app" => cons'[Task(ui', x)].pc \in {"app", "closing", "ending"}
    BY <1>8, <2>1, OwnersRun DEF AllKept
  <2> QED BY <2>2 DEF WindowsOwned, Running, Kind, Task
<1> QED BY <1>8, <1>20, <1>21, <1>22, <1>23, <1>24, <1>25 DEF IInv, Calm, Good

-----------------------------------------------------------------------------
(* Exit messages *)

LEMMA SameMessage ==
    ASSUME NEW x \in Exits, NEW y \in Exits, x.what = y.what, x.id = y.id
    PROVE  x = y
BY DEF Exits

\* task_a takes the oldest message: the others, and the lost ones, are as before.
LEMMA Taken ==
    ASSUME IInv, sys.fifo # <<>>, sys' = [sys EXCEPT !.fifo = Tail(@)]
    PROVE  /\ sys' \in [fifo : Seq(Exits), lost : SUBSET Exits] /\ sys'.lost = sys.lost
           /\ Len(sys.fifo) \in Nat /\ Len(sys.fifo) >= 1 /\ Len(sys'.fifo) <= SYS_SIZE
           /\ DOMAIN sys.fifo = 1 .. Len(sys.fifo) /\ DOMAIN sys'.fifo = 1 .. (Len(sys.fifo) - 1)
           /\ 1 \in DOMAIN sys.fifo /\ Head(sys.fifo) = sys.fifo[1] /\ sys.fifo[1] \in Exits
           /\ \A k \in DOMAIN sys'.fifo :
                 /\ sys'.fifo[k] = sys.fifo[k + 1] /\ k + 1 \in 2 .. Len(sys.fifo)
                 /\ k + 1 \in DOMAIN sys.fifo
           /\ \A x : In(sys'.fifo, x) => In(sys.fifo, x)
           /\ \A x : In(sys.fifo, x) => x = Head(sys.fifo) \/ In(sys'.fifo, x)
<1> DEFINE q == sys.fifo
<1>1. sys \in [fifo : Seq(Exits), lost : SUBSET Exits] /\ q \in Seq(Exits) /\ Len(q) <= SYS_SIZE
  BY DEF IInv, TypeOK
<1>2. /\ sys'.fifo = Tail(q) /\ sys'.lost = sys.lost
      /\ sys' \in [fifo : Seq(Exits), lost : SUBSET Exits]
  <2>1. PICK r : r = Tail(q) OBVIOUS
  <2>2. r \in Seq(Exits) BY <1>1, <2>1
  <2>3. sys' = [sys EXCEPT !.fifo = r] BY <2>1
  <2> HIDE DEF q
  <2> QED BY <1>1, <2>1, <2>2, <2>3
<1> HIDE DEF q
<1>3. /\ Len(q) \in Nat /\ Len(q) >= 1 /\ DOMAIN q = 1 .. Len(q)
      /\ DOMAIN Tail(q) = 1 .. (Len(q) - 1) /\ Len(Tail(q)) = Len(q) - 1
      /\ Head(q) = q[1] /\ 1 \in DOMAIN q /\ q[1] \in Exits
      /\ \A k \in DOMAIN Tail(q) :
            Tail(q)[k] = q[k + 1] /\ k + 1 \in 2 .. Len(q) /\ k + 1 \in DOMAIN q
  BY <1>1 DEF q
<1>4. Len(Tail(q)) <= SYS_SIZE BY <1>1, <1>3, Numbers
<1>5. \A x : In(Tail(q), x) => In(q, x) BY <1>3 DEF In
<1>6. ASSUME NEW x, In(q, x), x # Head(q) PROVE In(Tail(q), x)
  <2>1. PICK k \in DOMAIN q : q[k] = x BY <1>6 DEF In
  <2>2. k # 1 BY <1>3, <1>6, <2>1
  <2>3. k - 1 \in DOMAIN Tail(q) /\ (k - 1) + 1 = k BY <1>3, <2>2
  <2>4. Tail(q)[k - 1] = x BY <1>3, <2>1, <2>3
  <2> QED BY <2>3, <2>4 DEF In
<1> QED BY <1>2, <1>3, <1>4, <1>5, <1>6 DEF q

\* The sheets of S and the consoles of G are given back, and no other message is
\* about them.
LEMMA Departs ==
    ASSUME IInv, sys.fifo # <<>>, sys' = [sys EXCEPT !.fifo = Tail(@)],
           Good(ui'), ui.wild => ui'.wild, ui'.fifo = ui.fifo,
           NEW S \in SUBSET Sids, NEW G \in SUBSET Tasks,
           \A s \in S : Kind(ui, s) = "console" /\ Kind(ui', s) = "free",
           \A s \in Sids \ S : Kept(s),
           cons' = [t \in Tasks |-> IF t \in G THEN CLOSED ELSE cons[t]],
           \A t \in Tasks \ G : cons[t].sht \notin S,
           \A s \in Sids \ S :
              Kind(ui, s) = "app" \/ (Kind(ui, s) = "console" /\ ~Left(s)) => Task(ui, s) \notin G,
           \A k \in 2 .. Len(sys.fifo) :
              sys.fifo[k].id \notin (IF sys.fifo[k].what = "task" THEN G ELSE S),
           \A m \in sys.lost : m.id \notin (IF m.what = "task" THEN G ELSE S),
           \A s \in Sids \ S : sys.fifo[1] # Exit("sheet", s),
           ~ui'.wild => \A t \in Tasks : cons[t].to \notin G
    PROVE  IInv'
<1>1. cons \in [Tasks -> Consoles] BY DEF IInv, TypeOK
<1>2. /\ cons' \in [Tasks -> Consoles]
      /\ \A t \in G : cons'[t].pc = "none" /\ cons'[t].sht = NULL /\ cons'[t].new = NULL
      /\ \A t \in Tasks \ G : cons'[t] = cons[t]
  <2>1. CLOSED \in Consoles /\ CLOSED.pc = "none" /\ CLOSED.sht = NULL /\ CLOSED.new = NULL
    BY StartedType DEF CLOSED
  <2> QED BY <1>1, <2>1
<1>3. \A t \in Tasks : cons[t].sht \in Sids \cup {NULL} /\ cons[t].new \in Sids \cup {NULL}
                       /\ cons[t].to \in Tasks \cup {NOBODY}
  BY <1>1 DEF Consoles
<1>4. /\ sys' \in [fifo : Seq(Exits), lost : SUBSET Exits] /\ sys'.lost = sys.lost
      /\ Len(sys'.fifo) <= SYS_SIZE /\ DOMAIN sys'.fifo = 1 .. (Len(sys.fifo) - 1)
      /\ Len(sys.fifo) \in Nat
      /\ \A k \in DOMAIN sys'.fifo :
            /\ sys'.fifo[k] = sys.fifo[k + 1] /\ k + 1 \in 2 .. Len(sys.fifo)
            /\ k + 1 \in DOMAIN sys.fifo
      /\ \A x : In(sys'.fifo, x) => In(sys.fifo, x)
      /\ \A x : In(sys.fifo, x) => x = sys.fifo[1] \/ In(sys'.fifo, x)
  BY Taken
<1>5. TypeOK' BY <1>2, <1>4 DEF IInv, TypeOK, Good
<1>6. Owners'
  <2>1. ASSUME NEW t \in Tasks
        PROVE  /\ cons'[t].pc = "none" => cons'[t].sht = NULL
               /\ cons'[t].sht # NULL =>
                    Kind(ui', cons'[t].sht) = "console" /\ Task(ui', cons'[t].sht) = t
    <3>1. CASE t \in G BY <1>2, <3>1
    <3>2. CASE t \notin G
      <4>1. cons'[t] = cons[t] BY <1>2, <3>2
      <4>2. cons[t].sht # NULL => Kept(cons[t].sht) BY <1>3, <3>2
      <4> QED BY <4>1, <4>2 DEF IInv, Owners, Kept
    <3> QED BY <3>1, <3>2
  <2>2. ASSUME NEW s \in Sids, Kind(ui', s) = "console", ~Left(s)'
        PROVE  LET t == Task(ui', s) IN
               cons'[t].pc # "none" /\ (cons'[t].sht = s \/ (cons'[t].sht = NULL /\ Asked(s)'))
    <3>1. s \notin S BY <2>2
    <3>2. Kind(ui, s) = "console" /\ Task(ui', s) = Task(ui, s) BY <2>2, <3>1 DEF Kept
    <3>3. ~Left(s) BY <1>4, <2>2 DEF Left
    <3>4. Task(ui, s) \in Tasks \ G BY <3>1, <3>2, <3>3 DEF IInv, Screen
    <3>5. Live(Task(ui, s)) /\ (cons[Task(ui, s)].sht = s \/ (cons[Task(ui, s)].sht = NULL /\ Asked(s)))
      BY <3>2, <3>3 DEF IInv, Owners
    <3>6. Asked(s) => Asked(s)'
      <4>1. PICK x : x = Exit("sheet", s) OBVIOUS
      <4>2. (Asked(s) <=> In(sys.fifo, x)) /\ (Asked(s)' <=> In(sys'.fifo, x))
        BY <4>1 DEF Asked, In
      <4> QED BY <1>4, <3>1, <4>1, <4>2
    <3> QED BY <1>2, <3>2, <3>4, <3>5, <3>6 DEF Live
  <2> QED BY <2>1, <2>2 DEF Owners, Live
\* A message that stays settled, and whose sheet and console are not given back
<1>7. ASSUME NEW x \in Exits, Names(x), Settled(x), x.id \notin (IF x.what = "task" THEN G ELSE S),
             x.what = "sheet" => ~Left(x.id)
      PROVE  Settled(x)'
  <2>1. CASE x.what = "task"
    <3>1. x.id \in Tasks \ G BY <1>7, <2>1 DEF Names
    <3>2. cons'[x.id] = cons[x.id] BY <1>2, <3>1
    <3> QED BY <1>7, <2>1, <3>2 DEF Settled
  <2>2. CASE x.what # "task"
    <3>1. x.id \in Sids \ S /\ Kind(ui, x.id) = "console" BY <1>7, <2>2 DEF Names, Settled, Kind
    <3>2. Task(ui, x.id) \in Tasks BY <3>1 DEF IInv, Screen
    <3>3. ~Left(x.id)
      <4> SUFFICES ASSUME x.what # "sheet", Left(x.id) PROVE FALSE BY <1>7
      <4>1. x.what = "console" BY <2>2 DEF Exits
      <4>2. cons[Task(ui, x.id)].sht = x.id BY <1>7, <4>1 DEF Settled, Task
      <4>3. Gone(Exit("sheet", x.id)) BY DEF Left, IInv, Forgotten
      <4> QED BY <4>2, <4>3 DEF Gone, Exit
    <3>4. cons'[Task(ui, x.id)] = cons[Task(ui, x.id)] BY <1>2, <3>1, <3>2, <3>3
    <3>5. /\ ui'.win[x.id].kind = "console" /\ ui'.win[x.id].task = ui.win[x.id].task
          /\ Shown(ui', x.id) => Shown(ui, x.id)
      BY <3>1 DEF Kept, Kind, Task
    <3> QED BY <1>7, <2>2, <3>4, <3>5 DEF Settled, Task
  <2> QED BY <2>1, <2>2
<1>8. ASSUME NEW k \in DOMAIN sys'.fifo PROVE Settled(sys.fifo[k])'
  <2>1. PICK x : x = sys'.fifo[k] OBVIOUS
  <2>2. k + 1 \in DOMAIN sys.fifo /\ x = sys.fifo[k + 1] /\ In(sys.fifo, x)
    BY <1>4, <2>1 DEF In
  <2>3. x \in Exits /\ Names(x) /\ Settled(x) BY <2>2, SysBasics DEF IInv, Messages
  <2>4. x.id \notin (IF x.what = "task" THEN G ELSE S) BY <1>4, <2>2
  <2>5. x.what = "sheet" => ~Left(x.id)
    <3> SUFFICES ASSUME x.what = "sheet", Left(x.id) PROVE FALSE OBVIOUS
    <3>1. Exit("sheet", x.id) = x BY <2>3 DEF Exit, Exits
    <3> QED BY <2>2, <3>1 DEF Left, IInv, Forgotten, In
  <2>6. Settled(x)' BY <1>7, <2>3, <2>4, <2>5
  <2> QED BY <2>1, <2>6 DEF Settled
<1>9. Messages'
  <2>1. \A j, k \in DOMAIN sys'.fifo : sys'.fifo[j] = sys'.fifo[k] => j = k
    BY <1>4 DEF IInv, Messages, ExitsMatch
  <2>2. ExitsMatch' BY <1>8, <2>1 DEF ExitsMatch
  <2>3. \A k \in DOMAIN sys'.fifo : Names(sys'.fifo[k]) BY <1>4 DEF IInv, Messages
  <2>4. ASSUME NEW j \in DOMAIN sys'.fifo, NEW k \in DOMAIN sys'.fifo,
               sys'.fifo[j].what = "task", sys'.fifo[k].what = "sheet",
               Task(ui', sys'.fifo[k].id) = sys'.fifo[j].id
        PROVE  k < j
    <3>1. /\ j + 1 \in DOMAIN sys.fifo /\ sys'.fifo[j] = sys.fifo[j + 1]
          /\ k + 1 \in DOMAIN sys.fifo /\ sys'.fifo[k] = sys.fifo[k + 1]
          /\ sys.fifo[k + 1].id \notin S
      BY <1>4, <2>4
    <3>2. sys.fifo[k + 1].id \in Sids BY <2>4, <3>1, SysBasics
    <3>3. Task(ui', sys.fifo[k + 1].id) = Task(ui, sys.fifo[k + 1].id) BY <3>1, <3>2 DEF Kept
    <3>4. k + 1 < j + 1 BY <2>4, <3>1, <3>3 DEF IInv, Messages
    <3>5. j \in Nat /\ k \in Nat BY <1>4
    <3> QED BY <3>4, <3>5
  <2> QED BY <2>2, <2>3, <2>4 DEF Messages, Names
<1>10. Forgotten'
  <2> SUFFICES ASSUME NEW m \in sys.lost
               PROVE  Names(m) /\ Gone(m)' /\ \A k \in DOMAIN sys'.fifo : sys'.fifo[k] # m
    BY <1>4 DEF Forgotten, Names
  <2>1. m \in Exits /\ Names(m) /\ Gone(m) /\ ~In(sys.fifo, m)
    BY SysBasics DEF IInv, Forgotten, In
  <2>2. m.id \notin (IF m.what = "task" THEN G ELSE S) OBVIOUS
  <2>3. CASE m.what = "sheet"
    <3>1. /\ m.id \in Sids \ S /\ Kind(ui, m.id) = "console" /\ ~Shown(ui, m.id)
          /\ cons[Task(ui, m.id)].sht # m.id
      BY <2>1, <2>2, <2>3 DEF Names, Gone
    <3>2. Task(ui, m.id) \in Tasks /\ Kept(m.id) BY <3>1 DEF IInv, Screen
    <3>3. \A t \in Tasks : cons[t].sht # m.id => cons'[t].sht # m.id
      <4>1. m.id # NULL BY <3>1, Numbers
      <4>2. \A t \in G : cons'[t].sht = NULL BY <1>2
      <4>3. \A t \in Tasks \ G : cons'[t] = cons[t] BY <1>2
      <4> QED BY <4>1, <4>2, <4>3
    <3>5. cons'[Task(ui, m.id)].sht # m.id BY <3>1, <3>2, <3>3
    <3>4. Gone(m)' BY <2>3, <3>1, <3>2, <3>5 DEF Gone, Kept
    <3> QED BY <1>4, <2>1, <3>4 DEF In
  <2>4. CASE m.what # "sheet"
    <3>1. Settled(m)' BY <1>7, <2>1, <2>2, <2>4 DEF Gone
    <3> QED BY <1>4, <2>1, <2>4, <3>1 DEF Gone, In
  <2> QED BY <2>3, <2>4
<1>11. CloseOnce'
  <2> SUFFICES ASSUME NEW t \in Tasks, cons'[t].pc # "none"
               PROVE  /\ OneClose(ui'.fifo[t])
                      /\ HasClose(ui'.fifo[t]) \/ cons'[t].pc = "closing" =>
                            cons'[t].sht # NULL /\ ~Shown(ui', cons'[t].sht)
                      /\ cons'[t].pc = "closing" => ~HasClose(ui'.fifo[t])
    BY DEF CloseOnce, Live
  <2>1. t \notin G /\ cons'[t] = cons[t] BY <1>2
  <2>2. cons[t].sht # NULL => Kept(cons[t].sht) BY <1>3, <2>1
  <2> QED BY <2>1, <2>2 DEF IInv, CloseOnce, Live, Kept
<1>12. Opening'
  <2> SUFFICES ASSUME ~ui'.wild PROVE Opening' BY DEF Opening
  <2>1. ~ui.wild /\ \A t \in Tasks : cons[t].to \notin G OBVIOUS
  <2>2. ASSUME NEW t \in Tasks PROVE OpeningBy(t)'
    <3>1. CASE t \in G BY <1>2, <3>1 DEF OpeningBy
    <3>2. CASE t \notin G
      <4>1. OpeningBy(t) /\ cons'[t] = cons[t] BY <1>2, <2>1, <3>2 DEF IInv, Opening
      <4>2. cons[t].to # NOBODY => cons'[cons[t].to] = cons[cons[t].to] BY <1>2, <1>3, <2>1
      <4>3. ASSUME cons[t].pc \in Building, cons[t].new # NULL PROVE Kept(cons[t].new)
        <5>1. cons[t].new \in Sids BY <1>3, <4>3
        <5>2. ASSUME cons[t].new \in S PROVE FALSE
          <6>1. Kind(ui, cons[t].new) = "console" BY <5>2
          <6>2. cons[t].pc = "show" BY <2>1, <4>3, <6>1, Opened
          <6>3. cons[cons[t].to].sht = cons[t].new /\ cons[t].to \in Tasks
            BY <1>3, <4>1, <6>2 DEF OpeningBy
          <6> QED BY <2>1, <5>2, <6>3
        <5> QED BY <5>1, <5>2
      <4>4. CASE cons[t].pc = "start" BY <4>1, <4>3, <4>4 DEF OpeningBy, Kept, Building
      <4>5. CASE cons[t].pc = "show" BY <4>1, <4>2, <4>3, <4>5 DEF OpeningBy, Kept, Building
      <4>6. CASE cons[t].pc = "type" BY <4>1, <4>2, <4>6 DEF OpeningBy, Live
      <4>7. CASE cons[t].pc = "app" BY <4>1, <4>3, <4>7 DEF OpeningBy, Kept, Building
      <4>8. CASE cons[t].pc \notin {"start", "show", "type", "app"} BY <4>1, <4>8 DEF OpeningBy
      <4> QED BY <4>4, <4>5, <4>6, <4>7, <4>8
    <3> QED BY <3>1, <3>2
  <2>3. \A v, w \in Tasks :
           /\ cons'[v].pc \in Building /\ cons'[w].pc \in Building
           /\ cons'[v].new = cons'[w].new /\ cons'[v].new # NULL
           => v = w
    BY <1>2, <2>1 DEF IInv, Opening, Building
  <2> QED BY <2>2, <2>3 DEF Opening
<1>13. WindowsOwned'
  <2> SUFFICES ASSUME NEW s \in Sids, Kind(ui', s) = "app"
               PROVE  cons'[Task(ui', s)].pc \in {"app", "closing", "ending"}
    BY DEF WindowsOwned, Running, Kind, Task
  <2>1. s \notin S OBVIOUS
  <2>2. Kind(ui, s) = "app" /\ Task(ui', s) = Task(ui, s) BY <2>1 DEF Kept
  <2>3. Task(ui, s) \in Tasks \ G BY <2>1, <2>2 DEF IInv, Screen
  <2> QED BY <1>2, <2>2, <2>3 DEF IInv, WindowsOwned, Running, Kind, Task
<1> QED BY <1>5, <1>6, <1>9, <1>10, <1>11, <1>12, <1>13 DEF IInv, Good

LEMMA Freed ==
    ASSUME IInv, NEW s \in Sids, Kind(ui, s) = "console",
           NEW v, v = SheetFree(Refresh(ui), s), ui' \in {v, Wild(v)}
    PROVE  /\ Good(ui') /\ (ui.wild => ui'.wild) /\ ui'.fifo = ui.fifo
           /\ Kind(ui', s) = "free" /\ \A x \in Sids \ {s} : Kept(x)
<1> DEFINE u == Refresh(ui)
<1>1. Good(u) /\ Quiet(ui, u) BY Refreshed
<1>2. v = SheetFree(u, s) OBVIOUS
<1> HIDE DEF u
<1>3. Kind(u, s) # "desk" BY <1>1 DEF Quiet
<1>4. /\ v \in UI /\ Screen(v) /\ Lights(v) /\ v.fifo = u.fifo /\ v.wild = u.wild
      /\ v.win[s] = FREE /\ \A x \in Sids : x # s => v.win[x] = u.win[x]
      /\ \A x : Shown(v, x) <=> x # s /\ Shown(u, x)
  BY <1>1, <1>2, <1>3, FreeShows DEF Good
<1>5. Good(v) BY <1>4 DEF Good
<1>6. Quiet(v, ui') BY <1>5, QuietWild
<1>7. Kind(v, s) = "free" BY <1>4 DEF Kind, FREE
<1>8. \A x \in Sids \ {s} : Kind(v, x) = Kind(u, x) /\ Task(v, x) = Task(u, x)
  BY <1>4 DEF Kind, Task
<1> QED BY <1>1, <1>4, <1>6, <1>7, <1>8 DEF Quiet, Kept

LEMMA TakeExitKeeps ==
    ASSUME IInv, TakeExit PROVE IInv'
<1> DEFINE u == Refresh(ui)
           m == Head(sys.fifo)
           v == IF m.what = "task" THEN u ELSE SheetFree(u, m.id)
           gone == CASE m.what = "console" -> {u.win[m.id].task}
                     [] m.what = "task" -> {m.id}
                     [] OTHER -> {}
<1>1. /\ sys.fifo # <<>> /\ sys' = [sys EXCEPT !.fifo = Tail(@)]
      /\ ui' = IF \E t \in Tasks : cons[t].to \in gone THEN Wild(v) ELSE v
      /\ cons' = [t \in Tasks |-> IF t \in gone THEN CLOSED ELSE cons[t]]
  BY DEF TakeExit
<1>2. m = sys.fifo[1] /\ 1 \in DOMAIN sys.fifo /\ m \in Exits BY <1>1, Taken
<1>3. Settled(m) BY <1>2, SysBasics
<1>4. DOMAIN sys.fifo = 1 .. Len(sys.fifo) /\ Len(sys.fifo) \in Nat BY SysBasics
<1>5. ~ui'.wild => \A t \in Tasks : cons[t].to \notin gone
  <2>1. Wild(v).wild
    <3>1. Good(u) BY Refreshed
    <3>2. CASE m.what = "task" BY <3>1, <3>2, WildLooks DEF Good
    <3>3. CASE m.what # "task"
      <4>1. m.id \in Sids /\ Kind(ui, m.id) = "console" BY <1>2, <3>3, SysBasics
      <4>2. Kind(u, m.id) # "desk" BY <4>1, Refreshed DEF Quiet
      <4>3. v \in UI BY <3>1, <3>3, <4>1, <4>2, FreeShows DEF Good
      <4> QED BY <4>3, WildLooks
    <3> QED BY <3>2, <3>3
  <2> QED BY <1>1, <2>1
<1>6. ui' \in {v, Wild(v)} BY <1>1
\* No other message, waiting or lost, is this one.
<1>7. ASSUME NEW k \in 2 .. Len(sys.fifo)
      PROVE  ~(sys.fifo[k].what = m.what /\ sys.fifo[k].id = m.id)
  <2> SUFFICES ASSUME sys.fifo[k].what = m.what, sys.fifo[k].id = m.id PROVE FALSE OBVIOUS
  <2>1. k \in DOMAIN sys.fifo /\ k # 1 BY <1>4
  <2>2. sys.fifo[k] \in Exits BY <2>1, SysBasics
  <2>3. sys.fifo[k] = sys.fifo[1] BY <1>2, <2>2, SameMessage
  <2> QED BY <1>2, <2>1, <2>3 DEF IInv, Messages, ExitsMatch
<1>8. ASSUME NEW x \in sys.lost
      PROVE  x \in Exits /\ Names(x) /\ Gone(x) /\ ~(x.what = m.what /\ x.id = m.id)
  <2>1. x \in Exits /\ Names(x) /\ Gone(x) /\ x # m BY <1>2, SysBasics DEF IInv, Forgotten
  <2> QED BY <1>2, <2>1, SameMessage
<1>9. CASE m.what = "task"
  <2> DEFINE t == m.id
             S == {}
  <2>1. t \in Tasks /\ cons[t].pc = "dead" /\ cons[t].sht = NULL
    BY <1>2, <1>3, <1>9, SysBasics DEF Settled
  <2>2. gone = {t} /\ v = u BY <1>9
  <2>3. Quiet(ui, ui')
    BY <1>6, <2>2, Refreshed, QuietWild, QuietTwice
  <2>4. Good(ui') /\ (ui.wild => ui'.wild) /\ ui'.fifo = ui.fifo /\ \A s \in Sids : Kept(s)
    BY <2>3 DEF Quiet, Kept
  <2>5. ASSUME NEW s \in Sids, Kind(ui, s) = "app" \/ (Kind(ui, s) = "console" /\ ~Left(s))
        PROVE  Task(ui, s) # t
    <3>1. CASE Kind(ui, s) = "app" BY <2>1, <3>1 DEF IInv, WindowsOwned, Running, Kind, Task
    <3>2. CASE Kind(ui, s) = "console" /\ ~Left(s)
      <4> SUFFICES ASSUME Task(ui, s) = t PROVE FALSE OBVIOUS
      <4>1. PICK k \in DOMAIN sys.fifo : sys.fifo[k] = Exit("sheet", s)
        BY <2>1, <3>2, Numbers DEF IInv, Owners, Asked
      <4>2. sys.fifo[k].what = "sheet" /\ Task(ui, sys.fifo[k].id) = t BY <4>1 DEF Exit
      <4>3. k < 1 BY <1>2, <1>9, <4>2 DEF IInv, Messages
      <4> QED BY <1>4, <4>3
    <3> QED BY <2>5, <3>1, <3>2
  <2>6. \A k \in 2 .. Len(sys.fifo) :
           sys.fifo[k].id \notin (IF sys.fifo[k].what = "task" THEN {t} ELSE S)
    BY <1>7, <1>9
  <2>7. \A x \in sys.lost : x.id \notin (IF x.what = "task" THEN {t} ELSE S) BY <1>8, <1>9
  <2>8. \A s \in Sids : sys.fifo[1] # Exit("sheet", s) BY <1>2, <1>9 DEF Exit
  <2> HIDE DEF m, gone, v, u
  <2>9. S \in SUBSET Sids /\ {t} \in SUBSET Tasks BY <2>1
  <2>10. cons' = [x \in Tasks |-> IF x \in {t} THEN CLOSED ELSE cons[x]] BY <1>1, <2>2
  <2>11. \A s \in Sids :
            Kind(ui, s) = "app" \/ (Kind(ui, s) = "console" /\ ~Left(s)) => Task(ui, s) \notin {t}
    BY <2>5
  <2>12. ~ui'.wild => \A x \in Tasks : cons[x].to \notin {t} BY <1>5, <2>2
  <2> HIDE DEF t
  <2> QED BY <1>1, <2>4, <2>6, <2>7, <2>8, <2>9, <2>10, <2>11, <2>12, Departs
<1>10. CASE m.what # "task"
  <2> DEFINE s == m.id
             t == Task(ui, s)
  <2>1. s \in Sids /\ Kind(ui, s) = "console" /\ t \in Tasks /\ m.what \in {"console", "sheet"}
    BY <1>2, <1>10, SysBasics
  <2>2. Task(u, s) = t BY <2>1, Refreshed DEF Quiet
  <2>3. gone = IF m.what = "console" THEN {t} ELSE {} BY <1>10, <2>2 DEF Task
  <2>4. v = SheetFree(Refresh(ui), s) BY <1>10
  <2>5. PICK w : w = v OBVIOUS
  <2>6. PICK G : G = gone OBVIOUS
  <2>7. /\ cons' = [x \in Tasks |-> IF x \in G THEN CLOSED ELSE cons[x]]
        /\ ~ui'.wild => \A x \in Tasks : cons[x].to \notin G
        /\ G = IF m.what = "console" THEN {t} ELSE {}
    BY <1>1, <1>5, <2>3, <2>6
  <2>8. m.what = "console" => cons[t].pc = "dead" /\ cons[t].sht = s
    BY <1>3 DEF Settled, Task
  <2>9. m.what = "sheet" => cons[t].sht = NULL
    BY <1>3 DEF Settled, Task
  \* A message that is settled is about neither of them.
  <2>10. ASSUME NEW x \in Exits, Settled(x), ~(x.what = m.what /\ x.id = s)
         PROVE  x.id \notin (IF x.what = "task" THEN G ELSE {s})
    <3>1. x.what \in {"console", "task", "sheet"} BY DEF Exits
    <3>2. CASE x.what = "task" BY <2>1, <2>7, <2>8, <2>10, <3>2, Numbers DEF Settled
    <3>3. CASE x.what = "console" BY <2>1, <2>9, <2>10, <3>3, Numbers DEF Settled, Task
    <3>4. CASE x.what = "sheet" BY <2>1, <2>8, <2>10, <3>4, Numbers DEF Settled, Task
    <3> QED BY <3>1, <3>2, <3>3, <3>4
  <2>11. ASSUME NEW k \in 2 .. Len(sys.fifo)
         PROVE  sys.fifo[k].id \notin (IF sys.fifo[k].what = "task" THEN G ELSE {s})
    <3>1. k \in DOMAIN sys.fifo BY <1>4
    <3>2. Settled(sys.fifo[k]) /\ sys.fifo[k] \in Exits BY <3>1, SysBasics
    <3> QED BY <1>7, <2>10, <3>2
  <2>12. ASSUME NEW x \in sys.lost PROVE x.id \notin (IF x.what = "task" THEN G ELSE {s})
    <3>1. x \in Exits /\ Names(x) /\ Gone(x) /\ ~(x.what = m.what /\ x.id = s) BY <1>8
    <3>2. CASE x.what = "sheet"
      <4>1. x.id = s => m.what = "console" /\ cons[t].sht # s BY <2>1, <3>1, <3>2 DEF Gone
      <4> QED BY <2>8, <3>2, <4>1
    <3>3. CASE x.what # "sheet"
      <4>1. Settled(x) BY <3>1, <3>3 DEF Gone
      <4> QED BY <2>10, <3>1, <4>1
    <3> QED BY <3>2, <3>3
  <2>13. \A x \in Sids \ {s} : sys.fifo[1] # Exit("sheet", x) BY <1>2 DEF Exit
  <2> HIDE DEF v, gone, u
  <2>14. /\ Good(ui') /\ (ui.wild => ui'.wild) /\ ui'.fifo = ui.fifo
         /\ Kind(ui', s) = "free" /\ \A x \in Sids \ {s} : Kept(x)
    BY <1>6, <2>1, <2>4, <2>5, Freed
  <2>15. \A x \in Tasks \ G : cons[x].sht \notin {s}
    <3> SUFFICES ASSUME NEW x \in Tasks \ G, cons[x].sht = s PROVE FALSE OBVIOUS
    <3>1. x = t BY <2>1, Numbers DEF IInv, Owners
    <3> QED BY <2>1, <2>7, <2>9, <3>1, Numbers
  <2>16. ASSUME NEW x \in Sids \ {s},
                Kind(ui, x) = "app" \/ (Kind(ui, x) = "console" /\ ~Left(x))
         PROVE  Task(ui, x) \notin G
    <3> SUFFICES ASSUME Task(ui, x) \in G PROVE FALSE OBVIOUS
    <3>1. Task(ui, x) = t /\ cons[t].pc = "dead" /\ cons[t].sht = s BY <2>7, <2>8
    <3>2. CASE Kind(ui, x) = "app" BY <3>1, <3>2 DEF IInv, WindowsOwned, Running, Kind, Task
    <3>3. CASE Kind(ui, x) = "console" /\ ~Left(x)
      BY <2>1, <3>1, <3>3, Numbers DEF IInv, Owners
    <3> QED BY <2>16, <3>2, <3>3
  <2>17. {s} \in SUBSET Sids /\ G \in SUBSET Tasks BY <2>1, <2>7
  <2>18. \A x \in {s} : Kind(ui, x) = "console" /\ Kind(ui', x) = "free" BY <2>1, <2>14
  <2> HIDE DEF s, t, m
  <2> QED BY <1>1, <2>7, <2>11, <2>12, <2>13, <2>14, <2>15, <2>16, <2>17, <2>18, Departs
<1> QED BY <1>9, <1>10

-----------------------------------------------------------------------------
(* The invariant *)

LEMMA InitIInv ==
    ASSUME Init PROVE IInv
<1> DEFINE w == [s \in Sids |-> CASE s \in {SHT_BACK, SHT_MOUSE} -> DESK
                                  [] s = 1 -> [kind |-> "console", task |-> 1, lit |-> TRUE]
                                  [] OTHER -> FREE]
<1>1. /\ ui.stack = <<SHT_BACK, 1, SHT_MOUSE>> /\ ui.win = w /\ ui.key_win = 1
      /\ ui.fifo = [t \in Tasks |-> <<>>] /\ ui.wild = FALSE
      /\ sys = [fifo |-> <<>>, lost |-> {}]
      /\ ui = [stack |-> <<SHT_BACK, 1, SHT_MOUSE>>, win |-> w, key_win |-> 1,
               fifo |-> [t \in Tasks |-> <<>>], wild |-> FALSE]
      /\ cons = [t \in Tasks |-> IF t = 1 THEN Started(1) ELSE CLOSED]
  BY DEF Init
<1>2. \A s \in Sids :
         /\ w[s] \in [kind : Kinds, task : Tasks \cup {NOBODY}, lit : BOOLEAN]
         /\ w[s].kind = IF s \in {SHT_BACK, SHT_MOUSE} THEN "desk" ELSE IF s = 1 THEN "console" ELSE "free"
         /\ w[s].task = IF s = 1 THEN 1 ELSE NOBODY
         /\ w[s].lit <=> s = 1
  <2> SUFFICES ASSUME NEW s \in Sids
      PROVE /\ w[s] \in [kind : Kinds, task : Tasks \cup {NOBODY}, lit : BOOLEAN]
            /\ w[s].kind = IF s \in {SHT_BACK, SHT_MOUSE} THEN "desk" ELSE IF s = 1 THEN "console" ELSE "free"
            /\ w[s].task = IF s = 1 THEN 1 ELSE NOBODY
            /\ w[s].lit <=> s = 1
      OBVIOUS
  <2>1. CASE s \in {SHT_BACK, SHT_MOUSE}
    <3>1. s # 1 BY <2>1 DEF SHT_BACK, SHT_MOUSE
    <3>2. w[s] = [kind |-> "desk", task |-> NOBODY, lit |-> FALSE] BY <2>1, <3>1 DEF DESK, FREE
    <3>3. w[s].kind = "desk" /\ w[s].task = NOBODY /\ w[s].lit = FALSE /\ "desk" \in Kinds
      BY <3>2 DEF Kinds
    <3> QED BY <2>1, <3>1, <3>2, <3>3
  <2>2. CASE s = 1
    <3>1. s \notin {SHT_BACK, SHT_MOUSE} BY <2>2 DEF SHT_BACK, SHT_MOUSE
    <3>2. w[s] = [kind |-> "console", task |-> 1, lit |-> TRUE] BY <2>2, <3>1
    <3>3. /\ w[s].kind = "console" /\ w[s].task = 1 /\ w[s].lit = TRUE
          /\ "console" \in Kinds /\ 1 \in Tasks
      BY <3>2, Numbers DEF Kinds
    <3> QED BY <2>2, <3>1, <3>2, <3>3
  <2>3. CASE s # 1 /\ s \notin {SHT_BACK, SHT_MOUSE}
    <3>1. w[s] = [kind |-> "free", task |-> NOBODY, lit |-> FALSE] BY <2>3 DEF FREE
    <3>2. w[s].kind = "free" /\ w[s].task = NOBODY /\ w[s].lit = FALSE /\ "free" \in Kinds
      BY <3>1 DEF Kinds
    <3> QED BY <2>3, <3>1, <3>2
  <2> QED BY <2>1, <2>2, <2>3
<1>3. w \in [Sids -> [kind : Kinds, task : Tasks \cup {NOBODY}, lit : BOOLEAN]] BY <1>2
<1> HIDE DEF w
<1>4. <<SHT_BACK, 1, SHT_MOUSE>> \in Seq(Sids) BY Numbers
<1>5. [t \in Tasks |-> <<>>] \in [Tasks -> Seq({CLOSE, ENTER})] OBVIOUS
<1>6. ui \in UI BY <1>1, <1>3, <1>4, <1>5, Numbers DEF UI
<1>7. \A s \in Sids : /\ Kind(ui, s) = IF s \in {SHT_BACK, SHT_MOUSE} THEN "desk"
                                       ELSE IF s = 1 THEN "console" ELSE "free"
                      /\ Task(ui, s) = IF s = 1 THEN 1 ELSE NOBODY
                      /\ ui.win[s].lit <=> s = 1
  BY <1>1, <1>2 DEF Kind, Task
<1>8. \A s : Shown(ui, s) <=> s \in {SHT_BACK, 1, SHT_MOUSE} BY <1>1 DEF Shown
<1>9. Started(1) \in Consoles /\ CLOSED \in Consoles BY StartedType, Numbers
<1>10. /\ cons[1].pc = "shell" /\ cons[1].sht = 1 /\ cons[1].new = NULL
       /\ \A t \in Tasks \ {1} : cons[t].pc = "none" /\ cons[t].sht = NULL /\ cons[t].new = NULL
  BY <1>1, Numbers DEF Started, CLOSED
<1>11. TypeOK
  <2>1. \A t \in Tasks : Len(ui.fifo[t]) <= FIFO_SIZE BY <1>1, Numbers
  <2>2. cons \in [Tasks -> Consoles] BY <1>1, <1>9
  <2>3. sys \in [fifo : Seq(Exits), lost : SUBSET Exits] /\ Len(sys.fifo) = 0 BY <1>1
  <2> QED BY <1>1, <1>6, <2>1, <2>2, <2>3, Numbers DEF TypeOK
<1>12. Screen(ui)
  <2>1. \A j, k \in DOMAIN ui.stack : ui.stack[j] = ui.stack[k] => j = k
    BY <1>1 DEF SHT_BACK, SHT_MOUSE
  <2>2. \A s \in Sids : Task(ui, s) \in Tasks <=> Kind(ui, s) \in {"app", "console"}
    BY <1>7, Numbers DEF SHT_BACK, SHT_MOUSE
  <2>3. \A s \in Sids : Kind(ui, s) = "desk" <=> s \in {SHT_BACK, SHT_MOUSE} BY <1>7
  <2>4. \A s \in Sids : Shown(ui, s) => Kind(ui, s) \in OnScreen BY <1>7, <1>8 DEF OnScreen
  <2> QED BY <1>8, <2>1, <2>2, <2>3, <2>4 DEF Screen
<1>13. Lights(ui)
  <2> SUFFICES ASSUME NEW s \in Sids, ui.win[s].lit
      PROVE s \in {ui.key_win, SHT_BACK} /\ s # SHT_MOUSE /\ Kind(ui, s) \in OnScreen
      BY DEF Lights
  <2>1. s = 1 /\ ui.key_win = 1 BY <1>1, <1>7
  <2>2. s \notin {SHT_BACK, SHT_MOUSE} BY <2>1 DEF SHT_BACK, SHT_MOUSE
  <2>3. Kind(ui, s) = "console" BY <1>7, <2>1, <2>2
  <2> QED BY <2>1, <2>2, <2>3 DEF OnScreen
<1>14. Owners
  <2>1. \A s \in Sids : Kind(ui, s) = "console" => s = 1 BY <1>7
  <2>2. Kind(ui, 1) = "console" /\ Task(ui, 1) = 1 BY <1>7, Numbers DEF SHT_BACK, SHT_MOUSE
  <2> QED BY <1>10, <2>1, <2>2 DEF Owners, Live
<1>15. Messages /\ Forgotten
  <2>1. sys.fifo = <<>> /\ sys.lost = {} BY <1>1
  <2> QED BY <2>1 DEF Messages, ExitsMatch, Forgotten
<1>16. CloseOnce
  <2>1. \A t \in Tasks : cons[t].pc # "closing" /\ ui.fifo[t] = <<>> BY <1>1, <1>10
  <2> QED BY <2>1 DEF CloseOnce, OneClose, HasClose
<1>17. Opening
  <2>1. \A t \in Tasks : cons[t].pc \in {"shell", "none"} /\ cons[t].new = NULL BY <1>10
  <2> QED BY <2>1 DEF Opening, OpeningBy, Building
<1>18. WindowsOwned BY <1>7 DEF WindowsOwned, Running, Kind
<1> QED BY <1>11, <1>12, <1>13, <1>14, <1>15, <1>16, <1>17, <1>18 DEF IInv

LEMMA StutterKeeps ==
    ASSUME IInv, UNCHANGED vars PROVE IInv'
<1>1. UNCHANGED <<ui, cons, sys>> BY DEF vars
<1>2. Quiet(ui, ui') BY <1>1, Refreshed, QuietWild
<1> QED BY <1>1, <1>2, QuietStill

LEMMA NextKeeps ==
    ASSUME IInv, [Next]_vars PROVE IInv'
<1>1. CASE TaskA
  BY <1>1, KeyEnterKeeps, TabKeeps, ShiftF1Keeps, ShiftF2Keeps, F11Keeps, TakeExitKeeps,
     ClickKeeps, CloseAppKeeps, CloseConsoleKeeps DEF TaskA
<1>2. ASSUME NEW t \in Tasks, Proceed(t) PROVE IInv'
  BY <1>2, ExitKeeps, CommandKeeps, PromptKeeps, StartAppKeeps, CmdNcstKeeps, StartSheetKeeps,
     StartTaskKeeps, StartShowKeeps, StartTypeKeeps, GetkeyCloseSafe, FreeWindowKeeps,
     EndedKeeps DEF Proceed
<1>3. ASSUME NEW t \in Tasks, App(t) PROVE IInv'
  BY <1>3, GetkeyTakeKeeps, GetkeyEnterKeeps, OpenAllocKeeps, OpenOwnKeeps, OpenShowKeeps,
     EndKeeps, CloseWinKeeps DEF App
<1>4. CASE UNCHANGED vars BY <1>4, StutterKeeps
<1> QED BY <1>1, <1>2, <1>3, <1>4 DEF Next

LEMMA Inductive == Spec => []IInv
<1>1. Init => IInv BY InitIInv
<1>2. IInv /\ [Next]_vars => IInv' BY NextKeeps
<1> QED BY <1>1, <1>2, PTL DEF Spec

-----------------------------------------------------------------------------
(* On the way out *)

\* Console t has stopped, has no window, or was told to close.
Leaving(t) == cons[t].pc # "none" /\ (Closing(t) \/ cons[t].pc = "dead")

Leaves(t) ==
    Leaving(t) =>
        \/ Leaving(t)'
        \/ TakeExit /\ cons'[t] = CLOSED
        \/ cons[t].pc = "closing" /\ CutOff(t)'

Reported ==
    \A t \in Tasks : cons[t].pc = "dead" => In(sys.fifo, Says(t)) \/ Says(t) \in sys.lost

\* v has the FIFOs of u.
SameFifos(u, v) == "fifo" \in DOMAIN u => "fifo" \in DOMAIN v /\ v.fifo = u.fifo

LEMMA SameTwice ==
    ASSUME NEW u, NEW v, NEW w, SameFifos(u, v), SameFifos(v, w)
    PROVE  SameFifos(u, w)
BY DEF SameFifos

LEMMA SameTitle ==
    ASSUME NEW u, NEW s, NEW act
    PROVE  SameFifos(u, Wild(u)) /\ SameFifos(u, Title(u, s, act))
<1>1. SameFifos(u, Wild(u)) BY DEF SameFifos, Wild
<1>2. SameFifos(u, [u EXCEPT !.win[s].lit = act]) BY DEF SameFifos
<1> QED BY <1>1, <1>2 DEF Title

LEMMA SameKeywin ==
    ASSUME NEW u, NEW s
    PROVE  SameFifos(u, KeywinOff(u)) /\ SameFifos(u, KeywinOn(u, s))
<1> DEFINE w == [u EXCEPT !.key_win = s]
<1>1. SameFifos(u, w) BY DEF SameFifos
<1> HIDE DEF w
<1>2. SameFifos(w, Title(w, s, TRUE)) BY SameTitle
<1>3. SameFifos(u, Title(w, s, TRUE)) BY <1>1, <1>2, SameTwice
<1>4. SameFifos(u, KeywinOff(u)) BY SameTitle DEF KeywinOff
<1> QED BY <1>3, <1>4 DEF KeywinOn, w

LEMMA SameSheets ==
    ASSUME NEW u, NEW s, NEW h
    PROVE  SameFifos(u, SheetUpdown(u, s, h)) /\ SameFifos(u, SheetFree(u, s))
<1>1. \A q : SameFifos(u, [u EXCEPT !.stack = q]) BY DEF SameFifos
<1>2. \A k : SameFifos(u, SheetUpdown(u, s, k)) BY <1>1, Zenon DEF SheetUpdown
<1>3. SameFifos(SheetUpdown(u, s, -1), SheetFree(u, s)) BY DEF SameFifos, SheetFree
<1> QED BY <1>2, <1>3, SameTwice

LEMMA SameRefresh ==
    ASSUME NEW u
    PROVE  SameFifos(u, Refresh(u))
<1>1. SameFifos(u, [u EXCEPT !.key_win = NULL]) BY DEF SameFifos
<1>2. SameFifos(u, u) BY DEF SameFifos
<1>3. \A s : SameFifos(u, KeywinOn(u, s)) BY SameKeywin
<1> QED BY <1>1, <1>2, <1>3 DEF Refresh

LEMMA SameClicked ==
    ASSUME NEW s
    PROVE  SameFifos(ui, Clicked(s))
<1> DEFINE u == Refresh(ui)
           v == SheetUpdown(u, s, Top(u) - 1)
           w == KeywinOff(v)
<1>1. SameFifos(ui, u) BY SameRefresh
<1>2. SameFifos(u, v) BY SameSheets
<1>3. Clicked(s) = IF s = u.key_win THEN v ELSE KeywinOn(w, s) BY DEF Clicked
<1> HIDE DEF u
<1> HIDE DEF v
<1>4. SameFifos(ui, v) BY <1>1, <1>2, SameTwice
<1>5. SameFifos(v, w) BY SameKeywin
<1> HIDE DEF w
<1>6. SameFifos(w, KeywinOn(w, s)) BY SameKeywin
<1>7. SameFifos(ui, KeywinOn(w, s)) BY <1>4, <1>5, <1>6, SameTwice
<1> QED BY <1>3, <1>4, <1>7

\* No message to close is lost, but with the console it is for.
Waits(t) == HasClose(ui.fifo[t]) => HasClose(ui'.fifo[t])

LEMMA Unchanged ==
    ASSUME TypeOK, SameFifos(ui, ui')
    PROVE  \A t \in Tasks : Waits(t)
<1>1. "fifo" \in DOMAIN ui BY DEF TypeOK, UI
<1> QED BY <1>1 DEF SameFifos, Waits

LEMMA PutWaits ==
    ASSUME TypeOK, NEW v, SameFifos(ui, v), NEW t \in Tasks, NEW m, m \in {CLOSE, ENTER},
           ui' = Put(v, t, m)
    PROVE  \A x \in Tasks : Waits(x)
<1>1. "fifo" \in DOMAIN v /\ v.fifo = ui.fifo BY DEF TypeOK, UI, SameFifos
<1>2. CASE Len(v.fifo[t]) = FIFO_SIZE
  <2>1. ui' = v BY <1>2 DEF Put
  <2> QED BY <2>1, Unchanged
<1>3. CASE Len(v.fifo[t]) # FIFO_SIZE
  <2> DEFINE F == [v.fifo EXCEPT ![t] = Append(@, m)]
  <2>1. ui' = [v EXCEPT !.fifo = F] BY <1>3 DEF Put
  <2>2. ui.fifo \in [Tasks -> Seq({CLOSE, ENTER})] BY DEF TypeOK, UI
  <2>3. F[t] = Append(ui.fifo[t], m) /\ \A x \in Tasks \ {t} : F[x] = ui.fifo[x]
    BY <1>1, <2>2
  <2> HIDE DEF F
  <2>4. ui'.fifo = F BY <1>1, <2>1
  <2>5. HasClose(ui.fifo[t]) => HasClose(Append(ui.fifo[t], m))
    <3>1. ui.fifo[t] \in Seq({CLOSE, ENTER}) BY <2>2
    <3> QED BY <3>1 DEF HasClose
  <2> QED BY <2>3, <2>4, <2>5 DEF Waits
<1> QED BY <1>2, <1>3

\* Only the message to close itself is taken, or nothing that matters here.
LEMMA RestWaits ==
    ASSUME TypeOK, NEW t \in Tasks, ui.fifo[t] # <<>>
    PROVE  /\ "fifo" \in DOMAIN Rest(t)
           /\ \A x \in Tasks \ {t} : Rest(t).fifo[x] = ui.fifo[x]
           /\ Got(t, ENTER) /\ HasClose(ui.fifo[t]) => HasClose(Rest(t).fifo[t])
<1>1. ui \in UI /\ ui.fifo \in [Tasks -> Seq({CLOSE, ENTER})] /\ ui.fifo[t] \in Seq({CLOSE, ENTER})
  BY DEF TypeOK, UI
<1> DEFINE q == Tail(ui.fifo[t])
           F == [ui.fifo EXCEPT ![t] = q]
<1>2. Rest(t) = [ui EXCEPT !.fifo = F] BY DEF Rest
<1>3. F[t] = q /\ \A x \in Tasks \ {t} : F[x] = ui.fifo[x] BY <1>1
<1>4. Got(t, ENTER) /\ HasClose(ui.fifo[t]) => HasClose(q)
  <2> SUFFICES ASSUME Head(ui.fifo[t]) = ENTER, NEW k \in DOMAIN ui.fifo[t], ui.fifo[t][k] = CLOSE
               PROVE  HasClose(q)
    BY DEF Got, HasClose
  <2>1. k # 1 BY <1>1 DEF CLOSE, ENTER
  <2>2. k - 1 \in DOMAIN q /\ q[k - 1] = CLOSE BY SMTT(30), <1>1, <2>1
  <2> QED BY <2>2 DEF HasClose
<1> HIDE DEF F
<1>5. Rest(t).fifo = F /\ "fifo" \in DOMAIN Rest(t) BY <1>1, <1>2 DEF UI
<1> QED BY <1>3, <1>4, <1>5

\* Nobody stops or loses a window; a console may be started, and one that has taken
\* the message to close may be broken.
Onward(t) ==
    \/ cons[t].pc = "none" /\ cons'[t].pc # "dead"
    \/ /\ Stays(t)
       /\ cons'[t].pc = "dead" => cons[t].pc = "dead"
       /\ cons[t].pc = "closing" => cons'[t].pc = "closing" \/ CutOff(t)'

ClosesWait == \A t \in Tasks : cons[t].pc = "none" \/ Waits(t) \/ cons'[t].pc = "closing"

AllLeave == \A t \in Tasks : Leaves(t)

LEMMA Onwards ==
    ASSUME Reported, ClosesWait, \A t \in Tasks : Onward(t), sys' = sys
    PROVE  Reported' /\ AllLeave
<1>1. ASSUME NEW t \in Tasks, Leaving(t) PROVE Leaving(t)' \/ (cons[t].pc = "closing" /\ CutOff(t)')
  <2>1. /\ cons[t].pc # "none" /\ cons'[t].pc # "none" /\ cons'[t].sht = cons[t].sht
        /\ cons[t].pc = "dead" => cons'[t].pc = "dead"
        /\ cons[t].pc = "closing" => cons'[t].pc = "closing" \/ CutOff(t)'
    BY <1>1 DEF Leaving, Onward, Stays
  <2>2. HasClose(ui.fifo[t]) => HasClose(ui'.fifo[t]) \/ cons'[t].pc = "closing"
    BY <2>1 DEF ClosesWait, Waits
  <2>3. \/ cons[t].pc = "dead" \/ cons[t].sht = NULL \/ cons[t].pc = "closing"
        \/ HasClose(ui.fifo[t])
    BY <1>1 DEF Leaving, Closing
  <2> HIDE DEF CutOff
  <2>4. CASE cons[t].pc = "closing" BY <2>1, <2>4 DEF Leaving, Closing
  <2>5. CASE cons[t].pc # "closing" BY <2>1, <2>2, <2>3, <2>5 DEF Leaving, Closing
  <2> QED BY <2>4, <2>5
<1>2. \A t \in Tasks : Leaves(t) BY <1>1 DEF Leaves
<1>3. ASSUME NEW t \in Tasks, cons'[t].pc = "dead"
      PROVE  In(sys.fifo, Says(t)') \/ Says(t)' \in sys.lost
  <2>1. cons[t].pc = "dead" /\ cons'[t].sht = cons[t].sht BY <1>3 DEF Onward, Stays
  <2>2. Says(t)' = Says(t) BY <2>1 DEF Says
  <2> QED BY <2>1, <2>2 DEF Reported
<1> QED BY <1>2, <1>3 DEF Reported, AllLeave

LEMMA Idles ==
    ASSUME cons' = cons
    PROVE  \A t \in Tasks : Onward(t)
BY DEF Onward, Stays

LEMMA OnLabel ==
    ASSUME IInv, NEW t \in Tasks, cons[t].pc \notin {"none", "dead", "closing"},
           NEW b \in Labels \ {"none", "dead", "closing"}, Goto(t, b)
    PROVE  \A v \in Tasks : Onward(v)
<1>1. /\ cons' \in [Tasks -> Consoles] /\ \A v \in Tasks \ {t} : cons'[v] = cons[v]
      /\ cons'[t].pc = b /\ cons'[t].sht = cons[t].sht
  BY Labelled
<1> QED BY <1>1 DEF Onward, Stays

LEMMA Rests ==
    ASSUME IInv, NEW t \in Tasks, Got(t, ENTER), ui' = Rest(t)
    PROVE  ClosesWait
<1>1. ui.fifo[t] # <<>> BY DEF Got
<1>2. /\ \A x \in Tasks \ {t} : ui'.fifo[x] = ui.fifo[x]
      /\ HasClose(ui.fifo[t]) => HasClose(ui'.fifo[t])
  BY <1>1, RestWaits DEF IInv
<1> QED BY <1>2 DEF ClosesWait, Waits

LEMMA Sames ==
    ASSUME IInv, SameFifos(ui, ui')
    PROVE  ClosesWait
BY Unchanged DEF IInv, ClosesWait

LEMMA PutClosesWait ==
    ASSUME IInv, NEW v, SameFifos(ui, v), NEW t \in Tasks,
           ui' = Put(v, t, CLOSE) \/ ui' = Put(v, t, ENTER)
    PROVE  ClosesWait
<1>1. PICK m \in {CLOSE, ENTER} : ui' = Put(v, t, m) OBVIOUS
<1>2. \A x \in Tasks : Waits(x) BY <1>1, PutWaits DEF IInv
<1> QED BY <1>2 DEF ClosesWait

\* Console n is started by console t, or by nobody.
LEMMA Starts ==
    ASSUME IInv, NEW n \in Tasks, cons[n] = CLOSED, NEW s, cons'[n] = Started(s),
           \A v \in Tasks \ {n} : Onward(v)
    PROVE  \A v \in Tasks : Onward(v)
<1>1. cons[n].pc = "none" BY DEF CLOSED
<1>2. cons'[n].pc = "shell" BY DEF Started, CLOSED
<1> QED BY <1>1, <1>2 DEF Onward

\* The step stops no console, and takes nothing but commands.
OnwardStep == sys' = sys /\ ClosesWait /\ \A t \in Tasks : Onward(t)

LEMMA OnKeys ==
    ASSUME IInv, KeyEnter \/ Tab \/ F11 PROVE OnwardStep
<1> DEFINE u == Refresh(ui)
<1>0. SameFifos(ui, u) /\ Good(u) BY SameRefresh, Refreshed
<1>1. CASE KeyEnter
  <2>1. /\ ui' = IF u.key_win = NULL THEN u
                 ELSE IF KeyTask(u) = NOBODY THEN Wild(u) ELSE Put(u, KeyTask(u), ENTER)
        /\ UNCHANGED <<cons, sys>>
    BY <1>1 DEF KeyEnter, Handle
  <2> HIDE DEF u
  <2>2. SameFifos(ui, Wild(u)) BY <1>0, SameTitle, SameTwice
  <2>3. KeyTask(u) \in Tasks \cup {NOBODY} BY <1>0, KeyTasks
  <2>4. ClosesWait
    <3>1. CASE ui' = u BY <1>0, <3>1, Sames
    <3>2. CASE ui' = Wild(u) BY <2>2, <3>2, Sames
    <3>3. CASE ui' = Put(u, KeyTask(u), ENTER) /\ KeyTask(u) # NOBODY
      BY <1>0, <2>3, <3>3, PutClosesWait
    <3> QED BY <2>1, <3>1, <3>2, <3>3
  <2> QED BY <2>1, <2>4, Idles DEF OnwardStep
<1>2. CASE Tab
  <2> DEFINE w == KeywinOff(u)
  <2>1. ui' = (IF u.key_win = NULL THEN u ELSE Tabbed(w)) /\ UNCHANGED <<cons, sys>>
    BY <1>2 DEF Tab, Handle
  <2> HIDE DEF u
  <2>2. SameFifos(ui, w) BY <1>0, SameKeywin, SameTwice
  <2> HIDE DEF w
  <2>3. SameFifos(w, Tabbed(w))
    <3>1. SameFifos(w, Wild(w)) /\ \A s : SameFifos(w, KeywinOn(w, s)) BY SameTitle, SameKeywin
    <3> QED BY <3>1 DEF Tabbed
  <2>4. SameFifos(ui, Tabbed(w)) BY <2>2, <2>3, SameTwice
  <2>5. ClosesWait BY <1>0, <2>1, <2>4, Sames
  <2> QED BY <2>1, <2>5, Idles DEF OnwardStep
<1>3. CASE F11
  <2>1. ui' = SheetUpdown(u, Sheets(u, 1), Top(u) - 1) /\ UNCHANGED <<cons, sys>>
    BY <1>3 DEF F11, Handle
  <2> HIDE DEF u
  <2>2. SameFifos(u, ui') BY <2>1, SameSheets
  <2>3. SameFifos(ui, ui') BY <1>0, <2>2, SameTwice
  <2> QED BY <2>1, <2>3, Sames, Idles DEF OnwardStep
<1> QED BY <1>1, <1>2, <1>3

LEMMA OnBroken ==
    ASSUME IInv, Quiet(ui, ui'), NEW t \in Tasks, cons[t].pc \in Running, Broken(t)
    PROVE  \A v \in Tasks : Onward(v)
<1>1. cons \in [Tasks -> Consoles] BY DEF IInv, TypeOK
<1>2. /\ \A v \in Tasks \ {t} : cons'[v] = cons[v]
      /\ cons'[t].pc = "ending" /\ cons'[t].sht = cons[t].sht
  BY <1>1 DEF Broken, Consoles
<1>3. ASSUME cons[t].pc = "closing" PROVE CutOff(t)'
  <2>1. cons[t].sht # NULL /\ ~Shown(ui, cons[t].sht) /\ ~HasClose(ui.fifo[t])
    BY <1>3 DEF IInv, CloseOnce, Live
  <2>2. cons[t].sht \in Sids BY <1>1, <2>1 DEF Consoles
  <2>3. ~Shown(ui', cons[t].sht) /\ ui'.fifo = ui.fifo BY <2>1, <2>2 DEF Quiet
  <2> QED BY <1>2, <2>1, <2>3 DEF CutOff
<1>4. Onward(t) BY <1>2, <1>3 DEF Onward, Stays, Running
<1> QED BY <1>2, <1>4 DEF Onward, Stays

LEMMA OnBreak ==
    ASSUME IInv, ShiftF1 PROVE OnwardStep
<1> DEFINE u == Refresh(ui)
           t == KeyTask(u)
<1>1. SameFifos(ui, u) /\ Good(u) /\ Quiet(ui, u) BY SameRefresh, Refreshed
<1>2. /\ ui' = u /\ sys' = sys
      /\ IF t # NOBODY /\ cons[t].pc \in Running THEN Broken(t) ELSE UNCHANGED cons
  BY DEF ShiftF1, Handle
<1> HIDE DEF u
<1>3. t \in Tasks \cup {NOBODY} BY <1>1, KeyTasks
<1> HIDE DEF t
<1>4. ClosesWait BY <1>1, <1>2, Sames
<1>5. \A v \in Tasks : Onward(v) BY <1>1, <1>2, <1>3, OnBroken, Idles
<1> QED BY <1>2, <1>4, <1>5 DEF OnwardStep

LEMMA OnClicks ==
    ASSUME IInv, NEW s \in Sids, Click(s) \/ CloseApp(s) \/ CloseConsole(s) PROVE OnwardStep
<1> DEFINE c == Clicked(s)
           t == ui.win[s].task
<1>1. SameFifos(ui, c) BY SameClicked
<1>2. ui \in UI BY DEF IInv, TypeOK
<1>3. t \in Tasks \cup {NOBODY} BY <1>2 DEF UI
<1>4. CASE Click(s) BY <1>1, <1>4, Sames, Idles DEF Click, Handle, OnwardStep
<1>5. CASE CloseApp(s)
  <2>1. /\ ui.win[s].kind = "app" /\ sys' = sys /\ ui' \in {c, Wild(c)} /\ Quiet(ui, c)
        /\ (cons[t].pc \in Running /\ Broken(t) /\ ui' = c) \/ UNCHANGED cons
    BY <1>5, ClickedQuiet DEF CloseApp, Handle
  <2>2. t \in Tasks BY <2>1 DEF IInv, Screen, Kind, Task
  <2> HIDE DEF c, t
  <2>3. SameFifos(ui, Wild(c)) BY <1>1, SameTitle, SameTwice
  <2>4. ClosesWait BY <1>1, <2>1, <2>3, Sames
  <2>5. \A v \in Tasks : Onward(v) BY <2>1, <2>2, OnBroken, Idles
  <2> QED BY <2>1, <2>4, <2>5 DEF OnwardStep
<1>6. CASE CloseConsole(s)
  <2> DEFINE v == SheetUpdown(c, s, -1)
             w == KeywinOff(v)
             x == KeywinOn(w, Sheets(w, Top(w) - 1))
  <2>1. /\ UNCHANGED <<cons, sys>>
        /\ ui' = IF t = NOBODY THEN Wild(ui) ELSE Put(x, t, CLOSE)
    BY <1>6 DEF CloseConsole, Handle
  <2> HIDE DEF c
  <2>2. SameFifos(ui, v) BY <1>1, SameSheets, SameTwice
  <2> HIDE DEF v
  <2>3. SameFifos(ui, w) BY <2>2, SameKeywin, SameTwice
  <2> HIDE DEF w
  <2>4. SameFifos(ui, x) BY <2>3, SameKeywin, SameTwice
  <2> HIDE DEF x, t
  <2>5. CASE t = NOBODY
    <3>1. SameFifos(ui, ui') BY <2>1, <2>5, SameTitle
    <3> QED BY <2>1, <3>1, Sames, Idles DEF OnwardStep
  <2>6. CASE t # NOBODY
    <3>1. t \in Tasks /\ ui' = Put(x, t, CLOSE) BY <1>3, <2>1, <2>6
    <3>2. ClosesWait BY <2>4, <3>1, PutClosesWait
    <3> QED BY <2>1, <3>2, Idles DEF OnwardStep
  <2> QED BY <2>5, <2>6
<1> QED BY <1>4, <1>5, <1>6

LEMMA OnShiftF2 ==
    ASSUME IInv, ShiftF2 PROVE OnwardStep
<1> DEFINE u == Refresh(ui)
           v == IF u.key_win = NULL THEN u ELSE KeywinOff(u)
<1>1. \/ \E s \in Sids, t \in Tasks :
            /\ FreeTask(t)
            /\ Handle(KeywinOn(SheetUpdown(Consoled(v, s, t), s, Top(v)), s))
            /\ cons' = [cons EXCEPT ![t] = Started(s)]
      \/ Handle(Wild(v)) /\ UNCHANGED cons
  BY DEF ShiftF2
<1>2. SameFifos(ui, v)
  <2>1. SameFifos(ui, u) BY SameRefresh
  <2> HIDE DEF u
  <2>2. SameFifos(ui, KeywinOff(u)) BY <2>1, SameKeywin, SameTwice
  <2> QED BY <2>1, <2>2
<1> HIDE DEF v
<1>3. CASE Handle(Wild(v)) /\ UNCHANGED cons
  <2>1. SameFifos(ui, Wild(v)) BY <1>2, SameTitle, SameTwice
  <2> QED BY <1>3, <2>1, Sames, Idles DEF Handle, OnwardStep
<1>4. ASSUME NEW s \in Sids, NEW t \in Tasks, FreeTask(t),
             Handle(KeywinOn(SheetUpdown(Consoled(v, s, t), s, Top(v)), s)),
             cons' = [cons EXCEPT ![t] = Started(s)]
      PROVE  OnwardStep
  <2> DEFINE w == Consoled(v, s, t)
             x == SheetUpdown(w, s, Top(v))
  <2>1. SameFifos(w, ui')
    <3>1. SameFifos(w, x) BY SameSheets
    <3> HIDE DEF x
    <3>2. SameFifos(x, KeywinOn(x, s)) BY SameKeywin
    <3> QED BY <1>4, <3>1, <3>2, SameTwice DEF Handle, x
  <2>2. "fifo" \in DOMAIN w /\ \A y \in Tasks \ {t} : w.fifo[y] = ui.fifo[y]
    <3>1. /\ "fifo" \in DOMAIN v /\ v.fifo = ui.fifo
          /\ ui.fifo \in [Tasks -> Seq({CLOSE, ENTER})]
      BY <1>2 DEF SameFifos, IInv, TypeOK, UI
    <3>2. w.fifo = [v.fifo EXCEPT ![t] = <<>>] /\ "fifo" \in DOMAIN w
      BY <3>1 DEF Consoled
    <3> QED BY <3>1, <3>2
  <2>3. \A y \in Tasks \ {t} : ui'.fifo[y] = ui.fifo[y] BY <2>1, <2>2 DEF SameFifos
  <2>4. cons[t] = CLOSED /\ cons[t].pc = "none" BY <1>4 DEF FreeTask, CLOSED
  <2>5. ClosesWait BY <2>3, <2>4 DEF ClosesWait, Waits
  <2>6. cons'[t] = Started(s) /\ \A y \in Tasks \ {t} : cons'[y] = cons[y]
    BY <1>4 DEF IInv, TypeOK
  <2>7. \A y \in Tasks \ {t} : Onward(y) BY <2>6 DEF Onward, Stays
  <2>8. \A y \in Tasks : Onward(y) BY <2>4, <2>6, <2>7, Starts
  <2> QED BY <1>4, <2>5, <2>8 DEF OnwardStep, Handle
<1> QED BY <1>1, <1>3, <1>4

\* The steps of a console that leave others alone
LEMMA OnSimple ==
    ASSUME IInv, NEW t \in Tasks,
           Command(t) \/ StartApp(t) \/ Ended(t) \/ End(t) \/ GetkeyEnter(t)
           \/ FreeWindow(t) \/ (\E s \in Sids : CloseWin(t, s))
    PROVE  OnwardStep
<1>0. {"prompt", "app", "ending"} \subseteq Labels \ {"none", "dead", "closing"} BY DEF Labels
<1>1. CASE Command(t)
  BY <1>0, <1>1, Rests, OnLabel DEF Command, At, OnwardStep
<1>2. CASE StartApp(t)
  BY <1>0, <1>2, Rests, OnLabel DEF StartApp, At, OnwardStep
<1>3. SameFifos(ui, ui) BY DEF SameFifos
<1>4. CASE Ended(t)
  BY <1>0, <1>3, <1>4, Sames, OnLabel DEF Ended, At, OnwardStep
<1>5. CASE End(t)
  BY <1>0, <1>3, <1>5, Sames, OnLabel DEF End, At, OnwardStep
<1>6. CASE GetkeyEnter(t)
  BY <1>6, Rests, Idles DEF GetkeyEnter, OnwardStep
<1>7. \A s : SameFifos(ui, SheetFree(ui, s)) BY SameSheets
<1>8. CASE FreeWindow(t)
  <2>1. PICK s \in Sids : ui' = SheetFree(ui, s) /\ UNCHANGED <<cons, sys>>
    BY <1>8 DEF FreeWindow
  <2> QED BY <1>7, <2>1, Sames, Idles DEF OnwardStep
<1>9. CASE \E s \in Sids : CloseWin(t, s)
  <2>1. PICK s \in Sids : ui' = SheetFree(ui, s) /\ UNCHANGED <<cons, sys>>
    BY <1>9 DEF CloseWin
  <2> QED BY <1>7, <2>1, Sames, Idles DEF OnwardStep
<1> QED BY <1>1, <1>2, <1>4, <1>5, <1>6, <1>8, <1>9

LEMMA OnCrash ==
    ASSUME IInv, Crash PROVE OnwardStep
<1>1. SameFifos(ui, Wild(ui)) BY SameTitle
<1> QED BY <1>1, Sames, Idles DEF Crash, OnwardStep

LEMMA OnNcst ==
    ASSUME IInv, NEW t \in Tasks, CmdNcst(t) PROVE OnwardStep
<1>1. CASE Crash BY <1>1, OnCrash
<1>2. CASE ~Crash
  <2>1. PICK n \in Tasks :
            /\ FreeTask(n)
            /\ ui' = [Rest(t) EXCEPT !.fifo[n] = <<ENTER>>]
            /\ cons' = [cons EXCEPT ![n] = Started(NULL), ![t].pc = "prompt"]
            /\ sys' = sys
    BY <1>2 DEF CmdNcst
  <2>2. cons[t].pc = "shell" /\ Got(t, ENTER) BY DEF CmdNcst, At
  <2>3. cons[n] = CLOSED /\ cons[n].pc = "none" /\ n # t BY <2>1, <2>2 DEF FreeTask, CLOSED
  <2>4. /\ "fifo" \in DOMAIN Rest(t)
        /\ \A x \in Tasks \ {t} : Rest(t).fifo[x] = ui.fifo[x]
        /\ HasClose(ui.fifo[t]) => HasClose(Rest(t).fifo[t])
    BY <2>2, RestWaits DEF IInv, Got
  <2>5. \A x \in Tasks \ {n} : ui'.fifo[x] = Rest(t).fifo[x]
    <3>1. ui'.fifo = [Rest(t).fifo EXCEPT ![n] = <<ENTER>>] BY <2>1, <2>4
    <3>2. DOMAIN Rest(t).fifo = Tasks
      <4>1. ui \in UI /\ DOMAIN ui.fifo = Tasks BY DEF IInv, TypeOK, UI
      <4> QED BY <4>1 DEF Rest, UI
    <3> QED BY <3>1, <3>2
  <2>6. ClosesWait BY <2>3, <2>4, <2>5 DEF ClosesWait, Waits
  <2>7. /\ cons'[n] = Started(NULL) /\ cons'[t].pc = "prompt" /\ cons'[t].sht = cons[t].sht
        /\ \A y \in Tasks \ {n, t} : cons'[y] = cons[y]
    BY <2>1, <2>3 DEF IInv, TypeOK, Consoles
  <2>8. \A y \in Tasks \ {n} : Onward(y) BY <2>2, <2>7 DEF Onward, Stays
  <2>9. \A y \in Tasks : Onward(y) BY <2>3, <2>7, <2>8, Starts
  <2> QED BY <2>1, <2>6, <2>9 DEF OnwardStep
<1> QED BY <1>1, <1>2

LEMMA OnStartSheet ==
    ASSUME IInv, NEW t \in Tasks, StartSheet(t) PROVE OnwardStep
<1>1. CASE Crash BY <1>1, OnCrash
<1>2. CASE ~Crash
  <2>1. PICK s \in Sids :
            /\ ui' = [Rest(t) EXCEPT !.win[s].kind = "plain"]
            /\ cons' = [cons EXCEPT ![t].pc = "start", ![t].new = s]
            /\ sys' = sys
    BY <1>2 DEF StartSheet
  <2>2. cons[t].pc = "shell" /\ Got(t, ENTER) BY DEF StartSheet, At
  <2>3. /\ "fifo" \in DOMAIN Rest(t)
        /\ \A x \in Tasks \ {t} : Rest(t).fifo[x] = ui.fifo[x]
        /\ HasClose(ui.fifo[t]) => HasClose(Rest(t).fifo[t])
    BY <2>2, RestWaits DEF IInv, Got
  <2>4. ui'.fifo = Rest(t).fifo BY <2>1, <2>3
  <2>5. ClosesWait BY <2>3, <2>4 DEF ClosesWait, Waits
  <2>6. /\ cons'[t].pc = "start" /\ cons'[t].sht = cons[t].sht
        /\ \A y \in Tasks \ {t} : cons'[y] = cons[y]
    BY <2>1 DEF IInv, TypeOK, Consoles
  <2>7. \A y \in Tasks : Onward(y) BY <2>2, <2>6 DEF Onward, Stays
  <2> QED BY <2>1, <2>5, <2>7 DEF OnwardStep
<1> QED BY <1>1, <1>2

LEMMA OnStartTask ==
    ASSUME IInv, NEW t \in Tasks, StartTask(t) PROVE OnwardStep
<1>1. CASE Crash BY <1>1, OnCrash
<1>2. CASE ~Crash
  <2>1. PICK n \in Tasks :
            /\ FreeTask(n)
            /\ ui' = Consoled(ui, cons[t].new, n)
            /\ cons' = [cons EXCEPT ![t].pc = "show", ![t].to = n, ![n] = Started(cons[t].new)]
            /\ sys' = sys
    BY <1>2 DEF StartTask
  <2>2. cons[t].pc = "start" BY DEF StartTask, At
  <2>3. cons[n] = CLOSED /\ cons[n].pc = "none" /\ n # t BY <2>1, <2>2 DEF FreeTask, CLOSED
  <2>4. \A x \in Tasks \ {n} : ui'.fifo[x] = ui.fifo[x]
    <3>1. "fifo" \in DOMAIN ui /\ DOMAIN ui.fifo = Tasks BY DEF IInv, TypeOK, UI
    <3>2. ui'.fifo = [ui.fifo EXCEPT ![n] = <<>>] BY <2>1, <3>1 DEF Consoled
    <3> QED BY <3>1, <3>2
  <2>5. ClosesWait BY <2>3, <2>4 DEF ClosesWait, Waits
  <2>6. /\ cons'[n] = Started(cons[t].new) /\ cons'[t].pc = "show" /\ cons'[t].sht = cons[t].sht
        /\ \A y \in Tasks \ {n, t} : cons'[y] = cons[y]
    BY <2>1, <2>3 DEF IInv, TypeOK, Consoles
  <2>7. \A y \in Tasks \ {n} : Onward(y) BY <2>2, <2>6 DEF Onward, Stays
  <2>8. \A y \in Tasks : Onward(y) BY <2>3, <2>6, <2>7, Starts
  <2> QED BY <2>1, <2>5, <2>8 DEF OnwardStep
<1> QED BY <1>1, <1>2

LEMMA OnShows ==
    ASSUME IInv, NEW t \in Tasks, StartShow(t) \/ StartType(t) PROVE OnwardStep
<1>1. cons \in [Tasks -> Consoles] BY DEF IInv, TypeOK
<1>2. CASE StartShow(t)
  <2>1. /\ cons[t].pc = "show" /\ sys' = sys /\ Goto(t, "type")
        /\ SameFifos(ui, ui')
    BY <1>2, SameSheets DEF StartShow, At
  <2>2. "type" \in Labels \ {"none", "dead", "closing"} BY DEF Labels
  <2> QED BY <2>1, <2>2, Sames, OnLabel DEF OnwardStep
<1>3. CASE StartType(t)
  <2>1. /\ ~ui.wild /\ cons[t].pc = "type" /\ sys' = sys /\ ui' = Put(ui, cons[t].to, ENTER)
        /\ cons' = [cons EXCEPT ![t].pc = "prompt", ![t].new = NULL, ![t].to = NOBODY]
    BY <1>3 DEF StartType, At
  <2>2. cons[t].to \in Tasks
    <3>1. cons[t].to # NOBODY BY <2>1 DEF IInv, Opening, OpeningBy
    <3> QED BY <1>1, <3>1 DEF Consoles
  <2>3. SameFifos(ui, ui) BY DEF SameFifos
  <2>4. ClosesWait BY <2>1, <2>2, <2>3, PutClosesWait
  <2>5. /\ cons'[t].pc = "prompt" /\ cons'[t].sht = cons[t].sht
        /\ \A y \in Tasks \ {t} : cons'[y] = cons[y]
    BY <1>1, <2>1 DEF Consoles
  <2>6. \A y \in Tasks : Onward(y) BY <2>1, <2>5 DEF Onward, Stays
  <2> QED BY <2>1, <2>4, <2>6 DEF OnwardStep
<1> QED BY <1>2, <1>3

LEMMA OnOpens ==
    ASSUME IInv, NEW t \in Tasks, OpenAlloc(t) \/ OpenOwn(t) \/ OpenShow(t) PROVE OnwardStep
<1>1. cons[t].pc = "app" /\ cons \in [Tasks -> Consoles]
  BY DEF OpenAlloc, OpenOwn, OpenShow, At, IInv, TypeOK
<1>2. ASSUME NEW n, cons' = [cons EXCEPT ![t].new = n]
      PROVE  \A y \in Tasks : Onward(y)
  <2>1. /\ cons'[t].pc = "app" /\ cons'[t].sht = cons[t].sht
        /\ \A y \in Tasks \ {t} : cons'[y] = cons[y]
    BY <1>1, <1>2 DEF Consoles
  <2> QED BY <1>1, <2>1 DEF Onward, Stays
<1>3. CASE OpenAlloc(t)
  <2>1. CASE Crash BY <2>1, OnCrash
  <2>2. CASE ~Crash
    <3>1. PICK s \in Sids : /\ ui' = [ui EXCEPT !.win[s].kind = "plain"]
                            /\ cons' = [cons EXCEPT ![t].new = s]
                            /\ sys' = sys
      BY <1>3, <2>2 DEF OpenAlloc
    <3>2. SameFifos(ui, ui') BY <3>1 DEF SameFifos
    <3> QED BY <1>2, <3>1, <3>2, Sames DEF OnwardStep
  <2> QED BY <2>1, <2>2
<1>4. CASE OpenOwn(t)
  <2>1. /\ ui' = [ui EXCEPT !.win[cons[t].new].kind = "app", !.win[cons[t].new].task = t]
        /\ UNCHANGED <<cons, sys>>
    BY <1>4 DEF OpenOwn
  <2>2. SameFifos(ui, ui') BY <2>1 DEF SameFifos
  <2> QED BY <2>1, <2>2, Sames, Idles DEF OnwardStep
<1>5. CASE OpenShow(t)
  <2>1. /\ SameFifos(ui, ui') /\ cons' = [cons EXCEPT ![t].new = NULL] /\ sys' = sys
    BY <1>5, SameSheets DEF OpenShow
  <2> QED BY <1>2, <2>1, Sames DEF OnwardStep
<1> QED BY <1>3, <1>4, <1>5

LEMMA Sending ==
    ASSUME IInv, NEW m, Send(m)
    PROVE  /\ In(sys'.fifo, m) \/ m \in sys'.lost
           /\ \A x : (In(sys.fifo, x) => In(sys'.fifo, x)) /\ (x \in sys.lost => x \in sys'.lost)
<1>1. sys \in [fifo : Seq(Exits), lost : SUBSET Exits] /\ sys.fifo \in Seq(Exits)
  BY DEF IInv, TypeOK
<1>2. CASE sys' = [sys EXCEPT !.fifo = Append(@, m)]
  <2>1. sys'.fifo = Append(sys.fifo, m) /\ sys'.lost = sys.lost BY <1>1, <1>2
  <2>2. In(Append(sys.fifo, m), m) /\ \A x : In(sys.fifo, x) => In(Append(sys.fifo, m), x)
    BY SMTT(30), <1>1 DEF In
  <2> QED BY <2>1, <2>2
<1>3. CASE sys' = [sys EXCEPT !.lost = @ \cup {m}]
  <2>1. sys'.fifo = sys.fifo /\ sys'.lost = sys.lost \cup {m} BY <1>1, <1>3
  <2> QED BY <2>1
<1> QED BY <1>2, <1>3 DEF Send

\* A console that stops says so.
LEMMA ExitsReported ==
    ASSUME IInv, Reported, NEW t \in Tasks, cons[t].pc \in {"shell", "prompt"},
           \A v \in Tasks \ {t} : ui'.fifo[v] = ui.fifo[v],
           cons' = [cons EXCEPT ![t].pc = "dead"], Send(Says(t))
    PROVE  Reported' /\ AllLeave
<1>1. /\ \A v \in Tasks \ {t} : cons'[v] = cons[v]
      /\ cons'[t].pc = "dead" /\ cons'[t].sht = cons[t].sht
  BY DEF IInv, TypeOK, Consoles
<1>2. \A v \in Tasks : Says(v)' = Says(v) BY <1>1 DEF Says
<1>3. /\ In(sys'.fifo, Says(t)) \/ Says(t) \in sys'.lost
      /\ \A x : (In(sys.fifo, x) => In(sys'.fifo, x)) /\ (x \in sys.lost => x \in sys'.lost)
  <2>1. PICK m : m = Says(t) OBVIOUS
  <2>2. Send(m) BY <2>1
  <2> QED BY <2>1, <2>2, Sending
<1>4. Reported'
  <2> SUFFICES ASSUME NEW v \in Tasks, cons'[v].pc = "dead"
               PROVE  In(sys'.fifo, Says(v)) \/ Says(v) \in sys'.lost
    BY <1>2 DEF Reported
  <2>1. CASE v = t BY <1>3, <2>1
  <2>2. CASE v # t BY <1>1, <1>3, <2>2 DEF Reported
  <2> QED BY <2>1, <2>2
<1>5. \A v \in Tasks : Leaves(v) BY <1>1 DEF Leaves, Leaving, Closing
<1> QED BY <1>4, <1>5 DEF AllLeave

LEMMA OnExits ==
    ASSUME IInv, Reported, NEW t \in Tasks, TakeClose(t) \/ TypedExit(t)
    PROVE  Reported' /\ AllLeave
<1>1. cons[t].pc = "shell" /\ ui.fifo[t] # <<>> /\ CmdExit(t, Rest(t))
  BY DEF TakeClose, TypedExit, At, Got
<1>2. \A v \in Tasks \ {t} : ui'.fifo[v] = ui.fifo[v]
  BY <1>1, RestWaits DEF IInv, CmdExit
<1> QED BY <1>1, <1>2, ExitsReported DEF CmdExit, Goto

LEMMA OnPrompt ==
    ASSUME IInv, Reported, NEW t \in Tasks, Prompt(t)
    PROVE  Reported' /\ AllLeave
<1>1. /\ cons[t].pc = "prompt"
      /\ IF cons[t].sht = NULL THEN CmdExit(t, ui) ELSE Goto(t, "shell") /\ UNCHANGED <<ui, sys>>
  BY DEF Prompt, At
<1>2. CASE cons[t].sht = NULL BY <1>1, <1>2, ExitsReported DEF CmdExit, Goto
<1>3. CASE cons[t].sht # NULL
  <2>1. "shell" \in Labels \ {"none", "dead", "closing"} BY DEF Labels
  <2>2. SameFifos(ui, ui') BY <1>1, <1>3 DEF SameFifos
  <2>3. ClosesWait BY <2>2, Sames
  <2>4. \A v \in Tasks : Onward(v) BY <1>1, <1>3, <2>1, OnLabel
  <2> QED BY <1>1, <1>3, <2>3, <2>4, Onwards
<1> QED BY <1>2, <1>3

\* It takes the message to close, and keeps it in mind.
LEMMA OnGetkeyTake ==
    ASSUME IInv, NEW t \in Tasks, GetkeyTake(t) PROVE OnwardStep
<1>1. /\ cons[t].pc = "app" /\ Got(t, CLOSE) /\ ui.fifo[t] # <<>> /\ ui' = Rest(t)
      /\ sys' = sys /\ Goto(t, "closing")
  BY DEF GetkeyTake, At, Got
<1>2. /\ \A v \in Tasks \ {t} : cons'[v] = cons[v]
      /\ cons'[t].pc = "closing" /\ cons'[t].sht = cons[t].sht
  BY <1>1, Labelled DEF Labels
<1>3. \A v \in Tasks \ {t} : ui'.fifo[v] = ui.fifo[v] BY <1>1, RestWaits DEF IInv
<1>4. ClosesWait BY <1>2, <1>3 DEF ClosesWait, Waits
<1>5. Takes(t) BY <1>1, TakesClose DEF Live
<1>6. \A v \in Tasks : Onward(v) BY <1>1, <1>2, <1>5 DEF Onward, Stays
<1> QED BY <1>1, <1>4, <1>6 DEF OnwardStep

\* Then it lets its window go.
LEMMA OnGetkeyClose ==
    ASSUME IInv, Reported, NEW t \in Tasks, GetkeyClose(t)
    PROVE  Reported' /\ AllLeave
<1>1. /\ cons[t].pc = "closing" /\ ui' = ui
      /\ cons' = [cons EXCEPT ![t].pc = "app", ![t].sht = NULL]
  BY DEF GetkeyClose, At
<1>2. /\ \A v \in Tasks \ {t} : cons'[v] = cons[v]
      /\ cons'[t].pc = "app" /\ cons'[t].sht = NULL
  BY <1>1 DEF IInv, TypeOK, Consoles
<1>3. \A v \in Tasks : Leaves(v) BY <1>1, <1>2 DEF Leaves, Leaving, Closing
<1>4. \A v \in Tasks \ {t} : Says(v)' = Says(v) BY <1>2 DEF Says
<1>5. \A x : (In(sys.fifo, x) => In(sys'.fifo, x)) /\ (x \in sys.lost => x \in sys'.lost)
  BY GetkeyCloseSafe
<1>6. Reported' BY <1>2, <1>4, <1>5 DEF Reported
<1> QED BY <1>3, <1>6 DEF AllLeave

\* task_a closes the console whose message it takes, and no other.
LEMMA OnTakeExit ==
    ASSUME IInv, Reported, TakeExit
    PROVE  Reported' /\ AllLeave
<1> DEFINE u == Refresh(ui)
           m == Head(sys.fifo)
           v == IF m.what = "task" THEN u ELSE SheetFree(u, m.id)
           gone == CASE m.what = "console" -> {u.win[m.id].task}
                     [] m.what = "task" -> {m.id}
                     [] OTHER -> {}
<1>1. /\ sys.fifo # <<>> /\ sys' = [sys EXCEPT !.fifo = Tail(@)]
      /\ ui' = (IF \E t \in Tasks : cons[t].to \in gone THEN Wild(v) ELSE v)
      /\ cons' = [t \in Tasks |-> IF t \in gone THEN CLOSED ELSE cons[t]]
  BY DEF TakeExit
<1>2. \A t \in Tasks : IF t \in gone THEN cons'[t] = CLOSED ELSE cons'[t] = cons[t]
  <2> HIDE DEF gone
  <2> QED BY <1>1
<1>3. ASSUME NEW t \in Tasks, cons[t].pc = "dead", Says(t) = m PROVE t \in gone
  <2>1. CASE cons[t].sht # NULL
    <3>1. /\ cons[t].sht \in Sids
          /\ Kind(ui, cons[t].sht) = "console" /\ Task(ui, cons[t].sht) = t
      BY <2>1 DEF IInv, TypeOK, Consoles, Owners
    <3>2. m.what = "console" /\ m.id = cons[t].sht BY <1>3, <2>1 DEF Says, Exit
    <3>3. Task(u, cons[t].sht) = t BY <3>1, Refreshed DEF Quiet
    <3> QED BY <3>2, <3>3 DEF Task
  <2>2. CASE cons[t].sht = NULL
    <3>1. m.what = "task" /\ m.id = t BY <1>3, <2>2 DEF Says, Exit
    <3> QED BY <3>1
  <2> QED BY <2>1, <2>2
<1>4. SameFifos(ui, ui')
  <2>1. SameFifos(ui, u) BY SameRefresh
  <2> HIDE DEF u
  <2>2. SameFifos(u, v)
    <3>1. SameFifos(u, u) BY DEF SameFifos
    <3> QED BY <3>1, SameSheets
  <2>3. SameFifos(ui, v) BY <2>1, <2>2, SameTwice
  <2> HIDE DEF v, gone, m
  <2>4. SameFifos(ui, Wild(v)) BY <2>3, SameTitle, SameTwice
  <2> QED BY <1>1, <2>3, <2>4
<1> HIDE DEF gone
<1>5. \A t \in Tasks : Leaves(t)
  <2>1. \A t \in Tasks : Waits(t) BY <1>4, Unchanged DEF IInv
  <2> QED BY <1>2, <2>1 DEF Leaves, Leaving, Closing, Waits
<1>6. Reported'
  <2> SUFFICES ASSUME NEW t \in Tasks, cons'[t].pc = "dead"
               PROVE  In(sys'.fifo, Says(t)') \/ Says(t)' \in sys'.lost
    BY DEF Reported
  <2>1. t \notin gone /\ cons'[t] = cons[t] BY <1>2 DEF CLOSED
  <2>2. Says(t)' = Says(t) /\ Says(t) # m BY <1>3, <2>1 DEF Says
  <2>3. In(sys.fifo, Says(t)) \/ Says(t) \in sys.lost BY <2>1 DEF Reported
  <2>4. /\ sys'.lost = sys.lost
        /\ \A x : In(sys.fifo, x) => x = m \/ In(sys'.fifo, x)
    BY <1>1, Taken
  <2> HIDE DEF m
  <2> QED BY <2>2, <2>3, <2>4
<1> QED BY <1>5, <1>6 DEF AllLeave

LEMMA NextLeaves ==
    ASSUME IInv, Reported, [Next]_vars
    PROVE  Reported' /\ AllLeave
<1>1. CASE OnwardStep BY <1>1, Onwards DEF OnwardStep
<1>2. CASE TaskA
  <2>1. CASE TakeExit BY <2>1, OnTakeExit
  <2>2. CASE ~TakeExit BY <1>1, <1>2, <2>2, OnKeys, OnBreak, OnShiftF2, OnClicks DEF TaskA
  <2> QED BY <2>1, <2>2
<1>3. ASSUME NEW t \in Tasks, Proceed(t) PROVE Reported' /\ AllLeave
  <2>1. CASE TakeClose(t) \/ TypedExit(t) BY <2>1, OnExits
  <2>2. CASE Prompt(t) BY <2>2, OnPrompt
  <2>3. CASE GetkeyClose(t) BY <2>3, OnGetkeyClose
  <2>4. CASE ~(TakeClose(t) \/ TypedExit(t) \/ Prompt(t) \/ GetkeyClose(t))
    <3>1. OnwardStep
      BY <1>3, <2>4, OnSimple, OnNcst, OnStartSheet, OnStartTask, OnShows DEF Proceed
    <3> QED BY <1>1, <3>1
  <2> QED BY <2>1, <2>2, <2>3, <2>4
<1>4. ASSUME NEW t \in Tasks, App(t) PROVE Reported' /\ AllLeave
  <2>1. OnwardStep BY <1>4, OnSimple, OnOpens, OnGetkeyTake DEF App
  <2> QED BY <1>1, <2>1
<1>5. CASE UNCHANGED vars
  <2>1. SameFifos(ui, ui') /\ UNCHANGED <<cons, sys>> BY <1>5 DEF vars, SameFifos
  <2>2. OnwardStep BY <2>1, Sames, Idles DEF OnwardStep
  <2> QED BY <1>1, <2>2
<1> QED BY <1>2, <1>3, <1>4, <1>5 DEF Next

LEMMA ReportedAlways == Spec => []Reported
<1>1. Init => Reported
  <2> SUFFICES ASSUME Init, NEW t \in Tasks PROVE cons[t].pc # "dead" BY DEF Reported
  <2> QED BY DEF Init, Started, CLOSED
<1>2. IInv /\ Reported /\ [Next]_vars => Reported' BY NextLeaves
<1> QED BY <1>1, <1>2, Inductive, PTL DEF Spec

-----------------------------------------------------------------------------
(* The theorems *)

\* The variables keep their types.
THEOREM TypeCorrect == Spec => []TypeOK
<1>1. IInv => TypeOK BY DEF IInv
<1> QED BY <1>1, Inductive, PTL

\* Whatever task_a is asked to give back, however the console or the window was
\* closed, is there, is named once, and will not act again.
THEOREM ExitsSettled == Spec => []ExitsMatch
<1>1. IInv => ExitsMatch BY DEF IInv, Messages
<1> QED BY <1>1, Inductive, PTL

\* The close button of a window finds the application that opened it, or one that is
\* just ending.
THEOREM ButtonsSafe == Spec => []WindowsOwned
<1>1. IInv => WindowsOwned BY DEF IInv
<1> QED BY <1>1, Inductive, PTL

\* At most one title on the screen is lit, and it is that of the window that gets
\* the keys: each way of leaving a window turns its title off.
THEOREM OneHighlight == Spec => []Highlight
<1>1. IInv => Highlight
  <2> SUFFICES ASSUME IInv, NEW k \in DOMAIN ui.stack, ui.win[ui.stack[k]].lit
               PROVE  ui.stack[k] \in {ui.key_win, SHT_BACK}
    BY DEF Highlight
  <2>1. ui.stack[k] \in Sids BY DEF IInv, TypeOK, UI
  <2> QED BY <2>1 DEF IInv, Lights
<1> QED BY <1>1, Inductive, PTL

\* What CloseCompletes waits for is undone in one way only: a console that has
\* stopped, or has no window, or was told to close, is one of these, whatever keys and
\* clicks do, until task_a closes it.  The exception is an application that is broken
\* after api_getkey has taken the message and before it has acted on it (console.c,
\* lines 516 to 530): the hidden console is then back at its prompt.
THEOREM ClosersLeave == Spec => [][\A t \in Tasks : Leaves(t)]_vars
<1>1. IInv /\ Reported /\ [Next]_vars => [\A t \in Tasks : Leaves(t)]_vars
  BY NextLeaves DEF AllLeave
<1> QED BY <1>1, Inductive, ReportedAlways, PTL DEF Spec

\* The message of a console that has stopped waits for task_a, so that the slot, and
\* the window if it has one, are given back, unless cmd_exit found task_a's FIFO full:
\* what cmd_exit gets into the FIFO stays there until task_a carries it out.
THEOREM StoppedReported == Spec => []Reported
BY ReportedAlways

\* A console is told to close once, and its window is hidden by then: no click finds
\* it again.
THEOREM ToldOnce == Spec => []CloseOnce
<1>1. IInv => CloseOnce BY DEF IInv
<1> QED BY <1>1, Inductive, PTL
=============================================================================
