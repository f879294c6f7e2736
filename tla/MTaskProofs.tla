---------------------------- MODULE MTaskProofs ----------------------------
(***************************************************************************)
(* Proofs about MTask, for every number of tasks, levels and FIFO entries:  *)
(* the run queues stay consistent as long as no level holds more tasks than *)
(* its array has entries, which task_add does not check.                    *)
(***************************************************************************)
EXTENDS MTask, FiniteSetTheorems, SequenceTheorems, WellFoundedInduction, TLAPS

\* What a step that adds a task must leave: either Fits of a scheduler state, or
\* no more tasks in being than one level's array has entries.
Within(s) == \A l \in Levels : s.running[l] <= MAX_TASKS_LV

Alive(s) == {u \in Tasks : s.flags[u] # 0}

Few(s) == Cardinality(Alive(s)) <= MAX_TASKS_LV

\* RunQueues of a scheduler state, element by element.
Entries(s) ==
    \A l \in Levels : \A k \in 0 .. (s.running[l] - 1) :
        /\ s.tasks[l][k] \in Tasks
        /\ s.flags[s.tasks[l][k]] = 2
        /\ s.level[s.tasks[l][k]] = l

Queued(s) ==
    \A t \in Tasks : s.flags[t] = 2 =>
        \E k \in 0 .. (s.running[s.level[t]] - 1) : s.tasks[s.level[t]][k] = t

Distinct(s) ==
    \A l \in Levels : \A i, j \in 0 .. (s.running[l] - 1) :
        s.tasks[l][i] = s.tasks[l][j] => i = j

Sound(s) ==
    /\ s \in Ctl
    /\ \A l \in Levels : s.running[l] <= MAX_TASKS_LV
    /\ Entries(s) /\ Queued(s) /\ Distinct(s)

LEMMA AliveFinite ==
    ASSUME NEW s PROVE IsFiniteSet(Alive(s)) /\ Cardinality(Alive(s)) \in Nat
<1>1. MAX_TASKS - 1 \in Int /\ 0 \in Int BY MTaskAssumption
<1>2. IsFiniteSet(Tasks) BY <1>1, FS_Interval DEF Tasks
<1>3. Alive(s) \subseteq Tasks BY DEF Alive
<1>4. IsFiniteSet(Alive(s)) BY <1>2, <1>3, FS_Subset
<1> QED BY <1>4, FS_CardinalityType

\* A level that lacks a task has room for it when few tasks are in being: its
\* queue is an injection into the others of them.
LEMMA RoomForOne ==
    ASSUME NEW s, Sound(s), NEW t \in Tasks, s.flags[t] # 2, NEW l \in Levels,
           Few(TaskAdd(s, t))
    PROVE  s.running[l] < MAX_TASKS_LV
<1> DEFINE n == s.running[l]
           r == TaskAdd(s, t)
           Others == Alive(r) \ {t}
           q == [k \in 1 .. n |-> s.tasks[l][k - 1]]
<1>1. n \in Nat BY DEF Sound, Ctl
<1>2. \A k \in 1 .. n : (k - 1) \in 0 .. (n - 1) BY <1>1
<1>6. \A u \in Tasks : r.flags[u] = IF u = t THEN 2 ELSE s.flags[u]
  <2>1. r.flags = [s.flags EXCEPT ![t] = 2] BY DEF TaskAdd, Sound, Ctl
  <2>2. s.flags \in [Tasks -> 0 .. 2] BY DEF Sound, Ctl
  <2> HIDE DEF r
  <2> QED BY <2>1, <2>2
<1> HIDE DEF r
<1>3. \A k \in 1 .. n : q[k] \in Others
  BY <1>1, <1>2, <1>6 DEF Sound, Entries, Alive
<1>4. \A i, j \in 1 .. n : q[i] = q[j] => i = j
  BY <1>1, <1>2 DEF Sound, Distinct
<1>5. q \in Injection(1 .. n, Others)
  BY <1>3, <1>4 DEF Injection, IsInjective
<1>7. t \in Alive(r) BY <1>6 DEF Alive
<1>8. IsFiniteSet(Others) /\ Cardinality(Others) = Cardinality(Alive(r)) - 1
  BY <1>7, AliveFinite, FS_RemoveElement
<1>9. Cardinality(1 .. n) = n
  BY <1>1, FS_Interval
<1>10. Cardinality(1 .. n) <= Cardinality(Others)
  BY <1>5, <1>8, FS_Injection
<1>11. Cardinality(Alive(r)) <= MAX_TASKS_LV BY DEF Few, r
<1>12. Cardinality(Alive(r)) \in Nat /\ MAX_TASKS_LV \in Nat BY AliveFinite, MTaskAssumption
<1> QED
  BY <1>1, <1>8, <1>9, <1>10, <1>11, <1>12

LEMMA AddSound ==
    ASSUME NEW s, Sound(s), NEW t \in Tasks, s.flags[t] # 2,
           Few(TaskAdd(s, t)) \/ Within(TaskAdd(s, t))
    PROVE  /\ Sound(TaskAdd(s, t))
           /\ TaskAdd(s, t).flags = [s.flags EXCEPT ![t] = 2]
           /\ TaskAdd(s, t).level = s.level
<1> DEFINE l == s.level[t]
           n == s.running[l]
           r == TaskAdd(s, t)
<1>1. /\ s.flags \in [Tasks -> 0 .. 2] /\ s.level \in [Tasks -> Levels]
      /\ s.running \in [Levels -> Nat] /\ s.now \in [Levels -> Nat]
      /\ s.tasks \in [Levels -> [0 .. (MAX_TASKS_LV - 1) -> Tasks \cup {NoTask}]]
      /\ s.now_lv \in Levels /\ s.lv_change \in 0 .. 1
  BY DEF Sound, Ctl
<1>2. l \in Levels /\ n \in Nat /\ n < MAX_TASKS_LV /\ MAX_TASKS_LV \in Nat
  <2>1. l \in Levels /\ n \in Nat /\ MAX_TASKS_LV \in Nat BY <1>1, MTaskAssumption
  <2>2. CASE Few(r) BY <2>1, <2>2, RoomForOne
  <2>3. CASE Within(r)
    <3>1. r.running = [s.running EXCEPT ![l] = n + 1] BY DEF TaskAdd, Sound, Ctl
    <3> HIDE DEF r
    <3>2. r.running[l] = n + 1 BY <1>1, <2>1, <3>1
    <3> QED BY <2>1, <2>3, <3>2 DEF Within
  <2> QED BY <2>1, <2>2, <2>3
<1>3. /\ r.flags = [s.flags EXCEPT ![t] = 2]
      /\ r.level = s.level /\ r.now = s.now
      /\ r.running = [s.running EXCEPT ![l] = n + 1]
      /\ r.tasks = [s.tasks EXCEPT ![l] = [k \in 0 .. (MAX_TASKS_LV - 1) |->
                        IF k = n THEN t ELSE s.tasks[l][k]]]
      /\ r.now_lv = s.now_lv /\ r.lv_change = s.lv_change
  BY <1>1, <1>2 DEF TaskAdd, Sound, Ctl
<1>12. r \in Ctl
  <2>1. [k \in 0 .. (MAX_TASKS_LV - 1) |-> IF k = n THEN t ELSE s.tasks[l][k]]
            \in [0 .. (MAX_TASKS_LV - 1) -> Tasks \cup {NoTask}]
    BY <1>1, <1>2
  <2>2. /\ [s.flags EXCEPT ![t] = 2] \in [Tasks -> 0 .. 2]
        /\ [s.running EXCEPT ![l] = n + 1] \in [Levels -> Nat]
        /\ [s.tasks EXCEPT ![l] = [k \in 0 .. (MAX_TASKS_LV - 1) |->
                        IF k = n THEN t ELSE s.tasks[l][k]]]
              \in [Levels -> [0 .. (MAX_TASKS_LV - 1) -> Tasks \cup {NoTask}]]
    BY <1>1, <1>2, <2>1
  <2> QED BY <1>1, <2>2 DEF Sound, Ctl, TaskAdd
<1>4. /\ \A m \in Levels : r.running[m] = IF m = l THEN n + 1 ELSE s.running[m]
      /\ \A m \in Levels, k \in 0 .. (MAX_TASKS_LV - 1) :
            r.tasks[m][k] = IF m = l /\ k = n THEN t ELSE s.tasks[m][k]
      /\ \A u \in Tasks : r.flags[u] = IF u = t THEN 2 ELSE s.flags[u]
  BY <1>1, <1>2, <1>3
<1>5. /\ \A m \in Levels : s.running[m] <= MAX_TASKS_LV /\ s.running[m] \in Nat
      /\ Entries(s) /\ Queued(s) /\ Distinct(s)
  BY <1>1 DEF Sound
<1>6. \A m \in Levels : r.running[m] <= MAX_TASKS_LV
  BY <1>2, <1>4, <1>5
<1> HIDE DEF r
<1>7. ASSUME NEW m \in Levels, NEW k \in 0 .. (r.running[m] - 1), ~(m = l /\ k = n)
      PROVE  /\ k \in 0 .. (s.running[m] - 1)
             /\ k \in 0 .. (MAX_TASKS_LV - 1)
             /\ r.tasks[m][k] = s.tasks[m][k]
             /\ s.tasks[m][k] \in Tasks \ {t}
             /\ s.level[s.tasks[m][k]] = m
             /\ s.flags[s.tasks[m][k]] = 2
  <2>1. k \in 0 .. (s.running[m] - 1) /\ k \in 0 .. (MAX_TASKS_LV - 1)
    BY <1>2, <1>4, <1>5, <1>7
  <2>2. s.tasks[m][k] \in Tasks /\ s.level[s.tasks[m][k]] = m /\ s.flags[s.tasks[m][k]] = 2
    BY <2>1, <1>5 DEF Entries
  <2> QED BY <2>1, <2>2, <1>4, <1>7
<1>8. n \in 0 .. (r.running[l] - 1) /\ r.tasks[l][n] = t
  BY <1>2, <1>4
<1>9. Entries(r)
  <2> SUFFICES ASSUME NEW m \in Levels, NEW k \in 0 .. (r.running[m] - 1)
               PROVE  /\ r.tasks[m][k] \in Tasks
                      /\ r.flags[r.tasks[m][k]] = 2
                      /\ r.level[r.tasks[m][k]] = m
    BY DEF Entries
  <2>1. CASE m = l /\ k = n BY <2>1, <1>3, <1>4, <1>8
  <2>2. CASE ~(m = l /\ k = n)
    <3> DEFINE u == s.tasks[m][k]
    <3>1. r.tasks[m][k] = u /\ u \in Tasks \ {t} /\ s.level[u] = m /\ s.flags[u] = 2
      BY <2>2, <1>7
    <3> HIDE DEF u
    <3>2. u \in Tasks /\ u # t /\ r.tasks[m][k] = u BY <3>1
    <3>3. r.flags[u] = 2 BY <3>1, <3>2, <1>4
    <3>4. r.level = s.level BY <1>3
    <3> QED BY <3>1, <3>2, <3>3, <3>4
  <2> QED BY <2>1, <2>2
<1>10. Queued(r)
  <2> SUFFICES ASSUME NEW u \in Tasks, r.flags[u] = 2
               PROVE  \E k \in 0 .. (r.running[s.level[u]] - 1) : r.tasks[s.level[u]][k] = u
    <3>1. r.level = s.level BY <1>3
    <3> QED BY <3>1, ZenonT(60) DEF Queued
  <2>1. CASE u = t BY <2>1, <1>8
  <2>2. CASE u # t
    <3>1. s.level[u] \in Levels BY <1>1
    <3>2. PICK k \in 0 .. (s.running[s.level[u]] - 1) : s.tasks[s.level[u]][k] = u
      BY <2>2, <1>4, <1>5 DEF Queued
    <3>3. k \in 0 .. (r.running[s.level[u]] - 1) /\ k \in 0 .. (MAX_TASKS_LV - 1)
      BY <3>1, <3>2, <1>2, <1>4, <1>5
    <3>4. ~(s.level[u] = l /\ k = n) BY <3>2, <1>2
    <3> QED BY <3>1, <3>2, <3>3, <3>4, <1>4
  <2> QED BY <2>1, <2>2
<1>11. Distinct(r)
  <2> SUFFICES ASSUME NEW m \in Levels, NEW i \in 0 .. (r.running[m] - 1),
                      NEW j \in 0 .. (r.running[m] - 1), r.tasks[m][i] = r.tasks[m][j]
               PROVE  i = j
    BY DEF Distinct
  <2> HIDE DEF l, n
  <2>1. CASE m = l /\ i = n
    <3>1. r.tasks[m][j] = t BY <2>1, <1>8
    <3>2. m = l /\ j = n BY <3>1, <1>7
    <3> QED BY <2>1, <3>2
  <2>2. CASE m = l /\ j = n
    <3>1. r.tasks[m][i] = t BY <2>2, <1>8
    <3>2. m = l /\ i = n BY <3>1, <1>7
    <3> QED BY <2>2, <3>2
  <2>3. CASE ~(m = l /\ i = n) /\ ~(m = l /\ j = n)
    <3>1. /\ i \in 0 .. (s.running[m] - 1) /\ j \in 0 .. (s.running[m] - 1)
          /\ s.tasks[m][i] = s.tasks[m][j]
      BY <2>3, <1>7
    <3> QED BY <3>1, <1>5 DEF Distinct
  <2> QED BY <2>1, <2>2, <2>3
<1> QED BY <1>3, <1>12, <1>6, <1>9, <1>10, <1>11 DEF Sound, r

\* Other fields of a state do not matter to Sound.
LEMMA SoundFrame ==
    ASSUME NEW s, Sound(s), NEW r \in Ctl,
           r.flags = s.flags, r.level = s.level, r.running = s.running, r.tasks = s.tasks
    PROVE  Sound(r)
BY DEF Sound, Entries, Queued, Distinct

\* A task outside the queues may change level, and between flags 0 and 1.
LEMMA AsleepSound ==
    ASSUME NEW s, Sound(s), NEW t \in Tasks, s.flags[t] # 2,
           NEW r \in Ctl, r.running = s.running, r.tasks = s.tasks,
           r.flags[t] # 2,
           \A u \in Tasks \ {t} : r.flags[u] = s.flags[u] /\ r.level[u] = s.level[u]
    PROVE  Sound(r)
<1>1. Entries(r)
  BY DEF Sound, Entries
<1>2. Queued(r)
  <2> SUFFICES ASSUME NEW u \in Tasks, r.flags[u] = 2
               PROVE  \E k \in 0 .. (r.running[r.level[u]] - 1) : r.tasks[r.level[u]][k] = u
    BY DEF Queued
  <2>1. u # t /\ s.flags[u] = 2 /\ r.level[u] = s.level[u] OBVIOUS
  <2> QED BY <2>1 DEF Sound, Queued
<1> QED BY <1>1, <1>2 DEF Sound, Distinct

\* What task_remove does to the table: its search finds t, at entry i.
Removed(s, t, i) ==
    LET l == s.level[t]
        n == s.running[l]
    IN  [flags |-> [s.flags EXCEPT ![t] = 1],
         level |-> s.level,
         running |-> [s.running EXCEPT ![l] = n - 1],
         now |-> [s.now EXCEPT ![l] = FixedNow(s, l, i)],
         tasks |-> [s.tasks EXCEPT ![l] = [k \in 0 .. (MAX_TASKS_LV - 1) |->
            IF i <= k /\ k < n - 1 THEN s.tasks[l][k + 1] ELSE s.tasks[l][k]]],
         now_lv |-> s.now_lv, lv_change |-> s.lv_change]

LEMMA RemoveQueue ==
    ASSUME NEW s, Sound(s), NEW t \in Tasks, s.flags[t] = 2
    PROVE  \E i \in 0 .. (s.running[s.level[t]] - 1) :
              s.tasks[s.level[t]][i] = t /\ TaskRemove(s, t) = Removed(s, t, i)
<1> DEFINE l == s.level[t]
           n == s.running[l]
           i == CHOOSE x \in 0 .. n : Found(s, l, t, x)
<1>1. /\ s.flags \in [Tasks -> 0 .. 2] /\ s.level \in [Tasks -> Levels]
      /\ s.running \in [Levels -> Nat] /\ s.now \in [Levels -> Nat]
      /\ s.tasks \in [Levels -> [0 .. (MAX_TASKS_LV - 1) -> Tasks \cup {NoTask}]]
  BY DEF Sound, Ctl
<1>2. Queued(s) /\ Distinct(s) BY DEF Sound
<1>3. l \in Levels /\ n \in Nat BY <1>1
<1>4. PICK p \in 0 .. (n - 1) : s.tasks[l][p] = t
  BY <1>2 DEF Queued
<1>5. Found(s, l, t, p)
  <2>1. \A k \in 0 .. (p - 1) : k \in 0 .. (n - 1) /\ k # p BY <1>3, <1>4
  <2> QED BY <2>1, <1>2, <1>3, <1>4 DEF Found, Distinct
<1>6. i \in 0 .. n /\ Found(s, l, t, i)
  BY <1>3, <1>4, <1>5
<1>7. TaskRemove(s, t) = Removed(s, t, i)
  <2>1. s = [flags |-> s.flags, level |-> s.level, running |-> s.running, now |-> s.now,
             tasks |-> s.tasks, now_lv |-> s.now_lv, lv_change |-> s.lv_change]
    BY DEF Sound, Ctl
  <2>2. DOMAIN s.tasks[l] = 0 .. (MAX_TASKS_LV - 1) BY <1>1, <1>3
  <2>3. TaskRemove(s, t) =
          [s EXCEPT !.running[l] = n - 1, !.now[l] = FixedNow(s, l, i), !.flags[t] = 1,
                    !.tasks[l] = [k \in 0 .. (MAX_TASKS_LV - 1) |->
                        IF i <= k /\ k < n - 1 THEN s.tasks[l][k + 1] ELSE s.tasks[l][k]]]
    BY <2>1, <2>2 DEF TaskRemove
  <2> HIDE DEF i, l, n
  <2> QED BY <2>1, <2>3 DEF Removed, l, n
<1> HIDE DEF i
<1>8. i \in 0 .. (n - 1) /\ s.tasks[l][i] = t
  <2>1. i < n
    <3> SUFFICES ASSUME i = n PROVE FALSE BY <1>3, <1>6
    <3> QED BY <1>4, <1>6 DEF Found
  <2> QED BY <2>1, <1>3, <1>6 DEF Found
<1> QED BY <1>7, <1>8

LEMMA RemoveSound ==
    ASSUME NEW s, Sound(s), NEW t \in Tasks, s.flags[t] = 2
    PROVE  /\ Sound(TaskRemove(s, t))
           /\ TaskRemove(s, t).flags = [s.flags EXCEPT ![t] = 1]
           /\ TaskRemove(s, t).level = s.level
<1> DEFINE l == s.level[t]
           n == s.running[l]
           r == TaskRemove(s, t)
<1>1. /\ s.flags \in [Tasks -> 0 .. 2] /\ s.level \in [Tasks -> Levels]
      /\ s.running \in [Levels -> Nat] /\ s.now \in [Levels -> Nat]
      /\ s.tasks \in [Levels -> [0 .. (MAX_TASKS_LV - 1) -> Tasks \cup {NoTask}]]
      /\ s.now_lv \in Levels /\ s.lv_change \in 0 .. 1
  BY DEF Sound, Ctl
<1>2. /\ \A m \in Levels : s.running[m] <= MAX_TASKS_LV /\ s.running[m] \in Nat
      /\ Entries(s) /\ Queued(s) /\ Distinct(s)
  BY <1>1 DEF Sound
<1>3. l \in Levels /\ n \in Nat /\ n <= MAX_TASKS_LV /\ MAX_TASKS_LV \in Nat
  BY <1>1, <1>2, MTaskAssumption
<1>4. PICK i \in 0 .. (n - 1) : s.tasks[l][i] = t /\ r = Removed(s, t, i)
  BY RemoveQueue
<1> HIDE DEF r
<1>7. i \in 0 .. (n - 1) /\ s.tasks[l][i] = t BY <1>4
<1>8. /\ r.flags = [s.flags EXCEPT ![t] = 1]
      /\ r.level = s.level
      /\ r.running = [s.running EXCEPT ![l] = n - 1]
      /\ r.now = [s.now EXCEPT ![l] = FixedNow(s, l, i)]
      /\ r.tasks = [s.tasks EXCEPT ![l] = [k \in 0 .. (MAX_TASKS_LV - 1) |->
                        IF i <= k /\ k < n - 1 THEN s.tasks[l][k + 1] ELSE s.tasks[l][k]]]
      /\ r.now_lv = s.now_lv /\ r.lv_change = s.lv_change
  BY <1>4 DEF Removed
<1>9. r \in Ctl
  <2>1. FixedNow(s, l, i) \in Nat
    BY SMTT(60), <1>1, <1>3, <1>7 DEF FixedNow
  <2>2. [k \in 0 .. (MAX_TASKS_LV - 1) |->
            IF i <= k /\ k < n - 1 THEN s.tasks[l][k + 1] ELSE s.tasks[l][k]]
          \in [0 .. (MAX_TASKS_LV - 1) -> Tasks \cup {NoTask}]
    <3> SUFFICES ASSUME NEW k \in 0 .. (MAX_TASKS_LV - 1)
                 PROVE  /\ k < n - 1 => s.tasks[l][k + 1] \in Tasks \cup {NoTask}
                        /\ s.tasks[l][k] \in Tasks \cup {NoTask}
      BY <1>3
    <3>1. k < n - 1 => (k + 1) \in 0 .. (MAX_TASKS_LV - 1) BY <1>3
    <3>2. s.tasks[l] \in [0 .. (MAX_TASKS_LV - 1) -> Tasks \cup {NoTask}]
      BY <1>1, <1>3
    <3> HIDE DEF l
    <3> QED BY <3>1, <3>2
  <2>3. /\ [s.flags EXCEPT ![t] = 1] \in [Tasks -> 0 .. 2]
        /\ [s.running EXCEPT ![l] = n - 1] \in [Levels -> Nat]
        /\ [s.now EXCEPT ![l] = FixedNow(s, l, i)] \in [Levels -> Nat]
        /\ [s.tasks EXCEPT ![l] = [k \in 0 .. (MAX_TASKS_LV - 1) |->
                IF i <= k /\ k < n - 1 THEN s.tasks[l][k + 1] ELSE s.tasks[l][k]]]
              \in [Levels -> [0 .. (MAX_TASKS_LV - 1) -> Tasks \cup {NoTask}]]
    <3> DEFINE q == [k \in 0 .. (MAX_TASKS_LV - 1) |->
                        IF i <= k /\ k < n - 1 THEN s.tasks[l][k + 1] ELSE s.tasks[l][k]]
    <3>1. n - 1 \in Nat BY <1>3, <1>7
    <3>2. q \in [0 .. (MAX_TASKS_LV - 1) -> Tasks \cup {NoTask}] BY <2>2
    <3> HIDE DEF q, l, n
    <3> SUFFICES /\ [s.flags EXCEPT ![t] = 1] \in [Tasks -> 0 .. 2]
                 /\ [s.running EXCEPT ![l] = n - 1] \in [Levels -> Nat]
                 /\ [s.now EXCEPT ![l] = FixedNow(s, l, i)] \in [Levels -> Nat]
                 /\ [s.tasks EXCEPT ![l] = q]
                      \in [Levels -> [0 .. (MAX_TASKS_LV - 1) -> Tasks \cup {NoTask}]]
      BY DEF q
    <3> QED BY <1>1, <1>3, <2>1, <3>1, <3>2
  <2>4. /\ r.flags \in [Tasks -> 0 .. 2] /\ r.level \in [Tasks -> Levels]
        /\ r.running \in [Levels -> Nat] /\ r.now \in [Levels -> Nat]
        /\ r.tasks \in [Levels -> [0 .. (MAX_TASKS_LV - 1) -> Tasks \cup {NoTask}]]
        /\ r.now_lv \in Levels /\ r.lv_change \in 0 .. 1
    BY Zenon, <1>1, <1>8, <2>3
  <2>5. r = [flags |-> r.flags, level |-> r.level, running |-> r.running, now |-> r.now,
             tasks |-> r.tasks, now_lv |-> r.now_lv, lv_change |-> r.lv_change]
    BY <1>4, <1>8, Zenon DEF Removed
  <2> HIDE DEF l, n
  <2> QED BY <2>4, <2>5 DEF Ctl
<1>10. /\ \A m \in Levels : r.running[m] = IF m = l THEN n - 1 ELSE s.running[m]
       /\ \A m \in Levels, k \in 0 .. (MAX_TASKS_LV - 1) :
             r.tasks[m][k] = IF m = l /\ i <= k /\ k < n - 1
                             THEN s.tasks[m][k + 1] ELSE s.tasks[m][k]
       /\ \A u \in Tasks : r.flags[u] = IF u = t THEN 1 ELSE s.flags[u]
  BY SMTT(60), <1>1, <1>3, <1>8
<1>11. \A m \in Levels : r.running[m] <= MAX_TASKS_LV
  BY <1>2, <1>3, <1>10
\* Each entry that is left was an entry before, and not t's.
<1> DEFINE from(m, k) == IF m = l /\ i <= k THEN k + 1 ELSE k
<1>12. ASSUME NEW m \in Levels, NEW k \in 0 .. (r.running[m] - 1)
       PROVE  /\ from(m, k) \in 0 .. (s.running[m] - 1)
              /\ m = l => from(m, k) # i
              /\ r.tasks[m][k] = s.tasks[m][from(m, k)]
              /\ s.tasks[m][from(m, k)] \in Tasks \ {t}
              /\ s.level[s.tasks[m][from(m, k)]] = m
              /\ s.flags[s.tasks[m][from(m, k)]] = 2
  <2>1. k \in 0 .. (MAX_TASKS_LV - 1)
    BY <1>2, <1>3, <1>10, <1>12
  <2>2. from(m, k) \in 0 .. (s.running[m] - 1) /\ (m = l => from(m, k) # i)
    BY <1>2, <1>3, <1>7, <1>10, <1>12
  <2>3. r.tasks[m][k] = s.tasks[m][from(m, k)]
    <3>1. m = l => k < n - 1 BY <1>3, <1>10, <1>12
    <3> QED BY <2>1, <3>1, <1>10
  <2> HIDE DEF from
  <2>4. /\ s.tasks[m][from(m, k)] \in Tasks
        /\ s.level[s.tasks[m][from(m, k)]] = m
        /\ s.flags[s.tasks[m][from(m, k)]] = 2
    BY <2>2, <1>2 DEF Entries
  <2>5. s.tasks[m][from(m, k)] # t
    BY <2>2, <2>4, <1>2, <1>3, <1>7 DEF Distinct
  <2> QED BY <2>2, <2>3, <2>4, <2>5
<1>13. Entries(r)
  <2> SUFFICES ASSUME NEW m \in Levels, NEW k \in 0 .. (r.running[m] - 1)
               PROVE  /\ r.tasks[m][k] \in Tasks
                      /\ r.flags[r.tasks[m][k]] = 2
                      /\ r.level[r.tasks[m][k]] = m
    BY DEF Entries
  <2> DEFINE u == s.tasks[m][from(m, k)]
  <2>1. r.tasks[m][k] = u /\ u \in Tasks \ {t} /\ s.level[u] = m /\ s.flags[u] = 2
    BY <1>12
  <2> HIDE DEF u
  <2> QED BY <2>1, <1>8, <1>10
<1>14. Queued(r)
  <2> SUFFICES ASSUME NEW u \in Tasks, r.flags[u] = 2
               PROVE  \E k \in 0 .. (r.running[s.level[u]] - 1) : r.tasks[s.level[u]][k] = u
    <3>1. r.level = s.level BY <1>8
    <3> QED BY <3>1, ZenonT(60) DEF Queued
  <2> DEFINE m == s.level[u]
  <2>1. u # t /\ s.flags[u] = 2 /\ m \in Levels BY <1>1, <1>10
  <2>2. PICK j \in 0 .. (s.running[m] - 1) : s.tasks[m][j] = u
    BY <2>1, <1>2 DEF Queued
  <2> HIDE DEF m
  <2> DEFINE k == IF m = l /\ j > i THEN j - 1 ELSE j
  <2>3. ~(m = l /\ j = i) BY <2>1, <2>2, <1>7
  <2>4. k \in 0 .. (r.running[m] - 1)
    BY <2>1, <2>2, <2>3, <1>2, <1>3, <1>7, <1>10
  <2>5. from(m, k) = j
    BY <2>2, <2>3, <1>3, <1>7
  <2>6. r.tasks[m][k] = u
    <3> HIDE DEF from, k
    <3> QED BY <2>1, <2>2, <2>4, <2>5, <1>12
  <2> QED BY <2>4, <2>6 DEF m
<1>15. Distinct(r)
  <2> SUFFICES ASSUME NEW m \in Levels, NEW x \in 0 .. (r.running[m] - 1),
                      NEW y \in 0 .. (r.running[m] - 1), r.tasks[m][x] = r.tasks[m][y]
               PROVE  x = y
    BY DEF Distinct
  <2>1. from(m, x) = from(m, y)
    <3> HIDE DEF from
    <3>1. /\ from(m, x) \in 0 .. (s.running[m] - 1) /\ from(m, y) \in 0 .. (s.running[m] - 1)
          /\ s.tasks[m][from(m, x)] = s.tasks[m][from(m, y)]
      BY <1>12
    <3> QED BY <3>1, <1>2 DEF Distinct
  <2> QED BY <2>1, <1>2, <1>3, <1>7, <1>10
<1> QED BY <1>8, <1>9, <1>11, <1>13, <1>14, <1>15 DEF Sound, r
-----------------------------------------------------------------------------
(* The current level and its index *)

LAST == MAX_TASKLEVELS - 1

\* What holds of the queues and their indices between the parts of a call.
Stable(s) ==
    /\ Sound(s)
    /\ s.flags[IDLE] = 2 /\ s.level[IDLE] = LAST
    /\ s.tasks[0][0] = TASK_A
    /\ s.running[0] = 0 \/ (s.running[0] = 1 /\ s.now[0] = 0)
    /\ \A l \in Levels \ {0} : s.now[l] = 0 \/ s.now[l] < s.running[l]

\* And when no call is in progress.
Steady(s) ==
    /\ Stable(s)
    /\ s.now_lv = 0 => s.now[0] = 0
    /\ s.now_lv # 0 => s.now[s.now_lv] < s.running[s.now_lv]
    /\ TaskNow(s) \in Tasks /\ s.flags[TaskNow(s)] = 2
    /\ s.lv_change = 0 => Top(s, s.now_lv)

LEMMA Constants ==
    /\ MAX_TASKS \in Nat /\ MAX_TASKS_LV \in Nat /\ MAX_TASKLEVELS \in Nat
    /\ 0 \in 0 .. (MAX_TASKS_LV - 1)
    /\ 0 \in Levels /\ 1 \in Levels /\ 2 \in Levels /\ LAST \in Levels /\ LAST > 2
    /\ TASK_A \in Tasks /\ IDLE \in Tasks /\ Consoles \subseteq Tasks
    /\ Levels \subseteq Nat
BY MTaskAssumption DEF Levels, Tasks, LAST, TASK_A, IDLE, Consoles

LEMMA Fields ==
    ASSUME NEW s, Sound(s)
    PROVE  /\ s.flags \in [Tasks -> 0 .. 2] /\ s.level \in [Tasks -> Levels]
           /\ s.running \in [Levels -> Nat] /\ s.now \in [Levels -> Nat]
           /\ s.tasks \in [Levels -> [0 .. (MAX_TASKS_LV - 1) -> Tasks \cup {NoTask}]]
           /\ s.now_lv \in Levels /\ s.lv_change \in 0 .. 1
BY DEF Sound, Ctl

\* The idle task never sleeps, so task_switchsub always finds a level.
LEMMA TopExists ==
    ASSUME NEW s, Stable(s)
    PROVE  /\ (CHOOSE l \in Levels : Top(s, l)) \in Levels
           /\ Top(s, CHOOSE l \in Levels : Top(s, l))
<1>1. s.running \in [Levels -> Nat] BY Fields DEF Stable
<1>2. LAST \in Levels /\ s.running[LAST] > 0
  <2>1. \E k \in 0 .. (s.running[LAST] - 1) : s.tasks[LAST][k] = IDLE
    BY Constants DEF Stable, Sound, Queued
  <2> QED BY <2>1, <1>1, Constants
<1> DEFINE Busy == {l \in Levels : s.running[l] > 0}
<1>3. PICK l \in Busy : \A k \in Busy : <<k, l>> \notin OpToRel(<, Nat)
  <2>1. Busy \subseteq Nat /\ Busy # {} BY <1>2, Constants
  <2> HIDE DEF Busy
  <2> QED BY <2>1, NatLessThanWellFounded, WFMin
<1>4. \A k \in Busy : ~(k < l)
  <2>1. Busy \subseteq Nat BY Constants
  <2> QED BY <1>3, <2>1, Zenon DEF OpToRel
<1>5. \A k \in 0 .. (l - 1) : k \in Levels /\ k < l
  BY Constants DEF Levels
<1>6. Top(s, l)
  BY <1>1, <1>4, <1>5 DEF Top
<1> QED BY <1>6

\* A state that differs from s in its current level and lv_change only.
Moved(s, L, c) == [s EXCEPT !.now_lv = L, !.lv_change = c]

LEMMA LevelFields ==
    ASSUME NEW s, s \in Ctl, NEW L, L \in Levels, NEW c, c \in 0 .. 1,
           NEW r, r = Moved(s, L, c)
    PROVE  /\ r \in Ctl
           /\ r.flags = s.flags /\ r.level = s.level /\ r.running = s.running
           /\ r.now = s.now /\ r.tasks = s.tasks /\ r.now_lv = L /\ r.lv_change = c
<1>1. r = [flags |-> s.flags, level |-> s.level, running |-> s.running, now |-> s.now,
           tasks |-> s.tasks, now_lv |-> L, lv_change |-> c]
  BY DEF Ctl, Moved
<1> QED BY <1>1 DEF Ctl

\* task_switchsub leaves the current level at the top, on a running task.
LEMMA SwitchSteady ==
    ASSUME NEW s, Stable(s)
    PROVE  /\ Steady(TaskSwitchSub(s))
           /\ TaskSwitchSub(s).flags = s.flags
           /\ TaskSwitchSub(s).level = s.level
           /\ TaskSwitchSub(s).running = s.running
<1> DEFINE L == CHOOSE l \in Levels : Top(s, l)
           r == TaskSwitchSub(s)
<1>1. L \in Levels /\ Top(s, L) BY TopExists
<1>2. /\ r \in Ctl
      /\ r.flags = s.flags /\ r.level = s.level /\ r.running = s.running
      /\ r.now = s.now /\ r.tasks = s.tasks /\ r.now_lv = L /\ r.lv_change = 0
  <2>1. r = Moved(s, L, 0) BY DEF TaskSwitchSub, Moved
  <2>2. s \in Ctl BY DEF Stable, Sound
  <2> HIDE DEF L, r
  <2> QED BY <1>1, <2>1, <2>2, LevelFields
<1> HIDE DEF L, r
<1>3. Sound(r) BY <1>2, SoundFrame DEF Stable
<1>4. Stable(r) BY <1>2, <1>3 DEF Stable
<1>5. /\ s.running \in [Levels -> Nat] /\ s.now \in [Levels -> Nat]
  BY Fields DEF Stable
<1>6. s.running[L] > 0 BY <1>1 DEF Top
<1>7. s.now[L] < s.running[L] /\ (L = 0 => s.now[0] = 0)
  BY <1>1, <1>5, <1>6, Constants DEF Stable
<1>8. s.now[L] \in 0 .. (s.running[L] - 1) BY <1>1, <1>5, <1>7
<1>9. s.tasks[L][s.now[L]] \in Tasks /\ s.flags[s.tasks[L][s.now[L]]] = 2
  BY <1>1, <1>8 DEF Stable, Sound, Entries
<1>10. TaskNow(r) = s.tasks[L][s.now[L]] BY <1>2 DEF TaskNow
<1>11. Top(r, L) BY <1>1, <1>2 DEF Top
<1> QED BY <1>2, <1>4, <1>7, <1>9, <1>10, <1>11 DEF Steady, r

\* task_remove leaves the indices of the levels that still run inside them.
LEMMA RemoveStable ==
    ASSUME NEW s, Stable(s), NEW t \in Tasks \ {IDLE}, s.flags[t] = 2
    PROVE  /\ Stable(TaskRemove(s, t))
           /\ \A l \in Levels \ {s.level[t]} :
                 /\ TaskRemove(s, t).running[l] = s.running[l]
                 /\ TaskRemove(s, t).now[l] = s.now[l]
                 /\ TaskRemove(s, t).tasks[l] = s.tasks[l]
           /\ TaskRemove(s, t).running[s.level[t]] = s.running[s.level[t]] - 1
           /\ s.level[t] = 0 => /\ TaskRemove(s, t).running[0] = 0
                                /\ TaskRemove(s, t).now[0] = 0
           /\ TaskRemove(s, t).now_lv = s.now_lv
           /\ TaskRemove(s, t).lv_change = s.lv_change
<1> DEFINE l == s.level[t]
           n == s.running[l]
           i == CHOOSE x \in 0 .. n : Found(s, l, t, x)
           r == TaskRemove(s, t)
<1>1. /\ Sound(r) /\ r.flags = [s.flags EXCEPT ![t] = 1] /\ r.level = s.level
  BY RemoveSound DEF Stable
<1>2. /\ s.flags \in [Tasks -> 0 .. 2] /\ s.level \in [Tasks -> Levels]
      /\ s.running \in [Levels -> Nat] /\ s.now \in [Levels -> Nat]
      /\ s.tasks \in [Levels -> [0 .. (MAX_TASKS_LV - 1) -> Tasks \cup {NoTask}]]
  BY Fields DEF Stable
<1>3. l \in Levels /\ n \in Nat BY <1>2
<1>4. /\ r.running = [s.running EXCEPT ![l] = n - 1]
      /\ r.now = [s.now EXCEPT ![l] = FixedNow(s, l, i)]
      /\ r.tasks = [s.tasks EXCEPT ![l] = [k \in 0 .. (MAX_TASKS_LV - 1) |->
                        IF i <= k /\ k < n - 1 THEN s.tasks[l][k + 1] ELSE s.tasks[l][k]]]
      /\ r.now_lv = s.now_lv /\ r.lv_change = s.lv_change
  BY <1>2, <1>3 DEF TaskRemove, Stable, Sound, Ctl
<1> HIDE DEF i, r
<1>5. r.flags[IDLE] = 2 /\ r.level[IDLE] = LAST
  BY <1>1, <1>2, Constants DEF Stable
<1>6. \A m \in Levels \ {l} : /\ r.running[m] = s.running[m] /\ r.now[m] = s.now[m]
                               /\ r.tasks[m] = s.tasks[m]
  BY <1>2, <1>4
<1>7. r.running[l] = n - 1 /\ r.now[l] = FixedNow(s, l, i)
  BY <1>2, <1>3, <1>4
<1>8. r.now[l] = 0 \/ r.now[l] < r.running[l]
  <2>1. r.now[l] \in Nat /\ r.running[l] \in Nat BY <1>1, <1>3, Fields
  <2> QED BY <1>7, <2>1, <1>2, <1>3 DEF FixedNow
<1>9. \E k \in 0 .. (n - 1) : s.tasks[l][k] = t
  BY <1>3 DEF Stable, Sound, Queued
<1>10. CASE l = 0
  <2>1. n = 1 /\ s.now[0] = 0 BY <1>3, <1>9, <1>10 DEF Stable
  <2>2. r.running[0] = 0 BY <2>1, <1>7, <1>10
  <2>3. r.now[0] = 0
    BY <2>1, <1>7, <1>10, <1>8, <2>2, <1>1, <1>3, Fields
  <2>4. r.tasks[0][0] = TASK_A
    BY <2>1, <1>2, <1>3, <1>4, <1>10, Constants DEF Stable
  <2> QED BY <2>2, <2>3, <2>4, <1>1, <1>4, <1>5, <1>6, <1>7, <1>10, <2>1 DEF Stable, r
<1>11. CASE l # 0
  <2>1. r.tasks[0][0] = TASK_A /\ r.running[0] = s.running[0] /\ r.now[0] = s.now[0]
    BY <1>6, <1>11, Constants DEF Stable
  <2>2. \A m \in Levels \ {0} : r.now[m] = 0 \/ r.now[m] < r.running[m]
    BY <1>6, <1>8 DEF Stable
  <2> QED BY <2>1, <2>2, <1>1, <1>4, <1>5, <1>6, <1>7, <1>11 DEF Stable, r
<1> QED BY <1>10, <1>11

\* task_sleep, of the current task or of one at another level.
LEMMA SleepSteady ==
    ASSUME NEW s, Steady(s), NEW t \in Tasks \ {IDLE},
           s.flags[t] = 2 => (t = TaskNow(s) \/ s.level[t] # s.now_lv)
    PROVE  /\ Steady(TaskSleep(s, t))
           /\ TaskSleep(s, t).flags = [s.flags EXCEPT ![t] = IF s.flags[t] = 2 THEN 1 ELSE @]
           /\ TaskSleep(s, t).level = s.level
           /\ ~GivesUp(s, t) => TaskNow(TaskSleep(s, t)) = TaskNow(s)
           /\ s.running[0] = 0 => TaskSleep(s, t).running[0] = 0
<1> DEFINE r == TaskRemove(s, t)
<1>0. Stable(s) /\ Sound(s) BY DEF Steady, Stable
<1>1. /\ s.flags \in [Tasks -> 0 .. 2] /\ s.level \in [Tasks -> Levels]
      /\ s.running \in [Levels -> Nat] /\ s.now \in [Levels -> Nat]
      /\ s.now_lv \in Levels
  BY <1>0, Fields
<1>2. CASE s.flags[t] # 2
  <2>1. TaskSleep(s, t) = s BY <1>2 DEF TaskSleep
  <2>2. s.flags = [s.flags EXCEPT ![t] = @] BY <1>1
  <2> QED BY <1>1, <1>2, <2>1, <2>2
<1>3. CASE s.flags[t] = 2 /\ t = TaskNow(s)
  <2>1. TaskSleep(s, t) = TaskSwitchSub(r) BY <1>3 DEF TaskSleep
  <2>2. Stable(r) /\ r.flags = [s.flags EXCEPT ![t] = 1] /\ r.level = s.level
    BY <1>0, <1>3, RemoveStable, RemoveSound
  <2>3. s.running[0] = 0 => r.running[0] = 0
    BY <1>0, <1>1, <1>3, RemoveStable, Constants
  <2> HIDE DEF r
  <2> QED BY <1>1, <1>3, <2>1, <2>2, <2>3, SwitchSteady DEF GivesUp
<1>4. CASE s.flags[t] = 2 /\ t # TaskNow(s)
  <2>1. TaskSleep(s, t) = r BY <1>4 DEF TaskSleep
  <2>2. Stable(r) /\ r.flags = [s.flags EXCEPT ![t] = 1] /\ r.level = s.level
    BY <1>0, <1>4, RemoveStable, RemoveSound
  <2>3. /\ \A l \in Levels \ {s.level[t]} :
              /\ r.running[l] = s.running[l] /\ r.now[l] = s.now[l] /\ r.tasks[l] = s.tasks[l]
        /\ r.running[s.level[t]] = s.running[s.level[t]] - 1
        /\ s.level[t] = 0 => r.running[0] = 0
        /\ r.now_lv = s.now_lv /\ r.lv_change = s.lv_change
    BY <1>0, <1>4, RemoveStable
  <2> HIDE DEF r
  <2>4. s.level[t] # s.now_lv /\ s.level[t] \in Levels BY <1>1, <1>4
  <2>5. TaskNow(r) = TaskNow(s)
    BY <1>1, <2>3, <2>4 DEF TaskNow
  <2>6. r.flags[TaskNow(r)] = 2 /\ TaskNow(r) \in Tasks
    BY <1>1, <1>4, <2>2, <2>5 DEF Steady
  <2>7. s.running[0] = 0 => r.running[0] = 0
    BY <2>3, Constants
  <2>8. Top(s, s.now_lv) => Top(r, r.now_lv)
    <3>1. \A k \in Levels : r.running[k] <= s.running[k]
      BY <1>1, <2>3, <2>4
    <3>2. \A k \in 0 .. (s.now_lv - 1) : k \in Levels
      BY <1>1, Constants DEF Levels
    <3>3. \A k \in Levels : r.running[k] \in Nat /\ s.running[k] \in Nat
      <4>1. Sound(r) BY <2>2 DEF Stable
      <4>2. r.running \in [Levels -> Nat] BY <4>1, Fields
      <4> QED BY <1>1, <4>2
    <3>4. r.running[s.now_lv] = s.running[s.now_lv] /\ r.now_lv = s.now_lv
      BY <1>1, <2>3, <2>4
    <3> QED BY <3>1, <3>2, <3>3, <3>4 DEF Top
  <2>9. /\ r.now_lv = 0 => r.now[0] = 0
        /\ r.now_lv # 0 => r.now[r.now_lv] < r.running[r.now_lv]
    BY <1>1, <2>3, <2>4, Constants DEF Steady
  <2> QED BY <1>4, <2>1, <2>2, <2>3, <2>5, <2>6, <2>7, <2>8, <2>9 DEF Steady
<1> QED BY <1>2, <1>3, <1>4

\* task_add and what task_run does last, for a task at a level other than 0.
Added(s, t) == [TaskAdd(s, t) EXCEPT !.lv_change = 1]

\* Entries are only added, behind those that are there.
Extends(s, r) ==
    /\ r.now = s.now
    /\ \A l \in Levels : r.running[l] >= s.running[l]
    /\ \A l \in Levels, k \in 0 .. (MAX_TASKS_LV - 1) :
          l = 0 \/ k < s.running[l] => r.tasks[l][k] = s.tasks[l][k]

LEMMA AddStable ==
    ASSUME NEW s, Stable(s), NEW t \in Tasks, s.flags[t] # 2, s.level[t] # 0,
           NEW r, r = Added(s, t), Few(r) \/ Within(r)
    PROVE  /\ Stable(r)
           /\ r.flags = [s.flags EXCEPT ![t] = 2] /\ r.level = s.level
           /\ r.now_lv = s.now_lv /\ r.lv_change = 1
           /\ Extends(s, r)
<1> DEFINE l == s.level[t]
           n == s.running[l]
           a == TaskAdd(s, t)
<1>0. Sound(s) /\ (Few(a) \/ Within(a))
  <2>1. Sound(s) /\ s \in Ctl BY DEF Stable, Sound
  <2>2. r.running = a.running /\ r.flags = a.flags BY <2>1 DEF Added, TaskAdd, Ctl
  <2>3. Few(r) => Few(a) BY <2>2 DEF Few, Alive
  <2> QED BY <2>1, <2>2, <2>3 DEF Within
<1>1. Sound(s) /\ Sound(a) /\ a.flags = [s.flags EXCEPT ![t] = 2] /\ a.level = s.level
  BY <1>0, AddSound
<1>2. /\ s.flags \in [Tasks -> 0 .. 2] /\ s.level \in [Tasks -> Levels]
      /\ s.running \in [Levels -> Nat] /\ s.now \in [Levels -> Nat]
      /\ s.tasks \in [Levels -> [0 .. (MAX_TASKS_LV - 1) -> Tasks \cup {NoTask}]]
      /\ s.now_lv \in Levels /\ s.lv_change \in 0 .. 1
  BY <1>1, Fields
<1>3. l \in Levels /\ n \in Nat BY <1>2
<1>4. /\ a.now = s.now /\ a.now_lv = s.now_lv
      /\ a.running = [s.running EXCEPT ![l] = n + 1]
      /\ a.tasks = [s.tasks EXCEPT ![l] = [k \in 0 .. (MAX_TASKS_LV - 1) |->
                        IF k = n THEN t ELSE s.tasks[l][k]]]
  BY <1>1, <1>2, <1>3 DEF TaskAdd, Sound, Ctl
<1> HIDE DEF a
<1>5. /\ r \in Ctl /\ r.flags = a.flags /\ r.level = a.level /\ r.running = a.running
      /\ r.now = a.now /\ r.tasks = a.tasks /\ r.now_lv = a.now_lv /\ r.lv_change = 1
  <2>1. a \in Ctl /\ a.now_lv \in Levels BY <1>1, <1>2, <1>4 DEF Sound
  <2>2. r = Moved(a, a.now_lv, 1) BY <2>1 DEF Ctl, Moved, Added, a
  <2> HIDE DEF a
  <2> QED BY <2>1, <2>2, LevelFields
<1>6. Sound(r) BY <1>1, <1>5, SoundFrame
<1>7. \A m \in Levels : m # l => (r.running[m] = s.running[m] /\ r.tasks[m] = s.tasks[m])
  BY <1>2, <1>3, <1>4, <1>5
<1>15. \A m \in Levels : r.running[m] >= s.running[m]
  BY <1>2, <1>3, <1>4, <1>5
<1>8. \A m \in Levels, k \in 0 .. (MAX_TASKS_LV - 1) :
          m = 0 \/ k < s.running[m] => r.tasks[m][k] = s.tasks[m][k]
  BY <1>2, <1>3, <1>4, <1>5
<1>9. r.flags[IDLE] = 2 /\ r.level[IDLE] = LAST
  BY <1>1, <1>2, <1>5, Constants DEF Stable
<1>10. r.running[0] = s.running[0] /\ r.tasks[0][0] = TASK_A /\ r.now[0] = s.now[0]
  BY <1>4, <1>5, <1>7, Constants DEF Stable
<1>11. \A m \in Levels \ {0} : r.now[m] = 0 \/ r.now[m] < r.running[m]
  <2>1. \A m \in Levels : r.now[m] = s.now[m] /\ s.now[m] \in Nat /\ s.running[m] \in Nat
                             /\ r.running[m] \in Nat
    BY SMTT(60), <1>2, <1>4, <1>5, <1>6, Fields
  <2>2. \A m \in Levels \ {0} : s.now[m] = 0 \/ s.now[m] < s.running[m]
    BY DEF Stable
  <2> SUFFICES ASSUME NEW m \in Levels \ {0} PROVE r.now[m] = 0 \/ r.now[m] < r.running[m]
    OBVIOUS
  <2>3. /\ r.now[m] = s.now[m] /\ s.now[m] \in Nat /\ s.running[m] \in Nat
        /\ r.running[m] \in Nat
    BY <2>1
  <2>4. r.running[m] >= s.running[m] BY <1>15
  <2> QED BY <2>2, <2>3, <2>4
<1>12. Stable(r) BY <1>6, <1>9, <1>10, <1>11, <1>1, <1>4, <1>5 DEF Stable
<1>13. r.flags = [s.flags EXCEPT ![t] = 2] /\ r.level = s.level BY <1>1, <1>5
<1>14. r.now = s.now /\ r.now_lv = s.now_lv /\ r.lv_change = 1 BY <1>4, <1>5
<1> HIDE DEF l, n, a
<1> QED BY <1>8, <1>12, <1>13, <1>14, <1>15 DEF Extends

\* It leaves the current task where it is.
LEMMA AddSteady ==
    ASSUME NEW s, Steady(s), NEW t \in Tasks, s.flags[t] # 2, s.level[t] # 0,
           NEW r, r = Added(s, t), Few(r) \/ Within(r)
    PROVE  Steady(r) /\ TaskNow(r) = TaskNow(s) /\ Extends(s, r)
<1>0. Stable(s) /\ Sound(s) BY DEF Steady, Stable
<1>1. /\ Stable(r)
      /\ r.flags = [s.flags EXCEPT ![t] = 2] /\ r.level = s.level
      /\ r.now = s.now /\ r.now_lv = s.now_lv /\ r.lv_change = 1
      /\ \A l \in Levels : r.running[l] >= s.running[l]
      /\ \A l \in Levels, k \in 0 .. (MAX_TASKS_LV - 1) :
            l = 0 \/ k < s.running[l] => r.tasks[l][k] = s.tasks[l][k]
  <2>1. /\ Stable(r) /\ Extends(s, r)
        /\ r.flags = [s.flags EXCEPT ![t] = 2] /\ r.level = s.level
        /\ r.now_lv = s.now_lv /\ r.lv_change = 1
    BY <1>0, AddStable
  <2> QED BY <2>1, Zenon DEF Extends
<1>2. /\ s.flags \in [Tasks -> 0 .. 2] /\ s.now_lv \in Levels
      /\ s.running \in [Levels -> Nat] /\ s.now \in [Levels -> Nat]
  BY <1>0, Fields
<1>3. s.now[s.now_lv] \in 0 .. (MAX_TASKS_LV - 1)
  <2>1. s.running[s.now_lv] <= MAX_TASKS_LV BY <1>0, <1>2 DEF Sound
  <2>2. s.now[s.now_lv] = 0 \/ s.now[s.now_lv] < s.running[s.now_lv] BY DEF Steady
  <2>3. /\ s.now[s.now_lv] \in Nat /\ s.running[s.now_lv] \in Nat
        /\ MAX_TASKS_LV \in Nat /\ MAX_TASKS_LV > 0
    BY <1>2, MTaskAssumption
  <2> QED BY <2>1, <2>2, <2>3
<1>4. TaskNow(r) = TaskNow(s)
  <2>1. CASE s.now_lv = 0 BY <2>1, <1>1, <1>2, <1>3 DEF TaskNow
  <2>2. CASE s.now_lv # 0
    <3>1. s.now[s.now_lv] < s.running[s.now_lv] BY <2>2 DEF Steady
    <3> QED BY <3>1, <1>1, <1>2, <1>3 DEF TaskNow
  <2> QED BY <2>1, <2>2
<1>5. TaskNow(r) \in Tasks /\ r.flags[TaskNow(r)] = 2
  BY <1>1, <1>2, <1>4 DEF Steady
<1>6. r.now_lv = 0 => r.now[0] = 0
  BY <1>1 DEF Steady
<1>7. r.now_lv # 0 => r.now[r.now_lv] < r.running[r.now_lv]
  <2>1. r.running \in [Levels -> Nat] BY <1>1, Fields DEF Stable
  <2>2. r.running[s.now_lv] >= s.running[s.now_lv] BY <1>1, <1>2
  <2> QED BY <2>1, <2>2, <1>1, <1>2 DEF Steady
<1>8. Extends(s, r) BY <1>0, AddStable
<1> QED BY <1>1, <1>4, <1>5, <1>6, <1>7, <1>8 DEF Steady

\* task_run of a task at its own level.
LEMMA RunSteady ==
    ASSUME NEW s, Steady(s), NEW t \in Tasks, s.flags[t] # 2 => s.level[t] # 0,
           NEW r, r = TaskRun(s, t, SAME), Few(r) \/ Within(r)
    PROVE  /\ Steady(r) /\ TaskNow(r) = TaskNow(s) /\ Extends(s, r)
           /\ r.flags = [s.flags EXCEPT ![t] = 2] /\ r.level = s.level
<1>0. Stable(s) /\ Sound(s) /\ s \in Ctl BY DEF Steady, Stable, Sound
<1>1. /\ s.flags \in [Tasks -> 0 .. 2] /\ s.level \in [Tasks -> Levels]
      /\ s.now_lv \in Levels
  BY <1>0, Fields
<1>2. CASE s.flags[t] = 2
  <2>1. r = [s EXCEPT !.lv_change = 1]
    BY <1>2 DEF TaskRun, Awaken, SAME
  <2>2. r = Moved(s, s.now_lv, 1) BY <1>0, <2>1 DEF Ctl, Moved
  <2>3. /\ r \in Ctl
        /\ r.flags = s.flags /\ r.level = s.level /\ r.running = s.running
        /\ r.now = s.now /\ r.tasks = s.tasks /\ r.now_lv = s.now_lv /\ r.lv_change = 1
    BY <1>0, <1>1, <2>2, LevelFields
  <2>4. Sound(r) BY <1>0, <2>3, SoundFrame
  <2>5. Stable(r) BY <1>0, <2>3, <2>4 DEF Stable
  <2>6. TaskNow(r) = TaskNow(s) BY <2>3 DEF TaskNow
  <2>7. Steady(r) BY <2>3, <2>5, <2>6 DEF Steady
  <2>8. s.flags = [s.flags EXCEPT ![t] = 2] BY <1>1, <1>2
  <2>9. Extends(s, r) BY <1>0, <2>3, Fields DEF Extends
  <2> QED BY <2>3, <2>6, <2>7, <2>8, <2>9
<1>3. CASE s.flags[t] # 2
  <2>1. [s EXCEPT !.level[t] = s.level[t]] = s
    BY <1>0, <1>1 DEF Ctl
  <2>2. r = Added(s, t)
    BY <1>3, <2>1 DEF TaskRun, Awaken, SAME, Added
  <2> QED BY <1>0, <1>3, <2>2, AddSteady, AddStable
<1> QED BY <1>2, <1>3

\* The current task is one of the current level, or task_a, whose entry
\* task_now still reads at level 0.
LEMMA CurrentLevel ==
    ASSUME NEW s, Steady(s)
    PROVE  \/ s.now_lv = 0 /\ TaskNow(s) = TASK_A
           \/ s.now_lv # 0 /\ s.level[TaskNow(s)] = s.now_lv
<1>1. Sound(s) BY DEF Steady, Stable
<1>2. s.now_lv \in Levels /\ s.now \in [Levels -> Nat] /\ s.running \in [Levels -> Nat]
  BY <1>1, Fields
<1>3. CASE s.now_lv = 0
  BY <1>3 DEF Steady, Stable, TaskNow
<1>4. CASE s.now_lv # 0
  <2>1. s.now[s.now_lv] \in 0 .. (s.running[s.now_lv] - 1)
    BY <1>2, <1>4 DEF Steady
  <2> QED BY <1>1, <1>2, <1>4, <2>1 DEF Sound, Entries, TaskNow
<1> QED BY <1>3, <1>4

\* A task that does not run changes its flags or level outside the queues.
LEMMA AsleepSteady ==
    ASSUME NEW s, Steady(s), NEW t \in Tasks \ {IDLE}, s.flags[t] # 2,
           NEW r \in Ctl,
           r.running = s.running, r.tasks = s.tasks, r.now = s.now,
           r.now_lv = s.now_lv, r.lv_change = s.lv_change, r.flags[t] # 2,
           \A u \in Tasks \ {t} : r.flags[u] = s.flags[u] /\ r.level[u] = s.level[u]
    PROVE  Steady(r) /\ TaskNow(r) = TaskNow(s)
<1>1. Sound(r) BY AsleepSound DEF Steady, Stable
<1>2. IDLE \in Tasks \ {t} BY Constants
<1>3. Stable(r) BY <1>1, <1>2 DEF Steady, Stable
<1>4. TaskNow(r) = TaskNow(s) BY DEF TaskNow
<1>5. TaskNow(r) \in Tasks \ {t} BY <1>4 DEF Steady
<1>6. r.flags[TaskNow(r)] = 2 BY <1>4, <1>5 DEF Steady
<1> QED BY <1>3, <1>4, <1>5, <1>6 DEF Steady, Top

\* task_run of a task just allocated, at level 2.
Allocated(s, t) == [s EXCEPT !.flags[t] = 1]
Placed(s, t) == [s EXCEPT !.flags[t] = 1, !.level[t] = 2]

LEMMA PlacedFields ==
    ASSUME NEW s, s \in Ctl, NEW t \in Tasks, NEW r, r = Placed(s, t)
    PROVE  /\ r \in Ctl
           /\ r.flags = [s.flags EXCEPT ![t] = 1] /\ r.level = [s.level EXCEPT ![t] = 2]
           /\ r.running = s.running /\ r.now = s.now /\ r.tasks = s.tasks
           /\ r.now_lv = s.now_lv /\ r.lv_change = s.lv_change
<1>1. r = [flags |-> [s.flags EXCEPT ![t] = 1], level |-> [s.level EXCEPT ![t] = 2],
           running |-> s.running, now |-> s.now, tasks |-> s.tasks,
           now_lv |-> s.now_lv, lv_change |-> s.lv_change]
  BY DEF Ctl, Placed
<1> QED BY <1>1, Constants DEF Ctl

LEMMA OpenSteady ==
    ASSUME NEW s, Steady(s), NEW t \in Tasks \ {IDLE}, s.flags[t] = 0,
           NEW r, r = TaskRun(Allocated(s, t), t, 2), Few(r) \/ Within(r)
    PROVE  /\ Steady(r) /\ TaskNow(r) = TaskNow(s) /\ Extends(s, r)
           /\ r.flags = [s.flags EXCEPT ![t] = 2] /\ r.level = [s.level EXCEPT ![t] = 2]
<1> DEFINE p == Placed(s, t)
<1>1. s \in Ctl BY DEF Steady, Stable, Sound
<1>2. /\ p \in Ctl
      /\ p.flags = [s.flags EXCEPT ![t] = 1] /\ p.level = [s.level EXCEPT ![t] = 2]
      /\ p.running = s.running /\ p.now = s.now /\ p.tasks = s.tasks
      /\ p.now_lv = s.now_lv /\ p.lv_change = s.lv_change
  <2> HIDE DEF p
  <2> QED BY <1>1, PlacedFields DEF p
<1>3. s.flags \in [Tasks -> 0 .. 2] /\ s.level \in [Tasks -> Levels]
  BY Fields DEF Steady, Stable
<1>4. r = Added(p, t)
  <2>1. Allocated(s, t).flags[t] = 1 BY <1>1, <1>3 DEF Ctl, Allocated
  <2>2. [Allocated(s, t) EXCEPT !.level[t] = 2] = p
    BY <1>1 DEF Ctl, Allocated, Placed
  <2>3. p.flags[t] = 1 BY <1>2, <1>3
  <2> HIDE DEF p
  <2> QED BY <2>1, <2>2, <2>3 DEF TaskRun, Awaken, Added
<1> HIDE DEF p
<1>5. p.flags[t] = 1 /\ p.level[t] = 2 BY <1>2, <1>3
<1>6. Steady(p) /\ TaskNow(p) = TaskNow(s)
  <2>1. \A u \in Tasks \ {t} : p.flags[u] = s.flags[u] /\ p.level[u] = s.level[u]
    BY <1>2, <1>3
  <2>2. p.flags[t] # 2 /\ s.flags[t] # 2 BY <1>5
  <2>3. /\ p \in Ctl /\ p.running = s.running /\ p.now = s.now /\ p.tasks = s.tasks
        /\ p.now_lv = s.now_lv /\ p.lv_change = s.lv_change
    BY <1>2
  <2> QED BY <2>1, <2>2, <2>3, AsleepSteady
<1>7. Steady(r) /\ TaskNow(r) = TaskNow(p) /\ Extends(p, r)
  BY <1>4, <1>5, <1>6, AddSteady
<1>8. r.flags = [p.flags EXCEPT ![t] = 2] /\ r.level = p.level
  BY SMTT(60), <1>4, <1>5, <1>6, AddStable DEF Steady
<1>9. r.flags = [s.flags EXCEPT ![t] = 2] BY <1>2, <1>3, <1>8
<1>10. Extends(s, r) BY <1>2, <1>7 DEF Extends
<1> QED BY <1>2, <1>6, <1>7, <1>8, <1>9, <1>10

\* task_switch keeps every index inside its queue.
LEMMA AdvanceSteady ==
    ASSUME NEW s, Steady(s), NEW r, r = Advance(s)
    PROVE  /\ Stable(r) /\ r.flags = s.flags /\ r.level = s.level
           /\ r.running = s.running
           /\ s.lv_change = 0 => Steady(r)
<1>1. Stable(s) /\ Sound(s) /\ s \in Ctl BY DEF Steady, Stable, Sound
<1>2. /\ s.flags \in [Tasks -> 0 .. 2] /\ s.level \in [Tasks -> Levels]
      /\ s.running \in [Levels -> Nat] /\ s.now \in [Levels -> Nat]
      /\ s.tasks \in [Levels -> [0 .. (MAX_TASKS_LV - 1) -> Tasks \cup {NoTask}]]
      /\ s.now_lv \in Levels /\ s.lv_change \in 0 .. 1
  BY <1>1, Fields
<1> DEFINE l == s.now_lv
           m == IF s.now[l] + 1 = s.running[l] THEN 0 ELSE s.now[l] + 1
<1>3. m \in Nat BY <1>2
<1>4. r = [flags |-> s.flags, level |-> s.level, running |-> s.running,
           now |-> [s.now EXCEPT ![l] = m], tasks |-> s.tasks,
           now_lv |-> s.now_lv, lv_change |-> s.lv_change]
  BY <1>1 DEF Advance, Ctl
<1>5. r \in Ctl BY <1>2, <1>3, <1>4 DEF Ctl
<1>6. /\ r.flags = s.flags /\ r.level = s.level /\ r.running = s.running
      /\ r.tasks = s.tasks /\ r.now_lv = l /\ r.lv_change = s.lv_change
      /\ r.now[l] = m /\ \A k \in Levels \ {l} : r.now[k] = s.now[k]
  BY <1>2, <1>4
<1>7. Sound(r) BY <1>1, <1>5, <1>6, SoundFrame
<1>8. l # 0 => (m = 0 \/ m < s.running[l])
  BY <1>2 DEF Steady
<1>9. l = 0 => (s.now[0] = 0 /\ (s.running[0] = 1 => m = 0))
  BY <1>2 DEF Steady
<1> HIDE DEF m
<1>10. Stable(r)
  <2>1. r.running[0] = 0 \/ (r.running[0] = 1 /\ r.now[0] = 0)
    BY <1>1, <1>2, <1>6, <1>9, Constants DEF Stable
  <2>2. \A k \in Levels \ {0} : r.now[k] = 0 \/ r.now[k] < r.running[k]
    BY <1>1, <1>6, <1>8 DEF Stable
  <2> QED BY <1>1, <1>6, <1>7, <2>1, <2>2 DEF Stable
<1>11. ASSUME s.lv_change = 0 PROVE Steady(r)
  <2>1. s.running[l] > 0 BY <1>11 DEF Steady, Top
  <2>2. l = 0 => m = 0 BY <1>1, <1>2, <1>9, <2>1 DEF Stable
  <2>3. m \in 0 .. (s.running[l] - 1) BY <1>2, <1>3, <1>8, <2>1, <2>2
  <2>4. TaskNow(r) = s.tasks[l][m] BY <1>6 DEF TaskNow
  <2>5. TaskNow(r) \in Tasks /\ r.flags[TaskNow(r)] = 2
    BY <1>1, <1>2, <1>6, <2>3, <2>4 DEF Sound, Entries
  <2>6. r.now_lv # 0 => r.now[r.now_lv] < r.running[r.now_lv]
    BY <1>2, <1>3, <1>6, <2>3
  <2>7. Top(r, r.now_lv) BY <1>6, <1>11 DEF Steady, Top
  <2> QED BY <1>6, <1>10, <2>2, <2>5, <2>6, <2>7 DEF Steady
<1> QED BY <1>6, <1>10, <1>11

LEMMA TaskSwitchSteady ==
    ASSUME NEW s, Steady(s), NEW r, r = TaskSwitch(s)
    PROVE  Steady(r) /\ r.flags = s.flags /\ r.level = s.level
<1>1. /\ Stable(Advance(s)) /\ Advance(s).flags = s.flags /\ Advance(s).level = s.level
      /\ s.lv_change = 0 => Steady(Advance(s))
  BY AdvanceSteady
<1>2. CASE s.lv_change # 0 BY <1>1, <1>2, SwitchSteady DEF TaskSwitch
<1>3. CASE s.lv_change = 0 BY <1>1, <1>3 DEF TaskSwitch
<1> QED BY <1>2, <1>3

\* HariMain moves itself from level 0 to level 1: task_now still reads its old
\* entry, which task_remove leaves in place.
Lowered(s) == [s EXCEPT !.level[TASK_A] = 1]

LEMMA BootSteady ==
    ASSUME NEW s, Steady(s), s.flags[TASK_A] = 2, s.level[TASK_A] = 0, s.now_lv = 0,
           NEW r, r = TaskRun(s, TASK_A, 1), Few(r) \/ Within(r)
    PROVE  /\ Steady(r) /\ TaskNow(r) = TASK_A
           /\ r.flags = s.flags /\ r.level = [s.level EXCEPT ![TASK_A] = 1]
<1> DEFINE q == TaskRemove(s, TASK_A)
           p == Lowered(q)
<1>1. Stable(s) /\ TASK_A \in Tasks \ {IDLE}
  BY Constants DEF Steady, TASK_A, IDLE
<1>2. /\ s.flags \in [Tasks -> 0 .. 2] /\ s.level \in [Tasks -> Levels]
  BY <1>1, Fields DEF Stable
<1>3. /\ Stable(q) /\ q.flags = [s.flags EXCEPT ![TASK_A] = 1] /\ q.level = s.level
      /\ q.running[0] = 0 /\ q.now[0] = 0 /\ q.now_lv = 0
  <2>1. /\ Stable(q) /\ q.now_lv = s.now_lv
        /\ s.level[TASK_A] = 0 => (q.running[0] = 0 /\ q.now[0] = 0)
    BY <1>1, RemoveStable
  <2>2. q.flags = [s.flags EXCEPT ![TASK_A] = 1] /\ q.level = s.level
    BY <1>1, RemoveSound DEF Stable
  <2> QED BY <2>1, <2>2
<1> HIDE DEF q
<1>4. q \in Ctl BY <1>3 DEF Stable, Sound
<1>5. /\ p \in Ctl /\ p.flags = q.flags /\ p.level = [s.level EXCEPT ![TASK_A] = 1]
      /\ p.running = q.running /\ p.now = q.now /\ p.tasks = q.tasks
      /\ p.now_lv = q.now_lv
  <2> DEFINE e == [flags |-> q.flags, level |-> [q.level EXCEPT ![TASK_A] = 1],
                   running |-> q.running, now |-> q.now, tasks |-> q.tasks,
                   now_lv |-> q.now_lv, lv_change |-> q.lv_change]
  <2>0. p = Lowered(q) OBVIOUS
  <2> HIDE DEF p
  <2>1. p = e BY <1>4, <2>0 DEF Ctl, Lowered
  <2> QED BY <1>3, <1>4, <2>1, Constants DEF Ctl
<1>6. r = Added(p, TASK_A)
  <2>1. p.flags[TASK_A] = 1 BY <1>1, <1>2, <1>3, <1>5
  <2> QED BY <2>1 DEF TaskRun, Awaken, Added, Lowered, q
<1> HIDE DEF p
<1>7. /\ q.flags[TASK_A] = 1 /\ p.flags[TASK_A] = 1 /\ p.level[TASK_A] = 1
      /\ \A u \in Tasks \ {TASK_A} : p.flags[u] = q.flags[u] /\ p.level[u] = q.level[u]
  BY <1>1, <1>2, <1>3, <1>5
<1>8. Stable(p)
  <2>1. q.flags[TASK_A] # 2 /\ p.flags[TASK_A] # 2 /\ Sound(q) BY <1>3, <1>7 DEF Stable
  <2>2. p \in Ctl /\ p.running = q.running /\ p.tasks = q.tasks /\ TASK_A \in Tasks
    BY <1>1, <1>5
  <2>4. \A u \in Tasks \ {TASK_A} : p.flags[u] = q.flags[u] /\ p.level[u] = q.level[u]
    BY <1>7
  <2>5. Sound(p) BY <2>1, <2>2, <2>4, AsleepSound
  <2>3. IDLE \in Tasks \ {TASK_A} BY <1>1, Constants
  <2> QED BY <1>3, <1>5, <1>7, <2>5, <2>3 DEF Stable
<1>9. /\ Stable(r)
      /\ r.flags = [p.flags EXCEPT ![TASK_A] = 2] /\ r.level = p.level
      /\ r.now = p.now /\ r.now_lv = p.now_lv /\ r.lv_change = 1
      /\ r.tasks[0][0] = p.tasks[0][0]
  <2>1. p.flags[TASK_A] # 2 /\ p.level[TASK_A] # 0 BY <1>7
  <2>2. Stable(r) /\ r.flags = [p.flags EXCEPT ![TASK_A] = 2] /\ r.level = p.level
        /\ r.now_lv = p.now_lv /\ r.lv_change = 1 /\ Extends(p, r)
    BY <1>1, <1>6, <1>8, <2>1, AddStable
  <2> QED BY <2>2, Constants DEF Extends
<1>10. TaskNow(r) = TASK_A BY <1>3, <1>5, <1>8, <1>9 DEF TaskNow, Stable
<1>11. r.flags = s.flags BY <1>1, <1>2, <1>3, <1>5, <1>9
<1>12. TaskNow(r) \in Tasks /\ r.flags[TaskNow(r)] = 2 BY <1>1, <1>10, <1>11
<1> QED BY <1>3, <1>5, <1>9, <1>10, <1>11, <1>12 DEF Steady

\* close_constask of a task that is not the current one.
Freed(s, t) == [s EXCEPT !.flags[t] = 0]

LEMMA CloseSteady ==
    ASSUME NEW s, Steady(s), NEW t \in Tasks \ {IDLE}, t # TaskNow(s),
           s.flags[t] = 2 => s.level[t] # s.now_lv,
           NEW r, r = Freed(TaskSleep(s, t), t)
    PROVE  /\ Steady(r) /\ TaskNow(r) = TaskNow(s)
           /\ r.flags = [s.flags EXCEPT ![t] = 0] /\ r.level = s.level
<1> DEFINE p == TaskSleep(s, t)
<1>1. /\ Steady(p) /\ TaskNow(p) = TaskNow(s) /\ p.level = s.level
      /\ p.flags = [s.flags EXCEPT ![t] = IF s.flags[t] = 2 THEN 1 ELSE @]
  BY SleepSteady DEF GivesUp
<1> HIDE DEF p
<1>2. p \in Ctl BY <1>1 DEF Steady, Stable, Sound
<1>3. s.flags \in [Tasks -> 0 .. 2] /\ s.level \in [Tasks -> Levels]
  BY Fields DEF Steady, Stable
<1>4. p.flags \in [Tasks -> 0 .. 2] BY <1>1, <1>3
<1>5. r = Freed(p, t) BY DEF p
<1>6. /\ r \in Ctl /\ r.flags = [p.flags EXCEPT ![t] = 0] /\ r.level = p.level
      /\ r.running = p.running /\ r.now = p.now /\ r.tasks = p.tasks
      /\ r.now_lv = p.now_lv /\ r.lv_change = p.lv_change
  <2>1. r = [flags |-> [p.flags EXCEPT ![t] = 0], level |-> p.level,
             running |-> p.running, now |-> p.now, tasks |-> p.tasks,
             now_lv |-> p.now_lv, lv_change |-> p.lv_change]
    BY <1>2, <1>5 DEF Ctl, Freed
  <2> QED BY <1>2, <2>1 DEF Ctl
<1>7. r.flags = [s.flags EXCEPT ![t] = 0] BY <1>1, <1>3, <1>6
<1>8. /\ p.flags[t] # 2 /\ r.flags[t] # 2
      /\ \A u \in Tasks \ {t} : r.flags[u] = p.flags[u] /\ r.level[u] = p.level[u]
  BY <1>1, <1>3, <1>4, <1>6
<1>9. Steady(r) /\ TaskNow(r) = TaskNow(p) BY <1>1, <1>6, <1>8, AsleepSteady
<1> QED BY <1>1, <1>6, <1>7, <1>9
-----------------------------------------------------------------------------
(* The inductive invariant *)

Scheduler == Steady(ctl) /\ TaskNow(ctl) = cpu

\* Only task_a is sent exit messages.
Fifos ==
    /\ fifo \in [Tasks -> Seq({Input} \cup Consoles)]
    /\ \A t \in Tasks : Len(fifo[t]) <= FIFO_SIZE
    /\ \A t \in Tasks \ {TASK_A} : fifo[t] \in Seq({Input})

Places ==
    /\ pc \in [Tasks -> Labels] /\ victim \in Tasks
    /\ pc[IDLE] = "idle"
    /\ pc[TASK_A] \in {"boot", "boot console", "loop", "busy", "close"}
    /\ pc[TASK_A] = "close" => victim \in Consoles
    /\ \A u \in Consoles : pc[u] \in {"none", "start", "loop", "busy", "exit"}

\* A task is asleep at the level it will be woken at.
Slots ==
    /\ ctl.flags[TASK_A] # 0
    /\ pc[TASK_A] = "boot" => ctl.flags[TASK_A] = 2 /\ ctl.level[TASK_A] = 0
    /\ pc[TASK_A] # "boot" => ctl.level[TASK_A] = 1
    /\ \A u \in Consoles :
          /\ ctl.flags[u] = 0 <=> pc[u] = "none"
          /\ ctl.flags[u] # 0 => ctl.level[u] = 2

Base == Scheduler /\ Fifos /\ Places /\ Slots

LEMMA Split == /\ Tasks = {TASK_A, IDLE} \cup Consoles
               /\ TASK_A # IDLE /\ TASK_A \notin Consoles /\ IDLE \notin Consoles
               /\ Input \notin Consoles
BY MTaskAssumption DEF Tasks, TASK_A, IDLE, Consoles, Input

LEMMA BaseTypes ==
    ASSUME Base
    PROVE  /\ ctl \in Ctl /\ cpu \in Tasks /\ ctl.flags[cpu] = 2
           /\ ctl.flags \in [Tasks -> 0 .. 2] /\ ctl.level \in [Tasks -> Levels]
<1>1. ctl \in Ctl BY DEF Base, Scheduler, Steady, Stable, Sound
<1> QED BY <1>1 DEF Base, Scheduler, Steady, Ctl

\* Waking a live task, or running it at its own level.
LEMMA RunLive ==
    ASSUME Few(ctl') \/ Fits', Base, NEW t \in Live, ctl' = TaskRun(ctl, t, SAME), UNCHANGED cpu
    PROVE  /\ Scheduler' /\ Extends(ctl, ctl')
           /\ ctl'.flags = [ctl.flags EXCEPT ![t] = 2] /\ ctl'.level = ctl.level
<1>1. t \in Tasks /\ t # IDLE BY DEF Live, Base, Places
<1>2. ctl.flags[t] # 2 => ctl.level[t] # 0
  <2>1. CASE t = TASK_A BY <2>1 DEF Base, Slots
  <2>2. CASE t \in Consoles
    <3>1. ctl.flags[t] # 0 BY <2>2 DEF Live, Base, Slots
    <3> QED BY <2>2, <3>1 DEF Base, Slots
  <2> QED BY <1>1, <2>1, <2>2, Split
<1>3. Few(ctl') \/ Within(ctl') BY DEF Fits, Within
<1>4. /\ Steady(ctl') /\ TaskNow(ctl') = TaskNow(ctl) /\ Extends(ctl, ctl')
      /\ ctl'.flags = [ctl.flags EXCEPT ![t] = 2] /\ ctl'.level = ctl.level
  BY <1>1, <1>2, <1>3, RunSteady DEF Base, Scheduler
<1> QED BY <1>4 DEF Base, Scheduler

\* fifo32_put: an event is dropped, or the reader has it and is awake.
LEMMA PutLive ==
    ASSUME Few(ctl') \/ Fits', Base, NEW t \in Live, NEW e \in {Input} \cup Consoles,
           e = Input \/ t = TASK_A, FifoPut(t, e), UNCHANGED cpu
    PROVE  /\ Scheduler' /\ Fifos' /\ ctl'.level = ctl.level /\ Extends(ctl, ctl')
           /\ \/ fifo' = fifo /\ ctl'.flags = ctl.flags
              \/ /\ fifo' = [fifo EXCEPT ![t] = Append(@, e)]
                 /\ ctl'.flags = [ctl.flags EXCEPT ![t] = 2]
<1>1. t \in Tasks BY DEF Live
<1>4. Extends(ctl, ctl)
  BY Fields DEF Base, Scheduler, Steady, Stable, Extends
<1>2. CASE Full(fifo, t)
  BY <1>2, <1>4 DEF FifoPut, Base, Scheduler, Fifos
<1>3. CASE ~Full(fifo, t)
  <2>1. fifo' = [fifo EXCEPT ![t] = Append(@, e)] BY <1>3 DEF FifoPut
  <2>2. /\ fifo \in [Tasks -> Seq({Input} \cup Consoles)]
        /\ \A u \in Tasks : Len(fifo[u]) <= FIFO_SIZE
        /\ \A u \in Tasks \ {TASK_A} : fifo[u] \in Seq({Input})
    BY DEF Base, Fifos
  <2>3. Fifos'
    <3>1. Len(fifo[t]) \in Nat /\ Len(fifo[t]) <= FIFO_SIZE /\ Len(fifo[t]) # FIFO_SIZE
      BY <1>1, <1>3, <2>2 DEF Full
    <3>2. /\ Append(fifo[t], e) \in Seq({Input} \cup Consoles)
          /\ Len(Append(fifo[t], e)) = Len(fifo[t]) + 1
      BY <1>1, <2>2
    <3>3. t # TASK_A => Append(fifo[t], e) \in Seq({Input})
      BY <1>1, <2>2
    <3>4. Len(Append(fifo[t], e)) <= FIFO_SIZE
      BY <3>1, <3>2, MTaskAssumption
    <3>5. \A u \in Tasks : fifo'[u] = IF u = t THEN Append(fifo[t], e) ELSE fifo[u]
      BY <2>1, <2>2
    <3>6. fifo' \in [Tasks -> Seq({Input} \cup Consoles)]
      BY <1>1, <2>1, <2>2, <3>2
    <3> QED BY <2>2, <3>3, <3>4, <3>5, <3>6 DEF Fifos
  <2>4. CASE ctl.flags[t] # 2
    <3>1. ctl' = TaskRun(ctl, t, SAME) BY <1>3, <2>4 DEF FifoPut
    <3> QED BY <2>1, <2>3, <3>1, RunLive
  <2>5. CASE ctl.flags[t] = 2
    <3>1. ctl' = ctl BY <1>3, <2>5 DEF FifoPut
    <3>2. ctl.flags = [ctl.flags EXCEPT ![t] = 2] BY <1>1, <2>5, BaseTypes
    <3> QED BY <1>4, <2>1, <2>3, <3>1, <3>2 DEF Base, Scheduler
  <2> QED BY <2>4, <2>5
<1> QED BY <1>2, <1>3

\* A task that puts itself to sleep hands the processor to the task that
\* task_switchsub picks.
LEMMA SleepSelf ==
    ASSUME Base, NEW t \in Tasks \ {IDLE}, cpu = t, ctl' = TaskSleep(ctl, t),
           cpu' = IF GivesUp(ctl, t) THEN TaskNow(ctl') ELSE cpu
    PROVE  /\ Scheduler'
           /\ ctl'.flags = [ctl.flags EXCEPT ![t] = 1] /\ ctl'.level = ctl.level
<1>1. ctl.flags[t] = 2 /\ GivesUp(ctl, t)
  BY BaseTypes DEF GivesUp, Base, Scheduler
<1>2. /\ Steady(TaskSleep(ctl, t)) /\ TaskSleep(ctl, t).level = ctl.level
      /\ TaskSleep(ctl, t).flags = [ctl.flags EXCEPT ![t] = IF ctl.flags[t] = 2 THEN 1 ELSE @]
  BY SleepSteady DEF Base, Scheduler
<1> QED BY <1>1, <1>2 DEF Scheduler

\* The waking of a live task keeps Slots, if pc keeps what Slots says of it.
LEMMA SlotsWoken ==
    ASSUME Base, ctl'.level = ctl.level,
           \/ ctl'.flags = ctl.flags
           \/ \E t \in Live : ctl'.flags = [ctl.flags EXCEPT ![t] = 2],
           pc'[TASK_A] = "boot" <=> pc[TASK_A] = "boot",
           \A u \in Consoles : pc'[u] = "none" <=> pc[u] = "none"
    PROVE  Slots'
<1>1. \A t \in Tasks : (ctl'.flags[t] = ctl.flags[t] \/ ctl'.flags[t] = 2)
  BY BaseTypes DEF Live
<1>2. \A t \in Tasks : ctl'.flags[t] = 0 <=> ctl.flags[t] = 0
  <2>1. CASE ctl'.flags = ctl.flags BY <2>1
  <2>2. CASE \E t \in Live : ctl'.flags = [ctl.flags EXCEPT ![t] = 2]
    <3>1. PICK t \in Live : ctl'.flags = [ctl.flags EXCEPT ![t] = 2] BY <2>2
    <3>2. ctl.flags[t] # 0
      BY Split DEF Live, Base, Slots, Places
    <3> QED BY <3>1, <3>2, BaseTypes DEF Live
  <2> QED BY <2>1, <2>2
<1> QED BY <1>1, <1>2, Split DEF Base, Slots

\* NoLostWakeup, if each task that sleeps did so before, or may.
LEMMA WakeupKept ==
    ASSUME NoLostWakeup,
           \A t \in Tasks :
              \/ ctl'.flags[t] # 1 \/ pc'[t] \in {"none", "idle", "exit"}
              \/ pc'[t] = "loop" /\ fifo'[t] = <<>>
              \/ ctl.flags[t] = 1 /\ pc'[t] = pc[t] /\ fifo'[t] = fifo[t]
    PROVE  NoLostWakeup'
<1> SUFFICES ASSUME NEW t \in Tasks, pc'[t] \notin {"none", "idle", "exit"}, ctl'.flags[t] = 1
             PROVE  pc'[t] = "loop" /\ fifo'[t] = <<>>
  BY DEF NoLostWakeup, Live
<1> QED BY DEF NoLostWakeup, Live

\* A console's exit message is sent once, and the console waits for its end.
Messages ==
    /\ \A u \in Consoles : Pending(u) \/ victim = u => pc[u] = "exit"
    /\ \A u \in Consoles : ~(Pending(u) /\ victim = u)
    /\ \A i, j \in 1 .. Len(fifo[TASK_A]) :
          fifo[TASK_A][i] = fifo[TASK_A][j] /\ fifo[TASK_A][i] \in Consoles => i = j

LEMMA MessagesKept ==
    ASSUME Messages, fifo'[TASK_A] = fifo[TASK_A], victim' = victim,
           \A u \in Consoles : pc[u] = "exit" => pc'[u] = "exit"
    PROVE  Messages'
BY DEF Messages, Pending

\* Another event for task_a, or a console's message, if it has sent none.
LEMMA MessagesPut ==
    ASSUME Base, Messages, NEW e \in {Input} \cup Consoles, victim' = victim,
           \/ fifo'[TASK_A] = fifo[TASK_A]
           \/ fifo'[TASK_A] = Append(fifo[TASK_A], e),
           \A u \in Consoles : pc[u] = "exit" => pc'[u] = "exit",
           e \in Consoles => (pc[e] # "exit" /\ pc'[e] = "exit")
    PROVE  Messages'
<1> DEFINE q == fifo[TASK_A]
<1>1. CASE fifo'[TASK_A] = q BY <1>1, MessagesKept
<1>2. CASE fifo'[TASK_A] = Append(q, e)
  <2>1. q \in Seq({Input} \cup Consoles) BY Split DEF Base, Fifos
  <2>2. /\ Len(q) \in Nat /\ Len(fifo'[TASK_A]) = Len(q) + 1
        /\ \A k \in 1 .. Len(q) : fifo'[TASK_A][k] = q[k]
        /\ fifo'[TASK_A][Len(q) + 1] = e
    BY <1>2, <2>1, AppendProperties
  <2>3. \A u \in Consoles : Pending(u)' <=> (Pending(u) \/ u = e)
    <3> SUFFICES ASSUME NEW u \in Consoles PROVE Pending(u)' <=> (Pending(u) \/ u = e)
      OBVIOUS
    <3>1. ASSUME NEW k \in 1 .. Len(fifo'[TASK_A]), fifo'[TASK_A][k] = u
          PROVE  Pending(u) \/ u = e
      BY SMTT(60), <2>2, <3>1 DEF Pending
    <3>2. Pending(u) => Pending(u)'
      <4> SUFFICES ASSUME NEW k \in 1 .. Len(q), q[k] = u PROVE Pending(u)' BY DEF Pending
      <4>1. k \in 1 .. Len(fifo'[TASK_A]) /\ fifo'[TASK_A][k] = u BY <2>2
      <4> QED BY <4>1 DEF Pending
    <3>3. u = e => Pending(u)'
      <4>1. Len(q) + 1 \in 1 .. Len(fifo'[TASK_A]) BY <2>2
      <4> QED BY <2>2, <4>1 DEF Pending
    <3> QED BY <3>1, <3>2, <3>3 DEF Pending
  <2>4. e \in Consoles => (~Pending(e) /\ victim # e) BY DEF Messages
  <2>5. \A k \in 1 .. Len(q) : (q[k] \in Consoles => q[k] # e)
    BY <2>4 DEF Pending
  <2>6. \A i, j \in 1 .. Len(fifo'[TASK_A]) :
            fifo'[TASK_A][i] = fifo'[TASK_A][j] /\ fifo'[TASK_A][i] \in Consoles => i = j
    <3> SUFFICES ASSUME NEW i \in 1 .. Len(fifo'[TASK_A]), NEW j \in 1 .. Len(fifo'[TASK_A]),
                        fifo'[TASK_A][i] = fifo'[TASK_A][j], fifo'[TASK_A][i] \in Consoles
                 PROVE  i = j
      OBVIOUS
    <3>1. CASE i \in 1 .. Len(q) /\ j \in 1 .. Len(q)
      BY <2>2, <3>1 DEF Messages
    <3>2. CASE ~(i \in 1 .. Len(q) /\ j \in 1 .. Len(q))
      BY SMTT(60), <2>2, <2>5, <3>2
    <3> QED BY <3>1, <3>2
  <2> QED BY <2>3, <2>4, <2>6 DEF Messages
<1> QED BY <1>1, <1>2

\* task_a takes an event: a message becomes the console to close.
LEMMA MessagesTaken ==
    ASSUME Base, Messages, fifo[TASK_A] # <<>>, fifo'[TASK_A] = Tail(fifo[TASK_A]),
           \/ Head(fifo[TASK_A]) = Input /\ victim' = victim
           \/ victim' = Head(fifo[TASK_A]),
           \A u \in Consoles : pc'[u] = pc[u]
    PROVE  Messages'
<1> DEFINE q == fifo[TASK_A]
<1>1. q \in Seq({Input} \cup Consoles) BY Split DEF Base, Fifos
<1>2. /\ Len(q) \in Nat /\ 1 \in 1 .. Len(q) /\ Head(q) = q[1]
      /\ Len(fifo'[TASK_A]) = Len(q) - 1
      /\ \A k \in 1 .. (Len(q) - 1) : fifo'[TASK_A][k] = q[k + 1] /\ k + 1 \in 1 .. Len(q)
  BY <1>1, HeadTailProperties
<1>3. \A u \in Consoles : (victim' = u => (victim = u \/ q[1] = u))
  BY <1>2, Split
<1>4. ASSUME NEW u \in Consoles, Pending(u)'
      PROVE  \E k \in 2 .. Len(q) : q[k] = u
  <2>1. PICK k \in 1 .. (Len(q) - 1) : q[k + 1] = u BY <1>2, <1>4 DEF Pending
  <2>2. k + 1 \in 2 .. Len(q) BY <1>2
  <2> QED BY <2>1, <2>2
<1>5. ASSUME NEW u \in Consoles, Pending(u)'
      PROVE  Pending(u) /\ q[1] # u
  <2>1. PICK k \in 2 .. Len(q) : q[k] = u BY <1>4, <1>5
  <2>2. k \in 1 .. Len(q) /\ k # 1 BY <1>2
  <2> QED BY <1>2, <2>1, <2>2 DEF Messages, Pending
<1>6. \A u \in Consoles : q[1] = u => Pending(u) BY <1>2 DEF Pending
<1>7. \A i, j \in 1 .. Len(fifo'[TASK_A]) :
          fifo'[TASK_A][i] = fifo'[TASK_A][j] /\ fifo'[TASK_A][i] \in Consoles => i = j
  <2> SUFFICES ASSUME NEW i \in 1 .. (Len(q) - 1), NEW j \in 1 .. (Len(q) - 1),
                      q[i + 1] = q[j + 1], q[i + 1] \in Consoles
               PROVE  i = j
    BY <1>2
  <2>1. i + 1 \in 1 .. Len(q) /\ j + 1 \in 1 .. Len(q) BY <1>2
  <2>2. i + 1 = j + 1 BY <2>1 DEF Messages
  <2> QED BY <2>2
<1> QED BY <1>3, <1>5, <1>6, <1>7 DEF Messages

IInv == Base /\ NoLostWakeup /\ Messages

LEMMA InvInit == Init => IInv
<1> SUFFICES ASSUME Init PROVE IInv OBVIOUS
<1>1. /\ ctl.flags = [t \in Tasks |-> IF t \in {TASK_A, IDLE} THEN 2 ELSE 0]
      /\ ctl.level = [t \in Tasks |-> IF t = IDLE THEN MAX_TASKLEVELS - 1 ELSE 0]
      /\ ctl.running = [l \in Levels |-> IF l \in {0, MAX_TASKLEVELS - 1} THEN 1 ELSE 0]
      /\ ctl.now = [l \in Levels |-> 0]
      /\ ctl.tasks = [l \in Levels |-> [k \in 0 .. (MAX_TASKS_LV - 1) |->
                        CASE l = 0 /\ k = 0 -> TASK_A
                          [] l = MAX_TASKLEVELS - 1 /\ k = 0 -> IDLE
                          [] OTHER -> NoTask]]
      /\ ctl.now_lv = 0 /\ ctl.lv_change = 1
      /\ cpu = TASK_A
  BY DEF Init
<1>2. 0 # LAST /\ LAST = MAX_TASKLEVELS - 1 /\ TASK_A # IDLE
  BY Constants, Split DEF LAST
<1>3. ctl \in Ctl
  <2> DEFINE f == ctl.flags
             v == ctl.level
             n == ctl.running
             w == ctl.now
             q == ctl.tasks
  <2>1. ctl = [flags |-> f, level |-> v, running |-> n, now |-> w, tasks |-> q,
               now_lv |-> 0, lv_change |-> 1]
    BY DEF Init
  <2>2. f \in [Tasks -> 0 .. 2] BY <1>1
  <2>3. v \in [Tasks -> Levels] BY <1>1, <1>2, Constants
  <2>4. n \in [Levels -> Nat] /\ w \in [Levels -> Nat] BY <1>1
  <2>5. q \in [Levels -> [0 .. (MAX_TASKS_LV - 1) -> Tasks \cup {NoTask}]]
    BY <1>1, Constants
  <2>6. 0 \in Levels /\ 1 \in 0 .. 1 BY Constants
  <2> HIDE DEF f, v, n, w, q
  <2> QED BY <2>1, <2>2, <2>3, <2>4, <2>5, <2>6 DEF Ctl
<1>4. /\ \A l \in Levels : ctl.running[l] = IF l \in {0, LAST} THEN 1 ELSE 0
      /\ ctl.tasks[0][0] = TASK_A /\ ctl.tasks[LAST][0] = IDLE
      /\ ctl.flags[TASK_A] = 2 /\ ctl.flags[IDLE] = 2
      /\ ctl.level[TASK_A] = 0 /\ ctl.level[IDLE] = LAST
      /\ ctl.now[0] = 0 /\ \A l \in Levels : ctl.now[l] = 0
      /\ \A u \in Consoles : ctl.flags[u] = 0 /\ ctl.level[u] = 0
  <2>1. \A u \in Consoles : u \in Tasks /\ u \notin {TASK_A, IDLE} BY Split
  <2> QED BY <1>1, <1>2, <2>1, Constants
<1>5. Sound(ctl)
  <2>1. ASSUME NEW l \in Levels, NEW k \in 0 .. (ctl.running[l] - 1)
        PROVE  k = 0 /\ l \in {0, LAST}
    BY <1>4, <2>1
  <2>2. \A l \in Levels : ctl.running[l] <= MAX_TASKS_LV
    BY <1>4, MTaskAssumption
  <2>3. Entries(ctl) BY <1>4, <2>1, Constants DEF Entries
  <2>4. Distinct(ctl) BY <2>1 DEF Distinct
  <2>5. Queued(ctl)
    <3> SUFFICES ASSUME NEW t \in Tasks, ctl.flags[t] = 2
                 PROVE  \E k \in 0 .. (ctl.running[ctl.level[t]] - 1) :
                            ctl.tasks[ctl.level[t]][k] = t
      BY DEF Queued
    <3>1. t \in {TASK_A, IDLE} BY <1>1
    <3>2. ctl.running[ctl.level[t]] = 1 /\ ctl.tasks[ctl.level[t]][0] = t
      BY <3>1, <1>4, Constants
    <3> QED BY <3>2
  <2> QED BY <1>3, <2>2, <2>3, <2>4, <2>5 DEF Sound
<1>6. Stable(ctl)
  BY <1>4, <1>5, Constants DEF Stable
<1>7. Scheduler
  BY <1>1, <1>4, <1>6, Constants DEF Steady, TaskNow, Scheduler
<1>8. Fifos
  <2>1. fifo = [t \in Tasks |-> <<>>] BY DEF Init
  <2> QED BY <2>1, MTaskAssumption DEF Fifos
<1>9. /\ pc[TASK_A] = "boot" /\ pc[IDLE] = "idle"
      /\ \A u \in Consoles : pc[u] = "none"
      /\ pc \in [Tasks -> Labels] /\ victim = IDLE
  BY Split DEF Init, Labels
<1>10. Places BY <1>9, Constants DEF Places
<1>11. Slots BY <1>4, <1>9 DEF Slots
<1>12. NoLostWakeup BY <1>1 DEF NoLostWakeup, Live
<1>13. Messages
  <2>1. fifo[TASK_A] = <<>> /\ Len(fifo[TASK_A]) = 0 BY Split DEF Init
  <2>2. 1 .. Len(fifo[TASK_A]) = {} BY <2>1
  <2> QED BY <1>9, <2>2, Split DEF Messages, Pending
<1> QED BY <1>7, <1>8, <1>10, <1>11, <1>12, <1>13 DEF Base, IInv

LEMMA InvStep == (Few(ctl') \/ Fits') /\ IInv /\ [Next]_vars => IInv'
<1> SUFFICES ASSUME Few(ctl') \/ Fits', Base, NoLostWakeup, Messages, [Next]_vars
             PROVE  Base' /\ NoLostWakeup' /\ Messages'
  BY DEF IInv
<1> USE Split
<1>11. Few(ctl') \/ Within(ctl') BY DEF Fits, Within
<1>0. CASE UNCHANGED vars
  BY <1>0 DEF vars, Base, Scheduler, Fifos, Places, Slots, NoLostWakeup, Live, Messages, Pending
<1>1. CASE Boot
  <2>1. /\ cpu = TASK_A /\ pc[TASK_A] = "boot" /\ ctl' = TaskRun(ctl, TASK_A, 1)
        /\ pc' = [pc EXCEPT ![TASK_A] = "boot console"]
        /\ UNCHANGED <<cpu, fifo, victim>>
    BY <1>1 DEF Boot, Goto
  <2>2. Steady(ctl) /\ ctl.flags[TASK_A] = 2 /\ ctl.level[TASK_A] = 0 /\ ctl.now_lv = 0
    BY ZenonT(60), <2>1, CurrentLevel DEF Base, Scheduler, Slots
  <2>3. /\ Steady(ctl') /\ TaskNow(ctl') = TASK_A
        /\ ctl'.flags = ctl.flags /\ ctl'.level = [ctl.level EXCEPT ![TASK_A] = 1]
    BY <1>11, <2>1, <2>2, BootSteady
  <2>4. Places' BY <2>1 DEF Base, Places, Labels
  <2>5. /\ pc'[TASK_A] = "boot console" /\ ctl'.level[TASK_A] = 1
        /\ \A u \in Consoles : pc'[u] = pc[u] /\ ctl'.level[u] = ctl.level[u]
    BY <2>1, <2>3, BaseTypes, Constants DEF Base, Places
  <2>6. Slots' BY ZenonT(60), <2>2, <2>3, <2>5 DEF Base, Slots
  <2>7. NoLostWakeup'
    <3>1. ctl'.flags[TASK_A] = 2 BY <2>2, <2>3
    <3>2. \A u \in Tasks \ {TASK_A} : pc'[u] = pc[u] BY <2>1 DEF Base, Places
    <3>3. ctl'.flags = ctl.flags /\ fifo' = fifo BY <2>1, <2>3
    <3> QED BY <3>1, <3>2, <3>3, WakeupKept
  <2>8. Messages' BY <2>1, <2>5, MessagesKept
  <2> QED BY <2>1, <2>3, <2>4, <2>6, <2>7, <2>8 DEF Base, Scheduler, Fifos
<1>2. CASE CloseConstask
  <2>1. /\ cpu = TASK_A /\ pc[TASK_A] = "close"
        /\ ctl' = Freed(TaskSleep(ctl, victim), victim)
        /\ pc' = [pc EXCEPT ![victim] = "none", ![TASK_A] = "loop"]
        /\ victim' = IDLE /\ UNCHANGED <<cpu, fifo>>
    BY <1>2 DEF CloseConstask, Freed
  <2>2. victim \in Consoles BY <2>1 DEF Base, Places
  <2>3. victim # TaskNow(ctl) /\ (ctl.flags[victim] = 2 => ctl.level[victim] # ctl.now_lv)
    <3>1. TaskNow(ctl) = TASK_A BY <2>1 DEF Base, Scheduler
    <3>2. ctl.now_lv = 0 \/ ctl.now_lv = ctl.level[TASK_A]
      BY <3>1, CurrentLevel DEF Base, Scheduler
    <3>3. ctl.level[TASK_A] # 2
      BY <2>1 DEF Base, Slots
    <3> QED BY <2>2, <3>1, <3>2, <3>3 DEF Base, Slots
  <2>4. /\ Steady(ctl') /\ TaskNow(ctl') = TaskNow(ctl)
        /\ ctl'.flags = [ctl.flags EXCEPT ![victim] = 0] /\ ctl'.level = ctl.level
    BY <2>1, <2>2, <2>3, CloseSteady DEF Base, Scheduler
  <2>5. /\ pc' \in [Tasks -> Labels] /\ pc'[TASK_A] = "loop" /\ pc'[victim] = "none"
        /\ \A u \in Tasks \ {TASK_A, victim} : pc'[u] = pc[u]
    BY <2>1, <2>2 DEF Base, Places, Labels
  <2>6. Places' BY <2>1, <2>2, <2>5 DEF Base, Places
  <2>7. Slots' BY <2>1, <2>2, <2>4, <2>5, BaseTypes DEF Base, Slots
  <2>8. NoLostWakeup'
    <3>1. ctl'.flags[TASK_A] = 2 BY <2>1, <2>2, <2>4, BaseTypes
    <3>2. \A u \in Tasks \ {victim} : ctl'.flags[u] = ctl.flags[u]
      BY <2>4, BaseTypes
    <3> QED BY <2>1, <2>5, <3>1, <3>2, WakeupKept
  <2>9. Messages'
    <3>1. \A u \in Consoles : (Pending(u)' <=> Pending(u)) /\ victim' # u
      BY <2>1 DEF Pending
    <3>2. ~Pending(victim) BY <2>2 DEF Messages
    <3>3. \A u \in Consoles \ {victim} : pc'[u] = pc[u] BY <2>5
    <3> QED BY <2>1, <3>1, <3>2, <3>3 DEF Messages
  <2> QED BY <2>1, <2>4, <2>6, <2>7, <2>8, <2>9 DEF Base, Scheduler, Fifos
<1>3. ASSUME NEW t \in Tasks, OpenConstask(t) PROVE Base' /\ NoLostWakeup' /\ Messages'
  <2>1. PICK s \in Tasks :
          /\ ctl.flags[s] = 0
          /\ ctl' = TaskRun(Allocated(ctl, s), s, 2)
          /\ fifo' = [fifo EXCEPT ![s] = <<>>]
          /\ pc' = [pc EXCEPT ![t] = IF @ = "busy" THEN "busy" ELSE "loop", ![s] = "start"]
    BY <1>3 DEF OpenConstask, Allocated
  <2>2. /\ t # IDLE /\ cpu = t /\ (pc[t] = "busy" \/ (t = TASK_A /\ pc[t] = "boot console"))
        /\ UNCHANGED <<cpu, victim>>
    BY <1>3 DEF OpenConstask
  <2>3. s \in Consoles
    BY <2>1 DEF Base, Slots, Scheduler, Steady, Stable
  <2>4. s # t /\ pc[s] = "none"
    BY <2>1, <2>2, <2>3 DEF Base, Slots
  <2>5. /\ Steady(ctl') /\ TaskNow(ctl') = TaskNow(ctl)
        /\ ctl'.flags = [ctl.flags EXCEPT ![s] = 2]
        /\ ctl'.level = [ctl.level EXCEPT ![s] = 2]
    BY SMTT(30), <1>11, <2>1, <2>3, OpenSteady DEF Base, Scheduler
  <2>6. Fifos'
    <3>1. <<>> \in Seq({Input} \cup Consoles) /\ <<>> \in Seq({Input}) /\ Len(<<>>) = 0
      OBVIOUS
    <3> QED BY <2>1, <3>1, MTaskAssumption DEF Base, Fifos
  <2>7. /\ pc' \in [Tasks -> Labels] /\ pc'[s] = "start"
        /\ pc'[t] = (IF pc[t] = "busy" THEN "busy" ELSE "loop")
        /\ \A u \in Tasks \ {s, t} : pc'[u] = pc[u]
    BY <2>1, <2>4 DEF Base, Places, Labels
  <2>8. Places' BY <2>2, <2>3, <2>4, <2>7 DEF Base, Places
  <2>9. Slots'
    <3>1. /\ ctl'.flags[s] = 2 /\ ctl'.level[s] = 2
          /\ \A u \in Tasks \ {s} : /\ ctl'.flags[u] = ctl.flags[u]
                                     /\ ctl'.level[u] = ctl.level[u]
      BY <2>5, BaseTypes, Constants
    <3>2. pc'[TASK_A] = "boot" <=> pc[TASK_A] = "boot"
      BY <2>2, <2>3, <2>7
    <3>3. \A u \in Consoles \ {s} : pc'[u] = "none" <=> pc[u] = "none"
      BY <2>2, <2>7
    <3>4. ctl'.flags[TASK_A] = ctl.flags[TASK_A] /\ ctl'.level[TASK_A] = ctl.level[TASK_A]
      BY <2>3, <3>1
    <3> QED BY <2>3, <2>7, <3>1, <3>2, <3>3, <3>4 DEF Base, Slots
  <2>10. NoLostWakeup'
    <3>1. ctl'.flags[s] = 2 /\ ctl'.flags[t] = 2
      BY <2>2, <2>4, <2>5, BaseTypes
    <3>2. \A u \in Tasks \ {s} : ctl'.flags[u] = ctl.flags[u] /\ fifo'[u] = fifo[u]
      BY <2>1, <2>5, BaseTypes DEF Base, Fifos
    <3> QED BY <2>7, <3>1, <3>2, WakeupKept
  <2>11. Messages'
    <3>1. fifo'[TASK_A] = fifo[TASK_A] BY <2>1, <2>3 DEF Base, Fifos
    <3>2. \A u \in Consoles : pc[u] = "exit" => pc'[u] = "exit"
      BY <2>2, <2>4, <2>7
    <3> QED BY <2>2, <3>1, <3>2, MessagesKept
  <2> QED BY <2>2, <2>5, <2>6, <2>8, <2>9, <2>10, <2>11 DEF Base, Scheduler
<1>4. ASSUME NEW t \in Tasks, Start(t) \/ Done(t) PROVE Base' /\ NoLostWakeup' /\ Messages'
  <2>1. /\ cpu = t /\ pc[t] \in {"start", "busy"} /\ pc' = [pc EXCEPT ![t] = "loop"]
        /\ UNCHANGED <<ctl, cpu, fifo, victim>>
    BY <1>4 DEF Start, Done, Goto
  <2>2. Places' BY <2>1 DEF Base, Places, Labels
  <2>3. /\ pc'[TASK_A] = "boot" <=> pc[TASK_A] = "boot"
        /\ \A u \in Consoles : pc'[u] = "none" <=> pc[u] = "none"
    BY <2>1 DEF Base, Places
  <2>4. ctl'.level = ctl.level /\ ctl'.flags = ctl.flags BY <2>1
  <2>5. Slots' BY <2>3, <2>4, SlotsWoken
  <2>6. pc'[t] = "loop" /\ \A u \in Tasks \ {t} : pc'[u] = pc[u]
    BY <2>1 DEF Base, Places
  <2>7. NoLostWakeup' BY <2>1, <2>4, <2>6, BaseTypes, WakeupKept
  <2>8. Messages' BY <2>1, <2>6, MessagesKept
  <2> QED BY <2>1, <2>2, <2>5, <2>7, <2>8 DEF Base, Scheduler, Fifos
<1>5. ASSUME NEW t \in Tasks, Sleep(t) \/ ExitSleep(t) PROVE Base' /\ NoLostWakeup' /\ Messages'
  <2>1. /\ (pc[t] = "loop" /\ fifo[t] = <<>>) \/ pc[t] = "exit"
        /\ cpu = t /\ ctl' = TaskSleep(ctl, t)
        /\ cpu' = IF GivesUp(ctl, t) THEN TaskNow(ctl') ELSE cpu
        /\ UNCHANGED <<fifo, pc, victim>>
    BY <1>5 DEF Sleep, ExitSleep
  <2>2. t # IDLE BY <2>1 DEF Base, Places
  <2>3. /\ Scheduler'
        /\ ctl'.flags = [ctl.flags EXCEPT ![t] = 1] /\ ctl'.level = ctl.level
    BY <2>1, <2>2, SleepSelf
  <2>4. /\ \A u \in Tasks : ctl'.flags[u] = IF u = t THEN 1 ELSE ctl.flags[u]
        /\ t = TASK_A => pc[TASK_A] = "loop"
        /\ t \in Consoles => (pc[t] # "none" /\ ctl.flags[t] # 0)
    BY <2>1, <2>3, BaseTypes DEF Base, Places, Slots
  <2>5. Slots' BY <2>1, <2>3, <2>4 DEF Base, Slots
  <2>6. NoLostWakeup' BY <2>1, <2>4, WakeupKept
  <2>7. Messages' BY <2>1, MessagesKept
  <2> QED BY <2>1, <2>3, <2>5, <2>6, <2>7 DEF Base, Fifos, Places
<1>6. ASSUME NEW t \in Tasks, Take(t) PROVE Base' /\ NoLostWakeup' /\ Messages'
  <2>1. /\ cpu = t /\ pc[t] = "loop" /\ fifo[t] # <<>>
        /\ fifo' = [fifo EXCEPT ![t] = Tail(@)]
        /\ UNCHANGED <<ctl, cpu>>
        /\ \/ Head(fifo[t]) = Input /\ pc' = [pc EXCEPT ![t] = "busy"] /\ UNCHANGED victim
           \/ Head(fifo[t]) # Input /\ pc' = [pc EXCEPT ![t] = "close"]
              /\ victim' = Head(fifo[t])
    BY <1>6 DEF Take, Goto
  <2>2. /\ fifo[t] \in Seq({Input} \cup Consoles) /\ Len(fifo[t]) <= FIFO_SIZE
        /\ t # TASK_A => fifo[t] \in Seq({Input})
    BY DEF Base, Fifos
  <2>3. Head(fifo[t]) \in {Input} \cup Consoles /\ (t # TASK_A => Head(fifo[t]) = Input)
    BY <2>1, <2>2
  <2>4. Fifos'
    <3>1. /\ Tail(fifo[t]) \in Seq({Input} \cup Consoles)
          /\ t # TASK_A => Tail(fifo[t]) \in Seq({Input})
          /\ Len(Tail(fifo[t])) = Len(fifo[t]) - 1 /\ Len(fifo[t]) \in Nat
      BY <2>1, <2>2
    <3>2. Len(Tail(fifo[t])) <= FIFO_SIZE BY <2>2, <3>1, MTaskAssumption
    <3> QED BY <2>1, <3>1, <3>2 DEF Base, Fifos
  <2>5. Places'
    <3>1. pc[t] = "loop" /\ t # IDLE BY <2>1 DEF Base, Places
    <3>2. CASE Head(fifo[t]) = Input
      <4>1. pc' = [pc EXCEPT ![t] = "busy"] /\ victim' = victim BY <2>1, <3>2
      <4> QED BY <3>1, <4>1, Constants DEF Base, Places, Labels
    <3>3. CASE Head(fifo[t]) # Input
      <4>1. pc' = [pc EXCEPT ![t] = "close"] /\ victim' = Head(fifo[t]) BY <2>1, <3>3
      <4>2. t = TASK_A /\ victim' \in Consoles /\ victim' \in Tasks
        BY <2>3, <3>3, <4>1, Constants
      <4> QED BY <3>1, <4>1, <4>2, Constants DEF Base, Places, Labels
    <3> QED BY <3>2, <3>3
  <2>6. Slots' BY <2>1, <2>3 DEF Base, Places, Slots
  <2>7. \A u \in Tasks \ {t} : pc'[u] = pc[u] /\ fifo'[u] = fifo[u]
    BY <2>1 DEF Base, Places, Fifos
  <2>8. NoLostWakeup' BY <2>1, <2>7, BaseTypes, WakeupKept
  <2>9. Messages'
    <3>1. CASE t = TASK_A
      <4>1. fifo'[TASK_A] = Tail(fifo[TASK_A]) BY <2>1, <3>1 DEF Base, Fifos
      <4>2. \A u \in Consoles : pc'[u] = pc[u] BY <2>7, <3>1
      <4> QED BY <2>1, <3>1, <4>1, <4>2, MessagesTaken
    <3>2. CASE t # TASK_A
      <4>1. victim' = victim BY <2>1, <2>3, <3>2
      <4>2. fifo'[TASK_A] = fifo[TASK_A] BY <2>7, <3>2
      <4>3. \A u \in Consoles : pc[u] = "exit" => pc'[u] = "exit"
        BY <2>1, <2>7
      <4> QED BY <4>1, <4>2, <4>3, MessagesKept
    <3> QED BY <3>1, <3>2
  <2> QED BY <2>1, <2>4, <2>5, <2>6, <2>8, <2>9 DEF Base, Scheduler
<1>7. ASSUME NEW t \in Tasks, NEW u \in Tasks, Send(t, u) \/ Interrupt(u) PROVE Base' /\ NoLostWakeup' /\ Messages'
  <2>1. u \in Live /\ FifoPut(u, Input) /\ UNCHANGED <<cpu, pc, victim>>
    BY <1>7 DEF Send, Interrupt
  <2>2. /\ Scheduler' /\ Fifos' /\ ctl'.level = ctl.level
        /\ \/ fifo' = fifo /\ ctl'.flags = ctl.flags
           \/ /\ fifo' = [fifo EXCEPT ![u] = Append(@, Input)]
              /\ ctl'.flags = [ctl.flags EXCEPT ![u] = 2]
    BY <2>1, PutLive
  <2>3. Slots' BY <2>1, <2>2, SlotsWoken
  <2>4. NoLostWakeup'
    <3>1. CASE fifo' = fifo /\ ctl'.flags = ctl.flags
      BY <2>1, <3>1, WakeupKept
    <3>2. CASE fifo' = [fifo EXCEPT ![u] = Append(@, Input)]
                 /\ ctl'.flags = [ctl.flags EXCEPT ![u] = 2]
      <4>1. ctl'.flags[u] = 2 BY <3>2, BaseTypes
      <4>2. \A v \in Tasks \ {u} : ctl'.flags[v] = ctl.flags[v] /\ fifo'[v] = fifo[v]
        BY <3>2, BaseTypes DEF Base, Fifos
      <4> QED BY <2>1, <4>1, <4>2, WakeupKept
    <3> QED BY <2>2, <3>1, <3>2
  <2>5. Messages'
    <3>1. fifo'[TASK_A] = fifo[TASK_A] \/ fifo'[TASK_A] = Append(fifo[TASK_A], Input)
      BY <2>2 DEF Base, Fifos
    <3>2. \A v \in Consoles : pc'[v] = pc[v] BY <2>1
    <3> QED BY <2>1, <3>1, <3>2, MessagesPut
  <2> QED BY <2>1, <2>2, <2>3, <2>4, <2>5 DEF Base, Places
<1>8. ASSUME NEW u \in Consoles, Break(u) PROVE Base' /\ NoLostWakeup' /\ Messages'
  <2>1. u \in Live /\ ctl' = TaskRun(ctl, u, SAME) /\ UNCHANGED <<cpu, fifo, pc, victim>>
    BY <1>8 DEF Break, Live
  <2>2. /\ Scheduler' /\ ctl'.level = ctl.level
        /\ ctl'.flags = [ctl.flags EXCEPT ![u] = 2]
    BY <2>1, RunLive
  <2>3. Slots' BY <2>1, <2>2, SlotsWoken
  <2>4. NoLostWakeup' BY <2>1, <2>2, BaseTypes, WakeupKept
  <2>5. Messages' BY <2>1, MessagesKept
  <2> QED BY <2>1, <2>2, <2>3, <2>4, <2>5 DEF Base, Places, Fifos
<1>9. ASSUME NEW t \in Tasks, CmdExit(t) PROVE Base' /\ NoLostWakeup' /\ Messages'
  <2>1. /\ t \in Consoles /\ pc[t] = "busy" /\ FifoPut(TASK_A, t)
        /\ pc' = [pc EXCEPT ![t] = "exit"] /\ UNCHANGED <<cpu, victim>>
    BY <1>9 DEF CmdExit, Goto
  <2>2. TASK_A \in Live BY DEF Live, Base, Places
  <2>3. /\ Scheduler' /\ Fifos' /\ ctl'.level = ctl.level
        /\ \/ fifo' = fifo /\ ctl'.flags = ctl.flags
           \/ /\ fifo' = [fifo EXCEPT ![TASK_A] = Append(@, t)]
              /\ ctl'.flags = [ctl.flags EXCEPT ![TASK_A] = 2]
    BY <2>1, <2>2, PutLive
  <2>4. Places' BY <2>1 DEF Base, Places, Labels
  <2>5. /\ pc'[TASK_A] = "boot" <=> pc[TASK_A] = "boot"
        /\ \A u \in Consoles : pc'[u] = "none" <=> pc[u] = "none"
    BY <2>1 DEF Base, Places
  <2>6. Slots' BY <2>2, <2>3, <2>5, SlotsWoken
  <2>7. pc'[t] = "exit" /\ \A u \in Tasks \ {t} : pc'[u] = pc[u]
    BY <2>1 DEF Base, Places
  <2>8. NoLostWakeup' BY <2>3, <2>7, BaseTypes, WakeupKept DEF Base, Fifos
  <2>9. Messages'
    <3>1. fifo'[TASK_A] = fifo[TASK_A] \/ fifo'[TASK_A] = Append(fifo[TASK_A], t)
      BY <2>3 DEF Base, Fifos
    <3>2. \A u \in Consoles : pc[u] = "exit" => pc'[u] = "exit" BY <2>7
    <3> QED BY <2>1, <2>7, <3>1, <3>2, MessagesPut
  <2> QED BY <2>3, <2>4, <2>6, <2>8, <2>9 DEF Base
<1>10. CASE TimeSlice
  <2>1. /\ ctl' = TaskSwitch(ctl) /\ cpu' = TaskNow(ctl') /\ UNCHANGED <<fifo, pc, victim>>
    BY <1>10 DEF TimeSlice, Base, Scheduler
  <2>2. Steady(ctl') /\ ctl'.flags = ctl.flags /\ ctl'.level = ctl.level
    BY <2>1, TaskSwitchSteady DEF Base, Scheduler
  <2>3. Slots' BY <2>1, <2>2 DEF Base, Slots
  <2>4. NoLostWakeup' BY <2>1, <2>2, WakeupKept
  <2>5. Messages' BY <2>1, MessagesKept
  <2> QED BY <2>1, <2>2, <2>3, <2>4, <2>5 DEF Base, Scheduler, Fifos, Places
<1> QED
  BY <1>0, <1>1, <1>2, <1>3, <1>4, <1>5, <1>6, <1>7, <1>8, <1>9, <1>10 DEF Next, Step

-----------------------------------------------------------------------------
(* The theorems *)

LEMMA InvAlways == Spec /\ []Fits => []IInv
<1>1. Init => IInv BY InvInit
<1>2. Fits' /\ IInv /\ [Next]_vars => IInv' BY InvStep
<1> QED BY <1>1, <1>2, PTL DEF Spec

\* As long as no more tasks are in being than a level has entries (98 consoles
\* besides task_a and the idle task, mtask.c), task_add never writes behind the
\* array of a level, which it does not check: a task is on one queue at most,
\* and once.
THEOREM FewSuffice == Spec /\ []Few(ctl) => []Fits
<1>1. Init => IInv BY InvInit
<1>2. Few(ctl)' /\ IInv /\ [Next]_vars => IInv' BY InvStep
<1>3. IInv => Fits
  BY DEF IInv, Base, Scheduler, Steady, Stable, Sound, Fits
<1> QED BY <1>1, <1>2, <1>3, PTL DEF Spec

\* The variables keep their types: no index leaves its table and no FIFO holds
\* more than it has room for (mtask.c, fifo.c).
THEOREM TypeCorrect == Spec /\ []Fits => []TypeOK
<1>1. IInv => TypeOK
  BY BaseTypes DEF IInv, Base, Fifos, Places, TypeOK
<1> QED BY <1>1, InvAlways, PTL

\* task_add, task_remove and the wakeups of fifo32_put keep in each level's
\* queue exactly the tasks awake at that level, each once.
THEOREM RunQueuesKept == Spec /\ []Fits => []RunQueues
<1>1. IInv => RunQueues
  <2> SUFFICES ASSUME IInv PROVE RunQueues OBVIOUS
  <2>1. Sound(ctl) BY DEF IInv, Base, Scheduler, Steady, Stable
  <2>2. Fits /\ Distinct(ctl) BY <2>1 DEF Sound, Fits
  <2>3. ASSUME NEW l \in Levels PROVE Queue(ctl, l) = Awake(ctl, l)
    <3>1. Queue(ctl, l) \subseteq Awake(ctl, l)
      BY <2>1 DEF Queue, Awake, Sound, Entries
    <3>2. Awake(ctl, l) \subseteq Queue(ctl, l)
      BY <2>1 DEF Queue, Awake, Sound, Queued
    <3> QED BY <3>1, <3>2
  <2> QED BY <2>2, <2>3 DEF RunQueues, Distinct
<1> QED BY <1>1, InvAlways, PTL

\* The tables name the task that has the processor, through every task_run,
\* task_sleep and task_switch, and it is not asleep.
THEOREM CurrentTaskKnown == Spec /\ []Fits => []CurrentTask
<1>1. IInv => CurrentTask
  BY DEF IInv, Base, Scheduler, Steady, Stable, CurrentTask
<1> QED BY <1>1, InvAlways, PTL

\* While lv_change is 0 no task above the current level is awake.
THEOREM TopLevelKept == Spec /\ []Fits => []TopLevelWatched
<1>1. IInv => TopLevelWatched
  BY DEF IInv, Base, Scheduler, Steady, TopLevelWatched
<1> QED BY <1>1, InvAlways, PTL

\* A task asleep in its event loop has nothing to read: fifo32_put and the
\* check under io_cli in bootpack.c and console.c lose no wakeup.
THEOREM WakeupsKept == Spec /\ []Fits => []NoLostWakeup
<1>1. IInv => NoLostWakeup BY DEF IInv
<1> QED BY <1>1, InvAlways, PTL

\* cmd_exit, task_a's FIFO and close_constask hand each slot back once, when
\* its console has stopped.
THEOREM SlotsReused == Spec /\ []Fits => []SlotReuse
<1>1. IInv => SlotReuse
  BY DEF IInv, Base, Slots, Messages, SlotReuse
<1> QED BY <1>1, InvAlways, PTL

-----------------------------------------------------------------------------
(* What Responsive and ExitCompletes rest on, without fairness *)

\* task_a is alone on its level, and no level above it has a task.
LEMMA TopIsTaskA ==
    ASSUME Base, NEW s, Steady(s), s.lv_change = 0, s.flags = ctl.flags, s.level = ctl.level,
           s.flags[TASK_A] = 2
    PROVE  TaskNow(s) = TASK_A
<1>1. Sound(s) /\ Top(s, s.now_lv) BY DEF Steady, Stable
<1>2. s.now_lv \in Levels /\ s.running \in [Levels -> Nat] BY <1>1, Fields
<1>3. s.level[TASK_A] \in {0, 1} /\ 0 \in Levels /\ 1 \in Levels
  BY Constants DEF Base, Slots
<1>4. s.running[s.level[TASK_A]] > 0
  BY <1>1, <1>2, <1>3, Constants DEF Sound, Queued
<1>5. s.now_lv \in Nat BY <1>2, Constants
<1>6. s.now_lv <= s.level[TASK_A]
  <2> SUFFICES ASSUME s.now_lv > s.level[TASK_A] PROVE FALSE BY <1>3, <1>5
  <2>1. s.level[TASK_A] \in 0 .. (s.now_lv - 1) BY <1>3, <1>5
  <2>2. s.running[s.level[TASK_A]] <= 0 BY <1>1, <2>1 DEF Top
  <2>3. s.running[s.level[TASK_A]] \in Nat BY <1>2, <1>3
  <2> QED BY <1>4, <2>2, <2>3
<1>7. CASE s.now_lv = 0 BY <1>7, CurrentLevel
<1>8. CASE s.now_lv # 0
  <2>1. s.now_lv = 1 /\ s.level[TaskNow(s)] = 1
    BY <1>3, <1>5, <1>6, <1>8, CurrentLevel
  <2>2. TaskNow(s) \in Tasks /\ s.flags[TaskNow(s)] = 2 BY DEF Steady
  <2>3. TaskNow(s) # IDLE
    BY <2>1, Constants DEF Steady, Stable
  <2>4. TaskNow(s) \notin Consoles
    BY <2>1, <2>2 DEF Base, Slots
  <2> QED BY <2>2, <2>3, <2>4, Split
<1> QED BY <1>7, <1>8

\* A time slice that ends while task_a is awake leaves the processor to it,
\* whoever had it and whatever has been woken and put to sleep since: task_run
\* asks for the change of level each time (mtask.c:164, 193).
THEOREM SliceToTaskA ==
    Spec /\ []Fits => [][TimeSlice /\ ctl.flags[TASK_A] = 2 => cpu' = TASK_A]_vars
<1>1. ASSUME IInv, TimeSlice, ctl.flags[TASK_A] = 2 PROVE cpu' = TASK_A
  <2>1. ctl' = TaskSwitch(ctl) /\ cpu' = TaskNow(ctl') /\ Base /\ Steady(ctl)
    BY <1>1 DEF TimeSlice, IInv, Base, Scheduler
  <2>2. Steady(ctl') /\ ctl'.flags = ctl.flags /\ ctl'.level = ctl.level
    BY <2>1, TaskSwitchSteady
  <2>3. ctl'.lv_change = 0
    <3>1. ctl \in Ctl /\ ctl.lv_change \in 0 .. 1 BY <2>1, Fields DEF Steady, Stable, Sound
    <3>2. CASE ctl.lv_change # 0
      <4>1. ctl' = TaskSwitchSub(Advance(ctl)) BY <2>1, <3>2 DEF TaskSwitch
      <4>2. Advance(ctl) \in Ctl BY <2>1, AdvanceSteady DEF Stable, Sound
      <4>3. \A r \in Ctl : TaskSwitchSub(r).lv_change = 0 BY DEF Ctl, TaskSwitchSub
      <4> QED BY <4>1, <4>2, <4>3
    <3>3. CASE ctl.lv_change = 0
      <4>1. ctl' = Advance(ctl) BY <2>1, <3>3 DEF TaskSwitch
      <4> QED BY <3>1, <3>3, <4>1 DEF Ctl, Advance
    <3> QED BY <3>2, <3>3
  <2> QED BY <1>1, <2>1, <2>2, <2>3, TopIsTaskA
<1>2. IInv /\ [Next]_vars => [TimeSlice /\ ctl.flags[TASK_A] = 2 => cpu' = TASK_A]_vars
  BY <1>1
<1> QED BY <1>2, InvAlways, PTL DEF Spec

\* task_a has a victim only while it closes it.
NoVictim == pc[TASK_A] # "close" => victim = IDLE

\* An exit message moves up in task_a's FIFO, and at its head it is taken; what
\* is taken is closed, before anything else is.
ExitMoves(u) ==
    /\ \A k \in 1 .. Len(fifo[TASK_A]) : fifo[TASK_A][k] = u =>
          \/ k <= Len(fifo'[TASK_A]) /\ fifo'[TASK_A][k] = u
          \/ k > 1 /\ fifo'[TASK_A][k - 1] = u
          \/ k = 1 /\ victim' = u
    /\ victim = u => victim' = u \/ (pc'[u] = "none" /\ ctl'.flags[u] = 0)

\* What a step does to task_a's FIFO.
Grows == \E e \in {Input} \cup Consoles : fifo'[TASK_A] = Append(fifo[TASK_A], e)
Shrinks ==
    /\ pc[TASK_A] = "loop" /\ fifo[TASK_A] # <<>>
    /\ fifo'[TASK_A] = Tail(fifo[TASK_A])
    /\ Head(fifo[TASK_A]) \in Consoles => victim' = Head(fifo[TASK_A])

LEMMA PutMoves ==
    ASSUME Base, NEW t \in Live, NEW e \in {Input} \cup Consoles, FifoPut(t, e)
    PROVE  fifo'[TASK_A] = fifo[TASK_A] \/ Grows
BY Constants DEF FifoPut, Base, Fifos, Live, Grows

LEMMA FifoMoves ==
    ASSUME Base, NoVictim, [Next]_vars
    PROVE  /\ NoVictim'
           /\ fifo'[TASK_A] = fifo[TASK_A] \/ Grows \/ Shrinks
           /\ victim' = victim \/ victim = IDLE \/ CloseConstask
<1> USE Split
<1>0. CASE UNCHANGED vars BY <1>0 DEF vars, NoVictim
<1>1. CASE Boot BY <1>1 DEF Boot, Goto, NoVictim, Base, Places
<1>2. CASE CloseConstask BY <1>2 DEF CloseConstask, NoVictim
<1>3. ASSUME NEW t \in Tasks, OpenConstask(t)
      PROVE  NoVictim' /\ fifo'[TASK_A] = fifo[TASK_A] /\ victim' = victim
  <2>1. PICK s \in Tasks :
          /\ ctl.flags[s] = 0 /\ fifo' = [fifo EXCEPT ![s] = <<>>]
          /\ pc' = [pc EXCEPT ![t] = IF @ = "busy" THEN "busy" ELSE "loop", ![s] = "start"]
    BY <1>3 DEF OpenConstask
  <2>2. s # TASK_A BY <2>1 DEF Base, Slots
  <2>3. /\ victim' = victim
        /\ pc[t] = "busy" \/ (t = TASK_A /\ pc[t] = "boot console")
    BY <1>3 DEF OpenConstask
  <2>4. fifo'[TASK_A] = fifo[TASK_A] BY <2>1, <2>2, Constants DEF Base, Fifos
  <2>5. pc'[TASK_A] = "close" => pc[TASK_A] = "close"
    BY <2>1, <2>2, <2>3, Constants DEF Base, Places
  <2>6. pc[TASK_A] = "close" => pc'[TASK_A] = "close"
    BY <2>1, <2>2, <2>3, Constants DEF Base, Places
  <2> QED BY <2>3, <2>4, <2>5, <2>6 DEF NoVictim
<1>4. ASSUME NEW t \in Tasks, Start(t) \/ Done(t)
      PROVE  NoVictim' /\ fifo' = fifo /\ victim' = victim
  BY <1>4 DEF Start, Done, Goto, NoVictim, Base, Places
<1>5. ASSUME NEW t \in Tasks, Sleep(t) \/ ExitSleep(t)
      PROVE  NoVictim' /\ fifo' = fifo /\ victim' = victim
  BY <1>5 DEF Sleep, ExitSleep, NoVictim
<1>6. ASSUME NEW t \in Tasks, Take(t)
      PROVE  /\ NoVictim' /\ (fifo'[TASK_A] = fifo[TASK_A] \/ Shrinks)
             /\ victim' = victim \/ victim = IDLE
  <2>1. /\ pc[t] = "loop" /\ fifo[t] # <<>> /\ fifo' = [fifo EXCEPT ![t] = Tail(@)]
        /\ \/ Head(fifo[t]) = Input /\ pc' = [pc EXCEPT ![t] = "busy"] /\ UNCHANGED victim
           \/ /\ Head(fifo[t]) # Input /\ pc' = [pc EXCEPT ![t] = "close"]
              /\ victim' = Head(fifo[t])
    BY <1>6 DEF Take, Goto
  <2>2. CASE t = TASK_A
    <3>1. victim = IDLE BY <2>1, <2>2 DEF NoVictim
    <3>2. NoVictim' BY <2>1, <2>2, <3>1, Constants DEF NoVictim, Base, Places
    <3>3. Shrinks BY <2>1, <2>2, Constants DEF Shrinks, Base, Fifos
    <3> QED BY <3>1, <3>2, <3>3
  <2>3. CASE t # TASK_A
    <3>1. Head(fifo[t]) = Input
      <4>1. fifo[t] \in Seq({Input}) BY <2>3 DEF Base, Fifos
      <4> QED BY <2>1, <4>1
    <3>2. fifo'[TASK_A] = fifo[TASK_A] /\ pc'[TASK_A] = pc[TASK_A] /\ victim' = victim
      BY <2>1, <2>3, <3>1, Constants DEF Base, Fifos, Places
    <3> QED BY <3>2 DEF NoVictim
  <2> QED BY <2>2, <2>3
<1>7. ASSUME NEW t \in Tasks, NEW u \in Tasks, Send(t, u) \/ Interrupt(u)
      PROVE  NoVictim' /\ (fifo'[TASK_A] = fifo[TASK_A] \/ Grows) /\ victim' = victim
  <2>1. u \in Live /\ FifoPut(u, Input) /\ UNCHANGED <<pc, victim>>
    BY <1>7 DEF Send, Interrupt
  <2> QED BY <2>1, PutMoves DEF NoVictim
<1>8. ASSUME NEW u \in Consoles, Break(u)
      PROVE  NoVictim' /\ fifo' = fifo /\ victim' = victim
  BY <1>8 DEF Break, NoVictim
<1>9. ASSUME NEW t \in Tasks, CmdExit(t)
      PROVE  NoVictim' /\ (fifo'[TASK_A] = fifo[TASK_A] \/ Grows) /\ victim' = victim
  <2>1. /\ t \in Consoles /\ FifoPut(TASK_A, t) /\ victim' = victim
        /\ pc' = [pc EXCEPT ![t] = "exit"]
    BY <1>9 DEF CmdExit, Goto
  <2>2. TASK_A \in Live BY DEF Live, Base, Places
  <2>3. pc'[TASK_A] = pc[TASK_A] BY <2>1 DEF Base, Places
  <2> QED BY <2>1, <2>2, <2>3, PutMoves DEF NoVictim
<1>10. CASE TimeSlice BY <1>10 DEF TimeSlice, NoVictim
<1> QED
  BY <1>0, <1>1, <1>2, <1>3, <1>4, <1>5, <1>6, <1>7, <1>8, <1>9, <1>10
  DEF Next, Step, Boot, CloseConstask, vars, TimeSlice

LEMMA MessageMoves ==
    ASSUME Base, NEW u \in Consoles,
           fifo'[TASK_A] = fifo[TASK_A] \/ Grows \/ Shrinks,
           NEW k \in 1 .. Len(fifo[TASK_A]), fifo[TASK_A][k] = u
    PROVE  \/ k <= Len(fifo'[TASK_A]) /\ fifo'[TASK_A][k] = u
           \/ k > 1 /\ fifo'[TASK_A][k - 1] = u
           \/ k = 1 /\ victim' = u
<1> DEFINE q == fifo[TASK_A]
<1>1. q \in Seq({Input} \cup Consoles) /\ Len(q) \in Nat
  BY Constants DEF Base, Fifos
<1>2. CASE fifo'[TASK_A] = q BY <1>1, <1>2
<1>3. CASE Grows
  <2>1. PICK e \in {Input} \cup Consoles : fifo'[TASK_A] = Append(q, e) BY <1>3 DEF Grows
  <2>2. Len(Append(q, e)) = Len(q) + 1 /\ Append(q, e)[k] = q[k] BY <1>1
  <2> QED BY <1>1, <2>1, <2>2
<1>4. CASE Shrinks
  <2>1. fifo'[TASK_A] = Tail(q) /\ q # <<>> /\ (Head(q) \in Consoles => victim' = Head(q))
    BY <1>4 DEF Shrinks
  <2>2. CASE k = 1
    <3>1. Head(q) = u BY <1>1, <2>1, <2>2
    <3> QED BY <2>1, <2>2, <3>1
  <2>3. CASE k # 1
    <3>1. k - 1 \in 1 .. (Len(q) - 1) BY <1>1, <2>3
    <3>2. Tail(q)[k - 1] = q[k] BY <1>1, <2>1, <3>1
    <3> QED BY <1>1, <2>1, <2>3, <3>2
  <2> QED BY <2>2, <2>3
<1> QED BY <1>2, <1>3, <1>4

\* Once cmd_exit's message is in task_a's FIFO, nothing but task_a's own loop
\* removes it, and close_constask is carried out for it and for nobody else in
\* between: what ExitCompletes leaves to fairness is that the loop goes on.
THEOREM ExitsCarriedOut ==
    Spec /\ []Fits => [][\A u \in Consoles : ExitMoves(u)]_vars
<1>1. Init => NoVictim BY DEF Init, NoVictim
<1>2. IInv /\ NoVictim /\ [Next]_vars => NoVictim'
  BY FifoMoves DEF IInv
<1>3. IInv /\ NoVictim /\ [Next]_vars => [\A u \in Consoles : ExitMoves(u)]_vars
  <2> SUFFICES ASSUME Base, NoVictim, [Next]_vars, NEW u \in Consoles PROVE ExitMoves(u)
    BY DEF IInv
  <2>1. /\ fifo'[TASK_A] = fifo[TASK_A] \/ Grows \/ Shrinks
        /\ victim' = victim \/ victim = IDLE \/ CloseConstask
    BY FifoMoves
  <2>2. \A k \in 1 .. Len(fifo[TASK_A]) : fifo[TASK_A][k] = u =>
          \/ k <= Len(fifo'[TASK_A]) /\ fifo'[TASK_A][k] = u
          \/ k > 1 /\ fifo'[TASK_A][k - 1] = u
          \/ k = 1 /\ victim' = u
    BY <2>1, MessageMoves
  <2>3. ASSUME CloseConstask, victim = u PROVE pc'[u] = "none" /\ ctl'.flags[u] = 0
    <3>1. /\ ctl' = Freed(TaskSleep(ctl, u), u)
          /\ pc' = [pc EXCEPT ![u] = "none", ![TASK_A] = "loop"]
          /\ cpu = TASK_A /\ pc[TASK_A] = "close"
      BY <2>3 DEF CloseConstask, Freed
    <3>2. pc'[u] = "none" BY <3>1, Split DEF Base, Places
    <3>3. TaskSleep(ctl, u).flags \in [Tasks -> 0 .. 2] /\ TaskSleep(ctl, u) \in Ctl
      <4>1. Steady(ctl) /\ u \in Tasks \ {IDLE} BY Split DEF Base, Scheduler
      <4>2. ctl.now_lv = 0 \/ ctl.now_lv = 1
        BY <3>1, CurrentLevel DEF Base, Scheduler, Slots
      <4>3. ctl.flags[u] = 2 => ctl.level[u] # ctl.now_lv BY <4>2 DEF Base, Slots
      <4>4. Steady(TaskSleep(ctl, u)) BY <4>1, <4>3, SleepSteady
      <4> QED BY <4>4, Fields DEF Steady, Stable, Sound
    <3>4. ctl'.flags[u] = 0 BY <3>1, <3>3, Split DEF Freed, Ctl
    <3> QED BY <3>2, <3>4
  <2> QED BY <2>1, <2>2, <2>3, Split DEF ExitMoves
<1> QED BY <1>1, <1>2, <1>3, InvAlways, PTL DEF Spec

-----------------------------------------------------------------------------
(* What RoundRobin rests on: the order of turns at the level of the consoles *)

\* Counted from index w on, entry j comes before entry i.
Earlier(w, j, i) == IF j >= w THEN i < w \/ j < i ELSE i < w /\ j < i

\* v gets its turn before u does.
Ahead(s, v, u) ==
    \E i, j \in 0 .. (s.running[2] - 1) :
        s.tasks[2][j] = v /\ s.tasks[2][i] = u /\ Earlier(s.now[2], j, i)

\* The level of the consoles is as it was.
Same(s, r) == r.running[2] = s.running[2] /\ r.now[2] = s.now[2] /\ r.tasks[2] = s.tasks[2]

LEMMA SameOrder ==
    ASSUME NEW s, NEW r, Same(s, r), NEW u, NEW v, Ahead(r, v, u)
    PROVE  Ahead(s, v, u)
BY DEF Same, Ahead

\* A task that is entered comes behind the last entry, and moves nobody.
LEMMA AddOrder ==
    ASSUME NEW s, Sound(s), NEW r, Sound(r), Extends(s, r),
           NEW u \in Tasks, s.flags[u] = 2, s.level[u] = 2,
           NEW v \in Tasks, s.flags[v] = 2, s.level[v] = 2,
           Ahead(r, v, u)
    PROVE  Ahead(s, v, u)
<1>1. /\ 2 \in Levels /\ s.running[2] \in Nat /\ r.running[2] \in Nat
      /\ r.running[2] >= s.running[2] /\ s.running[2] <= MAX_TASKS_LV
      /\ r.now[2] = s.now[2] /\ MAX_TASKS_LV \in Nat
  BY Constants, Fields DEF Extends, Sound
<1>2. PICK i \in 0 .. (r.running[2] - 1), j \in 0 .. (r.running[2] - 1) :
        r.tasks[2][j] = v /\ r.tasks[2][i] = u /\ Earlier(r.now[2], j, i)
  BY DEF Ahead
<1>3. ASSUME NEW x \in Tasks, s.flags[x] = 2, s.level[x] = 2,
             NEW k \in 0 .. (r.running[2] - 1), r.tasks[2][k] = x
      PROVE  k \in 0 .. (s.running[2] - 1) /\ s.tasks[2][k] = x
  <2>1. PICK m \in 0 .. (s.running[2] - 1) : s.tasks[2][m] = x BY <1>3 DEF Sound, Queued
  <2>2. m \in 0 .. (MAX_TASKS_LV - 1) /\ m \in 0 .. (r.running[2] - 1) /\ m < s.running[2]
    BY <1>1, <2>1
  <2>3. r.tasks[2][m] = x BY <1>1, <2>1, <2>2 DEF Extends
  <2>4. m = k BY <1>1, <1>3, <2>2, <2>3 DEF Sound, Distinct
  <2> QED BY <2>1, <2>4
<1>4. /\ i \in 0 .. (s.running[2] - 1) /\ s.tasks[2][i] = u
      /\ j \in 0 .. (s.running[2] - 1) /\ s.tasks[2][j] = v
  BY <1>2, <1>3
<1> QED BY <1>1, <1>2, <1>4 DEF Ahead

\* The order of the entries, when entry d is taken out and w corrected.
LEMMA GapOrder ==
    ASSUME NEW n \in Nat, NEW w \in Nat, w = 0 \/ w < n, NEW d \in 0 .. (n - 1),
           NEW x, x = (IF d < w THEN IF w - 1 >= n - 1 THEN 0 ELSE w - 1
                       ELSE IF w >= n - 1 THEN 0 ELSE w),
           NEW i \in 0 .. (n - 2), NEW j \in 0 .. (n - 2), Earlier(x, j, i),
           NEW a, a = (IF i < d THEN i ELSE i + 1),
           NEW b, b = (IF j < d THEN j ELSE j + 1)
    PROVE  Earlier(w, b, a)
<1>1. CASE d < w
  <2>1. x = w - 1 /\ w < n BY <1>1
  <2> QED BY <1>1, <2>1 DEF Earlier
<1>2. CASE d >= w /\ w < n - 1
  <2>1. x = w BY <1>2
  <2> QED BY <1>2, <2>1 DEF Earlier
<1>3. CASE d >= w /\ w >= n - 1
  <2>1. x = 0 BY <1>3
  <2>2. (w = n - 1 /\ d = w) \/ w = 0 BY <1>3
  <2> QED BY <2>1, <2>2 DEF Earlier
<1> QED BY <1>1, <1>2, <1>3

\* task_remove closes the gap and corrects now, so that everybody else keeps
\* its place in the order.
LEMMA RemoveOrder ==
    ASSUME NEW s, Stable(s), NEW t \in Tasks, s.flags[t] = 2,
           NEW u, NEW v, Ahead(TaskRemove(s, t), v, u)
    PROVE  Ahead(s, v, u)
<1> DEFINE r == TaskRemove(s, t)
           l == s.level[t]
           n == s.running[2]
           w == s.now[2]
<1>1. /\ Sound(s) /\ 2 \in Levels /\ l \in Levels /\ MAX_TASKS_LV \in Nat
      /\ s.running \in [Levels -> Nat] /\ s.now \in [Levels -> Nat]
      /\ s.tasks \in [Levels -> [0 .. (MAX_TASKS_LV - 1) -> Tasks \cup {NoTask}]]
      /\ n \in Nat /\ n <= MAX_TASKS_LV /\ w \in Nat /\ (w = 0 \/ w < n)
  <2>1. Sound(s) /\ 2 \in Levels /\ MAX_TASKS_LV \in Nat BY Constants DEF Stable
  <2>2. /\ s.running \in [Levels -> Nat] /\ s.now \in [Levels -> Nat]
        /\ s.tasks \in [Levels -> [0 .. (MAX_TASKS_LV - 1) -> Tasks \cup {NoTask}]]
        /\ s.level \in [Tasks -> Levels]
    BY <2>1, Fields
  <2>3. n <= MAX_TASKS_LV BY <2>1 DEF Sound
  <2>4. w = 0 \/ w < n BY <2>1 DEF Stable
  <2> QED BY <2>1, <2>2, <2>3, <2>4
<1>2. PICK d \in 0 .. (s.running[l] - 1) : s.tasks[l][d] = t /\ r = Removed(s, t, d)
  BY <1>1, RemoveQueue
<1> HIDE DEF r
<1>3. CASE l # 2
  <2>1. Same(s, r) BY <1>1, <1>2, <1>3 DEF Removed, Same
  <2> QED BY <2>1, SameOrder DEF r
<1>4. CASE l = 2
  <2>1. /\ d \in 0 .. (n - 1) /\ r.running[2] = n - 1 /\ r.now[2] = FixedNow(s, 2, d)
        /\ \A k \in 0 .. (n - 2) :
              r.tasks[2][k] = s.tasks[2][IF k < d THEN k ELSE k + 1]
    <3>1. /\ r.running = [s.running EXCEPT ![2] = n - 1]
          /\ r.now = [s.now EXCEPT ![2] = FixedNow(s, 2, d)]
          /\ r.tasks = [s.tasks EXCEPT ![2] = [k \in 0 .. (MAX_TASKS_LV - 1) |->
                IF d <= k /\ k < n - 1 THEN s.tasks[2][k + 1] ELSE s.tasks[2][k]]]
      BY <1>2, <1>4 DEF Removed
    <3>2. d \in 0 .. (n - 1) BY <1>4
    <3>3. ASSUME NEW k \in 0 .. (n - 2)
          PROVE  r.tasks[2][k] = s.tasks[2][IF k < d THEN k ELSE k + 1]
      <4>1. k \in 0 .. (MAX_TASKS_LV - 1) /\ k < n - 1 BY <1>1
      <4>2. r.tasks[2][k] = IF d <= k /\ k < n - 1 THEN s.tasks[2][k + 1] ELSE s.tasks[2][k]
        BY <1>1, <3>1, <4>1
      <4> QED BY <3>2, <4>1, <4>2
    <3> QED BY <1>1, <3>1, <3>2, <3>3
  <2>2. r.now[2] = (IF d < w THEN IF w - 1 >= n - 1 THEN 0 ELSE w - 1
                    ELSE IF w >= n - 1 THEN 0 ELSE w)
    BY <1>1, <2>1 DEF FixedNow
  <2>3. PICK i \in 0 .. (n - 2), j \in 0 .. (n - 2) :
          r.tasks[2][j] = v /\ r.tasks[2][i] = u /\ Earlier(r.now[2], j, i)
    <3>1. Ahead(r, v, u) BY DEF r
    <3>2. r.running[2] - 1 = n - 2 BY <1>1, <2>1
    <3> HIDE DEF n
    <3> QED BY <3>1, <3>2 DEF Ahead
  <2> DEFINE a == IF i < d THEN i ELSE i + 1
             b == IF j < d THEN j ELSE j + 1
  <2>4. a \in 0 .. (n - 1) /\ b \in 0 .. (n - 1) BY <1>1, <2>1
  <2>5. s.tasks[2][b] = v /\ s.tasks[2][a] = u BY <2>1, <2>3
  <2>6. Earlier(w, b, a)
    <3>1. d \in 0 .. (n - 1) /\ Earlier(r.now[2], j, i) BY <2>1, <2>3
    <3>2. a = (IF i < d THEN i ELSE i + 1) /\ b = (IF j < d THEN j ELSE j + 1) OBVIOUS
    <3> HIDE DEF n, w, a, b
    <3>3. n \in Nat /\ w \in Nat /\ (w = 0 \/ w < n) BY <1>1
    <3>4. i \in 0 .. (n - 2) /\ j \in 0 .. (n - 2) OBVIOUS
    <3> QED BY ZenonT(30), <2>2, <3>1, <3>2, <3>3, <3>4, GapOrder
  <2> QED BY <2>4, <2>5, <2>6 DEF Ahead
<1> QED BY <1>3, <1>4

LEMMA SwitchOrder ==
    ASSUME NEW s, Stable(s), NEW u, NEW v, Ahead(TaskSwitchSub(s), v, u)
    PROVE  Ahead(s, v, u)
<1>1. Same(s, TaskSwitchSub(s)) BY DEF Stable, Sound, Ctl, TaskSwitchSub, Same
<1> QED BY <1>1, SameOrder

LEMMA SleepOrder ==
    ASSUME NEW s, Stable(s), NEW t \in Tasks \ {IDLE},
           NEW u, NEW v, Ahead(TaskSleep(s, t), v, u)
    PROVE  Ahead(s, v, u)
<1>1. CASE s.flags[t] # 2 BY <1>1 DEF TaskSleep
<1>2. CASE s.flags[t] = 2
  <2>1. Stable(TaskRemove(s, t)) BY <1>2, RemoveStable
  <2>2. Ahead(TaskRemove(s, t), v, u)
    BY <1>2, <2>1, SwitchOrder DEF TaskSleep
  <2> QED BY <1>2, <2>2, RemoveOrder
<1> QED BY <1>1, <1>2

\* The end of a slice puts the task that had it behind all others.
LEMMA AdvanceOrder ==
    ASSUME NEW s, Steady(s), NEW u, u # TaskNow(s), NEW v, Ahead(Advance(s), v, u)
    PROVE  /\ Ahead(s, v, u)
           /\ s.now_lv = 2 => v # TaskNow(s)
<1> DEFINE r == Advance(s)
           n == s.running[2]
           w == s.now[2]
<1>1. /\ Sound(s) /\ s \in Ctl /\ 2 \in Levels
      /\ s.running \in [Levels -> Nat] /\ s.now \in [Levels -> Nat] /\ s.now_lv \in Levels
  BY Constants, Fields DEF Steady, Stable, Sound
<1>2. CASE s.now_lv # 2
  <2>1. Same(s, r) BY <1>1, <1>2 DEF Advance, Ctl, Same
  <2> QED BY <1>2, <2>1, SameOrder
<1>3. CASE s.now_lv = 2
  <2>1. r.running[2] = n /\ r.tasks[2] = s.tasks[2] /\ TaskNow(s) = s.tasks[2][w]
    BY <1>1, <1>3 DEF Advance, Ctl, TaskNow
  <2>2. r.now[2] = (IF w + 1 = n THEN 0 ELSE w + 1)
    BY <1>1, <1>3 DEF Advance, Ctl
  <2>3. n \in Nat /\ w \in Nat /\ w < n BY <1>1, <1>3 DEF Steady
  <2>4. PICK i \in 0 .. (n - 1), j \in 0 .. (n - 1) :
          s.tasks[2][j] = v /\ s.tasks[2][i] = u /\ Earlier(r.now[2], j, i)
    BY <2>1 DEF Ahead
  <2>5. i # w BY <2>1, <2>4
  <2>6. Earlier(w, j, i) /\ j # w BY <2>2, <2>3, <2>4, <2>5 DEF Earlier
  <2>7. v # TaskNow(s)
    BY <1>1, <2>1, <2>3, <2>4, <2>6 DEF Sound, Distinct
  <2> QED BY <2>4, <2>6, <2>7 DEF Ahead
<1> QED BY <1>2, <1>3

\* task_run of HariMain touches levels 0 and 1 only.
LEMMA BootOrder ==
    ASSUME NEW s, Sound(s), s.flags[TASK_A] = 2, s.level[TASK_A] = 0,
           NEW r, r = TaskRun(s, TASK_A, 1)
    PROVE  Same(s, r)
<1> DEFINE q == TaskRemove(s, TASK_A)
           p == Lowered(q)
<1>1. /\ TASK_A \in Tasks /\ 0 \in Levels /\ 1 \in Levels /\ 2 \in Levels
      /\ s.running \in [Levels -> Nat] /\ s.now \in [Levels -> Nat]
      /\ s.tasks \in [Levels -> [0 .. (MAX_TASKS_LV - 1) -> Tasks \cup {NoTask}]]
      /\ s.flags \in [Tasks -> 0 .. 2] /\ s.level \in [Tasks -> Levels]
  BY Constants, Fields
<1>2. Same(s, q) /\ q \in Ctl /\ q.flags[TASK_A] = 1 /\ q.level = s.level
  <2>1. \E d \in 0 .. (s.running[s.level[TASK_A]] - 1) : q = Removed(s, TASK_A, d)
    BY <1>1, RemoveQueue
  <2>2. Same(s, q) BY <1>1, <2>1 DEF Removed, Same
  <2>3. Sound(q) /\ q.flags = [s.flags EXCEPT ![TASK_A] = 1] /\ q.level = s.level
    BY <1>1, RemoveSound
  <2> QED BY <1>1, <2>2, <2>3 DEF Sound
<1> HIDE DEF q
<1>3. /\ p \in Ctl /\ p.flags[TASK_A] = 1 /\ p.level[TASK_A] = 1 /\ Same(q, p)
  BY <1>1, <1>2 DEF Ctl, Lowered, Same
<1>4. r = Added(p, TASK_A)
  <2>1. p.flags[TASK_A] = 1 BY <1>3
  <2> QED BY <1>2, <2>1 DEF TaskRun, Awaken, Added, Lowered, q
<1> HIDE DEF p
<1>5. Same(p, TaskAdd(p, TASK_A)) BY <1>1, <1>3 DEF TaskAdd, Ctl, Same
<1>6. Same(p, r) BY <1>3, <1>4, <1>5 DEF Added, TaskAdd, Ctl, Same
<1> QED BY <1>2, <1>3, <1>6 DEF Same

LEMMA StepOrder ==
    ASSUME Few(ctl') \/ Fits', Base, Base', [Next]_vars,
           NEW u \in Consoles, cpu # u, ctl.flags[u] = 2,
           NEW v \in Consoles, ctl.flags[v] = 2, Ahead(ctl', v, u)
    PROVE  Ahead(ctl, v, u) /\ ~(TimeSlice /\ cpu = v)
<1> USE Split
<1>0. /\ Steady(ctl) /\ Stable(ctl) /\ Sound(ctl) /\ Sound(ctl') /\ TaskNow(ctl) = cpu
      /\ ctl.level[u] = 2 /\ ctl.level[v] = 2 /\ u \in Tasks /\ v \in Tasks
      /\ (Few(ctl') \/ Within(ctl'))
  BY DEF Base, Scheduler, Steady, Stable, Slots, Fits, Within
<1>1. ASSUME TimeSlice PROVE Ahead(ctl, v, u) /\ cpu # v
  <2>1. ctl' = TaskSwitch(ctl) BY <1>1 DEF TimeSlice
  <2>2. Stable(Advance(ctl)) BY <1>0, AdvanceSteady
  <2>3. Ahead(Advance(ctl), v, u)
    BY <2>1, <2>2, SwitchOrder DEF TaskSwitch
  <2>4. Ahead(ctl, v, u) /\ (ctl.now_lv = 2 => v # cpu)
    BY <1>0, <2>3, AdvanceOrder
  <2>5. cpu = v => ctl.now_lv = 2 BY <1>0, CurrentLevel
  <2> QED BY <2>4, <2>5
<1>2. ASSUME ~TimeSlice PROVE Ahead(ctl, v, u)
  <2>1. ASSUME Extends(ctl, ctl') PROVE Ahead(ctl, v, u)
    BY <1>0, <2>1, AddOrder
  <2>2. CASE ctl' = ctl BY <2>2
  <2>3. CASE Boot
    <3>1. ctl' = TaskRun(ctl, TASK_A, 1) /\ ctl.flags[TASK_A] = 2 /\ ctl.level[TASK_A] = 0
      BY <2>3 DEF Boot, Base, Slots
    <3>2. Same(ctl, ctl') BY <1>0, <3>1, BootOrder
    <3> QED BY <3>2, SameOrder
  <2>4. CASE CloseConstask
    <3>1. /\ ctl' = Freed(TaskSleep(ctl, victim), victim) /\ victim \in Tasks \ {IDLE}
          /\ cpu = TASK_A /\ pc[TASK_A] = "close" /\ victim \in Consoles
      BY <2>4 DEF CloseConstask, Freed, Base, Places
    <3>2. ctl.flags[victim] = 2 => ctl.level[victim] # ctl.now_lv
      <4>1. ctl.now_lv = 0 \/ ctl.now_lv = 1
        BY <1>0, <3>1, CurrentLevel DEF Base, Slots
      <4> QED BY <3>1, <4>1 DEF Base, Slots
    <3>3. Steady(TaskSleep(ctl, victim)) BY <1>0, <3>1, <3>2, SleepSteady
    <3> DEFINE p == TaskSleep(ctl, victim)
    <3>4. ctl' = Freed(p, victim) /\ p \in Ctl BY <3>1, <3>3 DEF Steady, Stable, Sound
    <3> HIDE DEF p
    <3>5. Same(p, ctl') BY <3>4 DEF Freed, Ctl, Same
    <3>6. Ahead(p, v, u) BY <3>5, SameOrder
    <3> QED BY <1>0, <3>1, <3>6, SleepOrder DEF p
  <2>5. ASSUME NEW t \in Tasks, OpenConstask(t) PROVE Ahead(ctl, v, u)
    <3>1. PICK s \in Tasks : ctl.flags[s] = 0 /\ ctl' = TaskRun(Allocated(ctl, s), s, 2)
      BY <2>5 DEF OpenConstask, Allocated
    <3>2. s # IDLE BY <1>0, <3>1 DEF Stable
    <3>3. Extends(ctl, ctl') BY <1>0, <3>1, <3>2, OpenSteady
    <3> QED BY <2>1, <3>3
  <2>6. ASSUME NEW t \in Tasks, Sleep(t) \/ ExitSleep(t) PROVE Ahead(ctl, v, u)
    <3>1. ctl' = TaskSleep(ctl, t) /\ t # IDLE
      BY <2>6 DEF Sleep, ExitSleep, Base, Places
    <3> QED BY <1>0, <3>1, SleepOrder
  <2>7. ASSUME NEW t \in Live, NEW e \in {Input} \cup Consoles, e = Input \/ t = TASK_A,
               FifoPut(t, e), UNCHANGED cpu
        PROVE  Ahead(ctl, v, u)
    BY <2>1, <2>7, PutLive
  <2>8. ASSUME NEW t \in Tasks, NEW x \in Tasks, Send(t, x) \/ Interrupt(x)
        PROVE  Ahead(ctl, v, u)
    <3>1. x \in Live /\ FifoPut(x, Input) /\ UNCHANGED cpu BY <2>8 DEF Send, Interrupt
    <3> QED BY <2>7, <3>1
  <2>9. ASSUME NEW x \in Consoles, Break(x) PROVE Ahead(ctl, v, u)
    <3>1. x \in Live /\ ctl' = TaskRun(ctl, x, SAME) /\ UNCHANGED cpu
      BY <2>9 DEF Break, Live
    <3> QED BY <2>1, <3>1, RunLive
  <2>10. ASSUME NEW t \in Tasks, CmdExit(t) PROVE Ahead(ctl, v, u)
    <3>1. t \in Consoles /\ FifoPut(TASK_A, t) /\ UNCHANGED cpu BY <2>10 DEF CmdExit
    <3>2. TASK_A \in Live BY DEF Live, Base, Places
    <3> QED BY <2>7, <3>1, <3>2
  <2>11. ASSUME NEW t \in Tasks, Start(t) \/ Take(t) \/ Done(t) PROVE ctl' = ctl
    BY <2>11 DEF Start, Take, Done
  <2> QED
    BY <1>2, <2>2, <2>3, <2>4, <2>5, <2>6, <2>8, <2>9, <2>10, <2>11 DEF Next, Step, vars
<1> QED BY <1>1, <1>2

\* Consoles take turns: while a console waits for its turn, no other one that is
\* awake gets in front of it, whatever is woken, put to sleep, opened or closed
\* meanwhile and however often task_a preempts them, and who had a slice is
\* behind it (task_switch, and the correction of now in task_remove).  A console
\* that slept may be entered in front of it: the comment at RoundRobin.
THEOREM TurnsKept ==
    Spec /\ []Fits =>
        [][\A u, v \in Consoles :
              cpu # u /\ ctl.flags[u] = 2 /\ ctl.flags[v] = 2 /\ Ahead(ctl, v, u)' =>
                  Ahead(ctl, v, u) /\ ~(TimeSlice /\ cpu = v)]_vars
<1>1. IInv /\ IInv' /\ Fits' /\ [Next]_vars =>
        [\A u, v \in Consoles :
              cpu # u /\ ctl.flags[u] = 2 /\ ctl.flags[v] = 2 /\ Ahead(ctl, v, u)' =>
                  Ahead(ctl, v, u) /\ ~(TimeSlice /\ cpu = v)]_vars
  <2>1. \A u, v : Ahead(ctl, v, u)' <=> Ahead(ctl', v, u) BY DEF Ahead
  <2> QED BY <2>1, StepOrder DEF IInv
<1> QED BY <1>1, InvAlways, PTL DEF Spec
=============================================================================
