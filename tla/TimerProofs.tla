---------------------------- MODULE TimerProofs ----------------------------
(***************************************************************************)
(* Theorems about Timer, for any number of timers and consoles, and any     *)
(* times: the list stays sound, no timer is left behind, the cursors stay   *)
(* alive and the list does what a set of alarms does.                       *)
(***************************************************************************)
EXTENDS Timer, WellFoundedInduction, FiniteSetTheorems, TLAPS

-----------------------------------------------------------------------------
(* Numbers *)

LEMMA Sizes ==
    /\ MAX_TIMER \in Nat /\ MAX_TIMER >= 2 /\ FIFO_SIZE \in Nat /\ FIFO_SIZE >= 1
    /\ SENTINEL = 0 /\ TASK_TIMER = 1 /\ SENTINEL \in Timers /\ TASK_TIMER \in Timers
    /\ NIL = -1 /\ NIL \notin Timers /\ Timers = 0 .. (MAX_TIMER - 1) /\ Timers \subseteq Nat
BY TimerAssumption DEF Timers, SENTINEL, TASK_TIMER, NIL

LEMMA Longest ==
    /\ Max(Times) \in Nat
    /\ Lefts = {-1} \cup 0 .. Max(Times) /\ FOREVER = -1
    /\ \A n \in Times : n \in Lefts /\ n # FOREVER /\ n >= 0
<1>1. Times \subseteq Nat BY TimerAssumption DEF Times
<1>2. PICK m \in Times : \A n \in Times : n <= m BY TimerAssumption
<1>3. Max(Times) \in Times /\ \A n \in Times : n <= Max(Times) BY <1>1, <1>2 DEF Max
<1>4. Lefts = {-1} \cup 0 .. Max(Times) /\ FOREVER = -1 BY DEF Lefts, FOREVER
<1>5. ASSUME NEW n \in Times PROVE n \in Lefts /\ n # FOREVER /\ n >= 0
  <2>1. n \in Nat /\ Max(Times) \in Nat /\ n <= Max(Times) BY <1>1, <1>3
  <2> QED BY <2>1, <1>4
<1> QED BY <1>1, <1>3, <1>4, <1>5

LEMMA LessWellFounded == IsWellFoundedOn({p \in Nat \X Nat : p[1] < p[2]}, Nat)
<1>1. OpToRel(<, Nat) = {p \in Nat \X Nat : p[1] < p[2]} BY Zenon DEF OpToRel
<1> QED BY <1>1, NatLessThanWellFounded, Zenon

LEMMA Smallest ==
    ASSUME NEW S \in SUBSET Nat, S # {}
    PROVE  \E m \in S : \A n \in S : m <= n
<1> PICK R : R = {p \in Nat \X Nat : p[1] < p[2]} OBVIOUS
<1>1. IsWellFoundedOn(R, Nat) BY LessWellFounded
<1>2. PICK m \in S : \A n \in S : <<n, m>> \notin R BY <1>1, WFMin
<1>3. ASSUME NEW n \in S PROVE m <= n
  <2>1. <<n, m>> \notin R /\ <<n, m>> \in Nat \X Nat BY <1>2
  <2>2. ~(n < m) BY <2>1
  <2> QED BY <2>2
<1> QED BY <1>3

\* What holds for 0 and carries over to the next number holds up to n.
LEMMA Counting ==
    ASSUME NEW n \in Nat, NEW S, 0 \in S, \A k \in 0 .. (n - 1) : k \in S => k + 1 \in S
    PROVE  \A k \in 0 .. n : k \in S
<1>1. SUFFICES ASSUME NEW j \in 0 .. n, j \notin S PROVE FALSE OBVIOUS
<1> PICK T : T = (0 .. n) \ S OBVIOUS
<1>2. PICK m \in T : \A k \in T : m <= k
  <2>1. T \in SUBSET Nat /\ T # {} BY <1>1
  <2> QED BY <2>1, Smallest
<1>3. m - 1 \in 0 .. (n - 1) /\ ~(m <= m - 1) /\ (m - 1) + 1 = m BY <1>2
<1> QED BY <1>2, <1>3

-----------------------------------------------------------------------------
(* Walking along the list *)

LEMMA WalkUnfolded ==
    ASSUME NEW s
    PROVE  Walk(s) = [k \in 0 .. MAX_TIMER |-> IF k = 0 THEN s.t0 ELSE After(s, Walk(s)[k - 1])]
<1> DEFINE Upto(n, f) == f = [k \in 0 .. n |-> IF k = 0 THEN s.t0 ELSE After(s, f[k - 1])]
<1> HIDE DEF Upto
<1>s. PICK S : S = {n \in 0 .. MAX_TIMER : \E f : Upto(n, f)} OBVIOUS
<1>1. 0 \in S
  <2>1. Upto(0, [k \in 0 .. 0 |-> s.t0]) BY DEF Upto
  <2>2. 0 \in 0 .. MAX_TIMER BY Sizes
  <2> QED BY <1>s, <2>1, <2>2, Zenon
<1>2. ASSUME NEW n \in 0 .. (MAX_TIMER - 1), n \in S PROVE n + 1 \in S
  <2>1. PICK f : f = [k \in 0 .. n |-> IF k = 0 THEN s.t0 ELSE After(s, f[k - 1])]
    BY <1>2, <1>s, Zenon DEF Upto
  <2> DEFINE g == [k \in 0 .. (n + 1) |-> IF k = n + 1 THEN After(s, f[n]) ELSE f[k]]
  <2>2. ASSUME NEW k \in 0 .. (n + 1) PROVE g[k] = IF k = 0 THEN s.t0 ELSE After(s, g[k - 1])
    <3>1. CASE k = 0 BY <2>1, <3>1
    <3>2. CASE k = n + 1
      <4>1. g[k] = After(s, f[n]) /\ g[n] = f[n] /\ k - 1 = n BY <3>2
      <4> QED BY <4>1, <3>2
    <3>3. CASE k # 0 /\ k # n + 1
      <4>1. k \in 0 .. n /\ k - 1 \in 0 .. n /\ k # n + 1 /\ k - 1 # n + 1 BY <3>3
      <4>2. f[k] = After(s, f[k - 1]) BY <2>1, <3>3, <4>1
      <4>3. g[k] = f[k] /\ g[k - 1] = f[k - 1] BY <4>1
      <4> QED BY <3>3, <4>2, <4>3
    <3> QED BY <3>1, <3>2, <3>3
  <2>3. g = [k \in 0 .. (n + 1) |-> g[k]] OBVIOUS
  <2> HIDE DEF g
  <2>4. Upto(n + 1, g) BY <2>2, <2>3 DEF Upto
  <2>5. n + 1 \in 0 .. MAX_TIMER BY Sizes
  <2> QED BY <1>s, <2>4, <2>5, Zenon
<1>3. \A k \in 0 .. MAX_TIMER : k \in S
  <2>1. MAX_TIMER \in Nat BY Sizes
  <2> QED BY <1>1, <1>2, <2>1, Counting
<1>4. PICK f : Upto(MAX_TIMER, f)
  <2>1. MAX_TIMER \in 0 .. MAX_TIMER BY Sizes
  <2> QED BY <1>3, <1>s, <2>1, Zenon
<1>5. Walk(s) = CHOOSE g : Upto(MAX_TIMER, g) BY DEF Walk, Upto
<1>6. Upto(MAX_TIMER, Walk(s)) BY <1>4, <1>5, Zenon
<1> QED BY <1>6 DEF Upto

-----------------------------------------------------------------------------
(* The list *)

TM == [t0 : Timers, next : Lefts, link : [Timers -> Pointers], left : [Timers -> Lefts],
       flags : [Timers -> {FREE, ALLOC, USING}]]

\* The list of s holds the timers of R, from q[0] to q[n], ordered by timeout.
List(s, R, n, q) ==
    /\ s \in TM
    /\ n \in Nat /\ q \in [0 .. n -> Timers]
    /\ \A j, k \in 0 .. n : q[j] = q[k] => j = k
    /\ R = {q[k] : k \in 0 .. n}
    /\ q[0] = s.t0 /\ q[n] = SENTINEL
    /\ \A k \in 0 .. (n - 1) : s.link[q[k]] = q[k + 1]
    /\ s.link[SENTINEL] = NIL
    /\ \A j, k \in 0 .. (n - 1) : j <= k => s.left[q[j]] <= s.left[q[k]]
    /\ \A t \in Timers : s.left[t] = FOREVER <=> t = SENTINEL
    /\ s.next = s.left[s.t0]

LEMMA Fields ==
    ASSUME NEW s \in TM
    PROVE  /\ s = [t0 |-> s.t0, next |-> s.next, link |-> s.link, left |-> s.left, flags |-> s.flags]
           /\ s.t0 \in Timers /\ s.next \in Lefts /\ s.link \in [Timers -> Pointers]
           /\ s.left \in [Timers -> Lefts] /\ s.flags \in [Timers -> {FREE, ALLOC, USING}]
BY DEF TM

\* The times of all timers but the sentinel are numbers.
LEMMA Counts ==
    ASSUME NEW s \in TM, \A t \in Timers : s.left[t] = FOREVER <=> t = SENTINEL
    PROVE  /\ s.left[SENTINEL] = -1
           /\ \A t \in Timers : t # SENTINEL => s.left[t] \in 0 .. Max(Times) /\ s.left[t] \in Nat
<1>1. \A t \in Timers : s.left[t] \in {-1} \cup 0 .. Max(Times) BY Fields, Longest
<1> QED BY <1>1, Longest, Sizes

LEMMA ListCount ==
    ASSUME NEW s, NEW R, NEW n, NEW q, List(s, R, n, q)
    PROVE  IsFiniteSet(R) /\ Cardinality(R) = n + 1 /\ n <= MAX_TIMER - 1 /\ R \in SUBSET Timers
<1>1. n \in Nat /\ q \in [0 .. n -> Timers] /\ R = {q[k] : k \in 0 .. n}
      /\ \A j, k \in 0 .. n : q[j] = q[k] => j = k
  BY DEF List
<1>2. IsFiniteSet(0 .. n) /\ Cardinality(0 .. n) = n + 1 BY <1>1, FS_Interval
<1>3. R \in SUBSET Timers BY <1>1
<1>4. q \in Bijection(0 .. n, R)
  <2>1. q \in [0 .. n -> R] BY <1>1
  <2>2. \A r \in R : \E k \in 0 .. n : q[k] = r BY <1>1
  <2> QED BY <1>1, <2>1, <2>2 DEF Bijection, Injection, Surjection, IsInjective
<1>5. ExistsBijection(0 .. n, R) BY <1>4 DEF ExistsBijection
<1>6. IsFiniteSet(R) /\ Cardinality(R) = n + 1 BY <1>2, <1>5, FS_Bijection
<1>7. IsFiniteSet(Timers) /\ Cardinality(Timers) = MAX_TIMER
  <2>1. 0 \in Int /\ MAX_TIMER - 1 \in Int /\ ~(0 > MAX_TIMER - 1) /\ ((MAX_TIMER - 1) - 0) + 1 = MAX_TIMER BY Sizes
  <2> QED BY <2>1, FS_Interval, Sizes
<1>8. Cardinality(R) <= Cardinality(Timers) BY <1>3, <1>7, FS_Subset
<1>9. n + 1 <= MAX_TIMER BY <1>6, <1>7, <1>8
<1> QED BY <1>1, <1>3, <1>6, <1>9, Sizes

LEMMA WalkIs ==
    ASSUME NEW s, NEW R, NEW n, NEW q, List(s, R, n, q)
    PROVE  \A k \in 0 .. MAX_TIMER : Walk(s)[k] = IF k <= n THEN q[k] ELSE NIL
<1> PICK at : at = Walk(s) OBVIOUS
<1>1. /\ n \in Nat /\ q \in [0 .. n -> Timers] /\ q[0] = s.t0 /\ q[n] = SENTINEL
      /\ \A k \in 0 .. (n - 1) : s.link[q[k]] = q[k + 1]
      /\ s.link[SENTINEL] = NIL
  BY DEF List
<1>2. \A k \in 0 .. MAX_TIMER : at[k] = IF k = 0 THEN s.t0 ELSE After(s, at[k - 1])
  BY WalkUnfolded, Zenon
<1>3. MAX_TIMER \in Nat BY Sizes
<1>s. PICK S : S = {k \in 0 .. MAX_TIMER : at[k] = IF k <= n THEN q[k] ELSE NIL} OBVIOUS
<1>4. 0 \in S
  <2>1. 0 \in 0 .. MAX_TIMER /\ 0 <= n BY <1>1, <1>3
  <2>2. at[0] = q[0] BY <1>1, <1>2, <2>1
  <2> QED BY <1>s, <2>1, <2>2
<1>5. ASSUME NEW k \in 0 .. (MAX_TIMER - 1), k \in S PROVE k + 1 \in S
  <2>1. k \in 0 .. MAX_TIMER /\ k + 1 \in 0 .. MAX_TIMER /\ k + 1 # 0 /\ (k + 1) - 1 = k BY <1>3
  <2>2. at[k] = IF k <= n THEN q[k] ELSE NIL BY <1>s, <1>5
  <2>3. at[k + 1] = After(s, at[k])
    <3>1. at[k + 1] = After(s, at[(k + 1) - 1]) BY <1>2, <2>1, Zenon
    <3> QED BY <3>1, <2>1
  <2>4. at[k + 1] = IF k + 1 <= n THEN q[k + 1] ELSE NIL
    <3>1. CASE k + 1 <= n
      <4>1. k \in 0 .. n /\ k \in 0 .. (n - 1) /\ k <= n BY <1>1, <3>1
      <4>2. q[k] \in Timers /\ q[k] # NIL BY <1>1, <4>1, Sizes
      <4>3. at[k + 1] = s.link[q[k]] BY <2>2, <2>3, <4>1, <4>2 DEF After
      <4> QED BY <1>1, <3>1, <4>1, <4>3
    <3>2. CASE k = n
      <4>1. at[k] = SENTINEL /\ SENTINEL # NIL /\ ~(k + 1 <= n) BY <1>1, <2>2, <3>2, Sizes
      <4> QED BY <1>1, <2>3, <4>1 DEF After
    <3>3. CASE k > n
      <4>1. at[k] = NIL /\ ~(k + 1 <= n) BY <1>1, <2>2, <3>3
      <4> QED BY <2>3, <4>1 DEF After
    <3> QED BY <1>1, <3>1, <3>2, <3>3
  <2> QED BY <1>s, <2>1, <2>4
<1>6. \A k \in 0 .. MAX_TIMER : k \in S BY <1>3, <1>4, <1>5, Counting
<1> QED BY <1>s, <1>6

-----------------------------------------------------------------------------
(* Setting a timer *)

LEMMA PlaceIs ==
    ASSUME NEW s, NEW R, NEW n, NEW q, List(s, R, n, q), NEW x \in Nat
    PROVE  /\ Place(s, x) \in 0 .. n
           /\ Place(s, x) < n => x <= s.left[q[Place(s, x)]]
           /\ \A j \in 0 .. (Place(s, x) - 1) : s.left[q[j]] < x
<1> DEFINE Stops(k) == /\ Walk(s)[k] # NIL /\ NotAfter(x, s, Walk(s)[k])
                       /\ \A j \in 0 .. (k - 1) : ~NotAfter(x, s, Walk(s)[j])
<1>1. /\ n \in Nat /\ q \in [0 .. n -> Timers] /\ q[n] = SENTINEL
      /\ \A j, k \in 0 .. n : q[j] = q[k] => j = k
      /\ s \in TM /\ \A t \in Timers : s.left[t] = FOREVER <=> t = SENTINEL
  BY DEF List
<1>2. n <= MAX_TIMER - 1 /\ MAX_TIMER \in Nat BY ListCount, Sizes
<1>3. \A k \in 0 .. MAX_TIMER : Walk(s)[k] = IF k <= n THEN q[k] ELSE NIL BY WalkIs
<1>4. \A k \in 0 .. n : Walk(s)[k] = q[k] /\ q[k] \in Timers /\ q[k] # NIL
  <2>1. \A k \in 0 .. n : k \in 0 .. MAX_TIMER /\ k <= n BY <1>1, <1>2
  <2>2. \A k \in 0 .. n : Walk(s)[k] = q[k] BY <1>3, <2>1
  <2>3. \A k \in 0 .. n : q[k] \in Timers /\ q[k] # NIL BY <1>1, Sizes
  <2> QED BY <2>2, <2>3
<1>5. \A k \in 0 .. (n - 1) : q[k] # SENTINEL /\ s.left[q[k]] \in Nat /\ k \in 0 .. n
  <2>1. ASSUME NEW k \in 0 .. (n - 1) PROVE q[k] # SENTINEL /\ k \in 0 .. n
    <3>1. k \in 0 .. n /\ n \in 0 .. n /\ k # n BY <1>1
    <3> QED BY <1>1, <3>1
  <2>2. \A k \in 0 .. (n - 1) : q[k] \in Timers BY <1>1, <2>1
  <2>3. \A t \in Timers : t # SENTINEL => s.left[t] \in Nat BY <1>1, Counts
  <2> QED BY <2>1, <2>2, <2>3
<1>s. PICK S : S = {k \in 0 .. n : NotAfter(x, s, q[k])} OBVIOUS
<1>6. n \in S BY <1>s, <1>1, Sizes DEF NotAfter
<1>7. PICK m \in S : \A k \in S : m <= k
  <2>1. S \in SUBSET Nat BY <1>s, <1>1
  <2> QED BY <1>6, <2>1, Smallest
<1>8. m \in 0 .. n /\ NotAfter(x, s, q[m]) /\ \A j \in 0 .. (m - 1) : ~NotAfter(x, s, q[j])
  <2>1. \A j \in 0 .. (m - 1) : j \in 0 .. n /\ ~(m <= j) BY <1>s, <1>1, <1>7
  <2> QED BY <1>s, <1>7, <2>1
<1>9. Stops(m)
  <2>1. \A j \in 0 .. (m - 1) : j \in 0 .. n BY <1>1, <1>8
  <2> QED BY <1>4, <1>8, <2>1
<1>10. m \in 0 .. (MAX_TIMER - 1) BY <1>1, <1>2, <1>8
<1>11. Place(s, x) = CHOOSE k \in 0 .. (MAX_TIMER - 1) : Stops(k) BY DEF Place
<1> HIDE DEF Stops
<1> PICK p : p = Place(s, x) OBVIOUS
<1>12. p \in 0 .. (MAX_TIMER - 1) /\ Stops(p) BY <1>9, <1>10, <1>11
<1> USE DEF Stops
<1>13. p \in 0 .. n
  <2>1. p \in 0 .. MAX_TIMER BY <1>2, <1>12
  <2>2. p <= n BY <1>3, <1>12, <2>1
  <2> QED BY <1>12, <2>2
<1>14. p < n => x <= s.left[q[p]]
  <2> SUFFICES ASSUME p < n PROVE x <= s.left[q[p]] OBVIOUS
  <2>1. p \in 0 .. (n - 1) BY <1>1, <1>13
  <2>2. s.left[q[p]] # FOREVER BY <1>1, <1>4, <1>5, <1>13, <2>1
  <2> QED BY <1>4, <1>12, <1>13, <2>2 DEF NotAfter
<1>15. ASSUME NEW j \in 0 .. (p - 1) PROVE s.left[q[j]] < x
  <2>1. j \in 0 .. (n - 1) /\ j \in 0 .. n BY <1>1, <1>13
  <2>2. ~NotAfter(x, s, q[j]) BY <1>4, <1>12, <2>1
  <2>3. ~(x <= s.left[q[j]]) BY <2>2 DEF NotAfter
  <2> QED BY <1>5, <2>1, <2>3
<1> QED BY <1>13, <1>14, <1>15

\* What Link does: new is s with t behind the first p timers.
LinkedAt(new, s, n, q, t, p) ==
    /\ new \in TM /\ new.left = s.left /\ new.flags = s.flags
    /\ p \in 0 .. n
    /\ p = 0 => /\ new.t0 = t /\ new.next = s.left[t]
                /\ \A u \in Timers : new.link[u] = IF u = t THEN s.t0 ELSE s.link[u]
    /\ p # 0 => /\ new.t0 = s.t0 /\ new.next = s.next
                /\ \A u \in Timers :
                      new.link[u] = IF u = t THEN q[p] ELSE IF u = q[p - 1] THEN t ELSE s.link[u]
    /\ p < n => s.left[t] <= s.left[q[p]]
    /\ \A j \in 0 .. (p - 1) : s.left[q[j]] < s.left[t]

LEMMA LinkResult ==
    ASSUME NEW s, NEW R, NEW n, NEW q, List(s, R, n, q), NEW t \in Timers \ R
    PROVE  LinkedAt(Link(s, t), s, n, q, t, Place(s, s.left[t]))
<1> PICK p : p = Place(s, s.left[t]) OBVIOUS
<1> PICK new : new = Link(s, t) OBVIOUS
<1>1. /\ n \in Nat /\ q \in [0 .. n -> Timers] /\ q[n] = SENTINEL /\ s \in TM /\ n \in 0 .. n
      /\ R = {q[k] : k \in 0 .. n}
      /\ \A u \in Timers : s.left[u] = FOREVER <=> u = SENTINEL
  BY DEF List
<1>2. n <= MAX_TIMER - 1 /\ MAX_TIMER \in Nat BY ListCount, Sizes
<1>3. \A k \in 0 .. MAX_TIMER : Walk(s)[k] = IF k <= n THEN q[k] ELSE NIL BY WalkIs
<1>4. s.left[t] \in Nat /\ s.left[t] \in Lefts
  <2>1. SENTINEL \in R BY <1>1
  <2>2. t # SENTINEL BY <2>1
  <2> QED BY <1>1, <2>2, Counts, Fields
<1>5. /\ p \in 0 .. n
      /\ p < n => s.left[t] <= s.left[q[p]]
      /\ \A j \in 0 .. (p - 1) : s.left[q[j]] < s.left[t]
  BY <1>4, PlaceIs
<1>6. /\ s = [t0 |-> s.t0, next |-> s.next, link |-> s.link, left |-> s.left, flags |-> s.flags]
      /\ s.t0 \in Timers /\ s.next \in Lefts /\ s.link \in [Timers -> Pointers]
      /\ s.left \in [Timers -> Lefts] /\ s.flags \in [Timers -> {FREE, ALLOC, USING}]
  BY <1>1, Fields
<1>7. CASE p = 0
  <2>1. new = [s EXCEPT !.t0 = t, !.link[t] = s.t0, !.next = s.left[t]] BY <1>7, Zenon DEF Link
  <2> PICK link2 : link2 = [s.link EXCEPT ![t] = s.t0] OBVIOUS
  <2>2. new = [t0 |-> t, next |-> s.left[t], link |-> link2, left |-> s.left, flags |-> s.flags]
    BY <1>6, <2>1
  <2>3. link2 \in [Timers -> Pointers] BY <1>6 DEF Pointers
  <2>4. new \in TM BY <1>4, <1>6, <2>2, <2>3 DEF TM
  <2>5. new.t0 = t /\ new.next = s.left[t] /\ new.link = link2 /\ new.left = s.left /\ new.flags = s.flags
    BY <2>2
  <2>6. \A u \in Timers : link2[u] = IF u = t THEN s.t0 ELSE s.link[u] BY <1>6
  <2> QED BY <1>5, <1>7, <2>4, <2>5, <2>6, Zenon DEF LinkedAt
<1>8. CASE p # 0
  <2>1. Walk(s)[p - 1] = q[p - 1] /\ Walk(s)[p] = q[p] /\ q[p - 1] \in Timers /\ q[p] \in Timers
    <3>1. p - 1 \in 0 .. MAX_TIMER /\ p - 1 <= n /\ p \in 0 .. MAX_TIMER /\ p <= n /\ p - 1 \in 0 .. n
      <4>1. p \in 0 .. n /\ n \in Nat BY <1>1, <1>5
      <4> QED BY <1>2, <1>8, <4>1
    <3> QED BY <1>1, <1>3, <1>5, <3>1
  <2>2. new = [s EXCEPT !.link[q[p - 1]] = t, !.link[t] = q[p]] BY <1>8, <2>1, Zenon DEF Link
  <2> PICK link2 : link2 = [s.link EXCEPT ![q[p - 1]] = t, ![t] = q[p]] OBVIOUS
  <2>3. new = [t0 |-> s.t0, next |-> s.next, link |-> link2, left |-> s.left, flags |-> s.flags]
    BY <1>6, <2>2
  <2>4. link2 \in [Timers -> Pointers] BY <1>6, <2>1 DEF Pointers
  <2>5. new \in TM BY <1>6, <2>3, <2>4 DEF TM
  <2>6. /\ new.t0 = s.t0 /\ new.next = s.next /\ new.link = link2 /\ new.left = s.left
        /\ new.flags = s.flags
    BY <2>3
  <2>7. \A u \in Timers : link2[u] = IF u = t THEN q[p] ELSE IF u = q[p - 1] THEN t ELSE s.link[u]
    BY <1>6, <2>1
  <2> QED BY <1>5, <1>8, <2>5, <2>6, <2>7, Zenon DEF LinkedAt
<1> QED BY <1>7, <1>8

\* timer_settime puts a timer in its place.
LEMMA Linked ==
    ASSUME NEW s, NEW R, NEW n, NEW q, List(s, R, n, q), NEW t \in Timers \ R
    PROVE  \E q2 : List(Link(s, t), R \cup {t}, n + 1, q2)
<1> PICK p : p = Place(s, s.left[t]) OBVIOUS
<1> PICK new : new = Link(s, t) OBVIOUS
<1> PICK q2 : q2 = [k \in 0 .. (n + 1) |-> IF k < p THEN q[k] ELSE IF k = p THEN t ELSE q[k - 1]] OBVIOUS
<1>1. /\ n \in Nat /\ q \in [0 .. n -> Timers]
      /\ \A j, k \in 0 .. n : q[j] = q[k] => j = k
      /\ R = {q[k] : k \in 0 .. n}
      /\ q[0] = s.t0 /\ q[n] = SENTINEL
      /\ \A k \in 0 .. (n - 1) : s.link[q[k]] = q[k + 1]
      /\ s.link[SENTINEL] = NIL
      /\ \A j, k \in 0 .. (n - 1) : j <= k => s.left[q[j]] <= s.left[q[k]]
      /\ \A u \in Timers : s.left[u] = FOREVER <=> u = SENTINEL
      /\ s.next = s.left[s.t0]
      /\ s \in TM
  BY DEF List
<1>a. LinkedAt(new, s, n, q, t, p) BY LinkResult, Zenon
<1>2. /\ new \in TM /\ new.left = s.left
      /\ p \in 0 .. n
      /\ p = 0 => /\ new.t0 = t /\ new.next = s.left[t]
                  /\ \A u \in Timers : new.link[u] = IF u = t THEN s.t0 ELSE s.link[u]
      /\ p # 0 => /\ new.t0 = s.t0 /\ new.next = s.next
                  /\ \A u \in Timers :
                        new.link[u] = IF u = t THEN q[p] ELSE IF u = q[p - 1] THEN t ELSE s.link[u]
      /\ p < n => s.left[t] <= s.left[q[p]]
      /\ \A j \in 0 .. (p - 1) : s.left[q[j]] < s.left[t]
  BY <1>a, Zenon DEF LinkedAt
<1>0. n \in Nat /\ p \in 0 .. n BY <1>1, <1>2
<1>3. s.link \in [Timers -> Pointers] BY <1>1, Fields
<1>4. \A k \in 0 .. n : q[k] \in Timers /\ q[k] \in R /\ q[k] # t BY <1>1
<1>5. /\ \A k \in 0 .. (p - 1) : q2[k] = q[k] /\ k \in 0 .. n /\ k \in 0 .. (n + 1)
      /\ q2[p] = t /\ p \in 0 .. (n + 1)
      /\ \A k \in (p + 1) .. (n + 1) : q2[k] = q[k - 1] /\ k - 1 \in 0 .. n /\ k \in 0 .. (n + 1)
  BY <1>1, <1>2
<1>6. \A k \in 0 .. (n + 1) : k \in 0 .. (p - 1) \/ k = p \/ k \in (p + 1) .. (n + 1) BY <1>1, <1>2
<1>7. q2 \in [0 .. (n + 1) -> Timers]
  <2>1. \A k \in 0 .. (n + 1) : q2[k] \in Timers BY <1>4, <1>5, <1>6
  <2> QED BY <2>1
<1>8. ASSUME NEW j \in 0 .. (n + 1), NEW k \in 0 .. (n + 1), q2[j] = q2[k] PROVE j = k
  <2>1. \A i \in 0 .. (n + 1) : i # p => q2[i] # t BY <1>4, <1>5, <1>6
  <2>2. CASE j = p \/ k = p BY <1>5, <1>8, <2>1, <2>2
  <2>3. CASE j # p /\ k # p
    <3> PICK i : i = (IF j < p THEN j ELSE j - 1) OBVIOUS
    <3> PICK l : l = (IF k < p THEN k ELSE k - 1) OBVIOUS
    <3>1. i \in 0 .. n /\ l \in 0 .. n BY <1>1, <1>2, <2>3
    <3>2. q2[j] = q[i] /\ q2[k] = q[l] BY <2>3
    <3>3. i = l BY <1>1, <1>8, <3>1, <3>2
    <3> QED BY <1>1, <1>2, <2>3, <3>3
  <2> QED BY <2>2, <2>3
<1>9. R \cup {t} = {q2[k] : k \in 0 .. (n + 1)}
  <2>1. ASSUME NEW u \in R PROVE \E k \in 0 .. (n + 1) : u = q2[k]
    <3>1. PICK k \in 0 .. n : u = q[k] BY <1>1
    <3>2. CASE k < p BY <1>1, <1>2, <1>5, <3>1, <3>2
    <3>3. CASE k >= p
      <4>1. k + 1 \in (p + 1) .. (n + 1) /\ (k + 1) - 1 = k BY <1>0, <3>3
      <4> QED BY <1>5, <3>1, <4>1
    <3> QED BY <1>1, <1>2, <3>2, <3>3
  <2>2. \A k \in 0 .. (n + 1) : q2[k] \in R \cup {t} BY <1>4, <1>5, <1>6
  <2> QED BY <1>5, <2>1, <2>2
<1>10. q2[0] = new.t0 /\ q2[n + 1] = SENTINEL /\ new.next = new.left[new.t0]
  <2>1. q2[n + 1] = SENTINEL
    <3>1. n + 1 \in (p + 1) .. (n + 1) /\ (n + 1) - 1 = n BY <1>1, <1>2
    <3> QED BY <1>1, <1>5, <3>1
  <2>2. CASE p = 0 BY <1>2, <1>5, <2>1, <2>2
  <2>3. CASE p # 0
    <3>1. 0 \in 0 .. (p - 1) BY <1>2, <2>3
    <3> QED BY <1>1, <1>2, <1>5, <2>1, <2>3, <3>1
  <2> QED BY <2>2, <2>3
<1>11. /\ new.link[t] = q[p]
       /\ p # 0 => new.link[q[p - 1]] = t
       /\ \A k \in 0 .. n : k # p - 1 => new.link[q[k]] = s.link[q[k]]
  <2>1. CASE p = 0 BY <1>1, <1>2, <1>3, <1>4, <2>1
  <2>2. CASE p # 0
    <3>1. p - 1 \in 0 .. n /\ q[p - 1] \in Timers /\ q[p - 1] # t BY <1>1, <1>2, <1>4, <2>2
    <3>2. \A k \in 0 .. n : k # p - 1 => q[k] # q[p - 1] BY <1>1, <3>1
    <3> QED BY <1>2, <1>3, <1>4, <2>2, <3>1, <3>2
  <2> QED BY <2>1, <2>2
<1>12. ASSUME NEW k \in 0 .. n PROVE new.link[q2[k]] = q2[k + 1]
  <2>1. CASE k < p - 1
    <3>1. k \in 0 .. (p - 1) /\ k + 1 \in 0 .. (p - 1) /\ k # p - 1 /\ k \in 0 .. (n - 1) BY <1>1, <1>2, <2>1
    <3> QED BY <1>1, <1>5, <1>11, <3>1
  <2>2. CASE k = p - 1
    <3>1. k \in 0 .. (p - 1) /\ k + 1 = p /\ p # 0 BY <1>1, <1>2, <2>2
    <3> QED BY <1>5, <1>11, <2>2, <3>1
  <2>3. CASE k = p
    <3>1. k + 1 \in (p + 1) .. (n + 1) /\ (k + 1) - 1 = p BY <1>1, <1>2, <2>3
    <3> QED BY <1>5, <1>11, <2>3, <3>1
  <2>4. CASE k > p
    <3>1. k \in (p + 1) .. (n + 1) /\ k + 1 \in (p + 1) .. (n + 1) /\ (k + 1) - 1 = (k - 1) + 1
          /\ k - 1 \in 0 .. n /\ k - 1 # p - 1 /\ k - 1 \in 0 .. (n - 1)
      BY <1>1, <1>2, <2>4
    <3>2. q2[k] = q[k - 1] /\ q2[k + 1] = q[(k - 1) + 1] BY <1>5, <3>1
    <3> QED BY <1>1, <1>11, <3>1, <3>2
  <2> QED BY <1>1, <1>2, <2>1, <2>2, <2>3, <2>4
<1>13. new.link[SENTINEL] = NIL
  <2>1. n # p - 1 /\ n \in 0 .. n BY <1>1, <1>2
  <2> QED BY <1>1, <1>11, <2>1
<1>14. ASSUME NEW j \in 0 .. n, NEW k \in 0 .. n, j <= k PROVE new.left[q2[j]] <= new.left[q2[k]]
  <2>1. \A i \in 0 .. (n - 1) : q[i] \in Timers /\ q[i] # SENTINEL /\ s.left[q[i]] \in Nat
    <3>1. \A i \in 0 .. (n - 1) : i \in 0 .. n /\ n \in 0 .. n /\ i # n BY <1>1
    <3>2. \A i \in 0 .. (n - 1) : q[i] \in Timers /\ q[i] # SENTINEL BY <1>1, <3>1
    <3>3. \A u \in Timers : u # SENTINEL => s.left[u] \in Nat BY <1>1, Counts
    <3> QED BY <3>2, <3>3
  <2>2. s.left[t] \in Nat
    <3>1. t # SENTINEL
      <4>1. n \in 0 .. n BY <1>1
      <4> QED BY <1>1, <1>4, <4>1
    <3> QED BY <1>1, <3>1, Counts
  <2>3. \A i \in 0 .. (n - 1) : p <= i => s.left[t] <= s.left[q[i]]
    <3>1. ASSUME NEW i \in 0 .. (n - 1), p <= i PROVE s.left[t] <= s.left[q[i]]
      <4>1. p \in 0 .. (n - 1) /\ p < n BY <1>1, <1>2, <3>1
      <4>2. s.left[q[p]] <= s.left[q[i]] /\ s.left[t] <= s.left[q[p]] BY <1>1, <1>2, <3>1, <4>1
      <4> QED BY <2>1, <2>2, <4>1, <4>2
    <3> QED BY <3>1
  <2>4. CASE k < p
    <3>1. j \in 0 .. (p - 1) /\ k \in 0 .. (p - 1) /\ j \in 0 .. (n - 1) /\ k \in 0 .. (n - 1)
      BY <1>1, <1>2, <1>14, <2>4
    <3> QED BY <1>1, <1>2, <1>5, <1>14, <3>1
  <2>5. CASE k = p
    <3>1. CASE j = p BY <1>2, <1>5, <2>2, <2>5, <3>1
    <3>2. CASE j < p
      <4>1. j \in 0 .. (p - 1) /\ j \in 0 .. (n - 1) BY <1>1, <1>2, <3>2
      <4>2. s.left[q[j]] < s.left[t] /\ s.left[q[j]] \in Nat BY <1>2, <2>1, <4>1
      <4> QED BY <1>2, <1>5, <2>2, <2>5, <4>1, <4>2
    <3> QED BY <1>1, <1>2, <1>14, <2>5, <3>1, <3>2
  <2>6. CASE k > p
    <3>1. k \in (p + 1) .. (n + 1) /\ k - 1 \in 0 .. (n - 1) /\ p <= k - 1 BY <1>1, <1>2, <2>6
    <3>2. q2[k] = q[k - 1] BY <1>5, <3>1
    <3>3. CASE j < p
      <4>1. j \in 0 .. (p - 1) /\ j \in 0 .. (n - 1) /\ j <= k - 1 BY <1>1, <1>2, <2>6, <3>3
      <4> QED BY <1>1, <1>2, <1>5, <3>1, <3>2, <4>1
    <3>4. CASE j = p BY <1>2, <1>5, <2>3, <3>1, <3>2, <3>4
    <3>5. CASE j > p
      <4>1. j \in (p + 1) .. (n + 1) /\ j - 1 \in 0 .. (n - 1) /\ j - 1 <= k - 1
        BY <1>1, <1>2, <1>14, <2>6, <3>5
      <4> QED BY <1>1, <1>2, <1>5, <3>1, <3>2, <4>1
    <3> QED BY <1>1, <1>2, <3>3, <3>4, <3>5
  <2> QED BY <1>1, <1>2, <2>4, <2>5, <2>6
<1>15. List(new, R \cup {t}, n + 1, q2)
  <2>1. n + 1 \in Nat /\ (n + 1) - 1 = n BY <1>0
  <2>2. \A u \in Timers : new.left[u] = FOREVER <=> u = SENTINEL BY <1>1, <1>2
  <2>3. \A j, k \in 0 .. (n + 1) : q2[j] = q2[k] => j = k BY <1>8
  <2>4. \A k \in 0 .. ((n + 1) - 1) : new.link[q2[k]] = q2[k + 1] BY <1>12, <2>1
  <2>5. \A j, k \in 0 .. ((n + 1) - 1) : j <= k => new.left[q2[j]] <= new.left[q2[k]] BY <1>14, <2>1
  <2>6. new \in TM BY <1>2
  <2> QED BY <1>7, <1>9, <1>10, <1>13, <2>1, <2>2, <2>3, <2>4, <2>5, <2>6, Zenon DEF List
<1> QED BY <1>15

-----------------------------------------------------------------------------
(* What leaves the list as it is *)

LEMMA ListFlags ==
    ASSUME NEW s, NEW R, NEW n, NEW q, List(s, R, n, q), NEW s2 \in TM,
           s2.t0 = s.t0, s2.next = s.next, s2.link = s.link, s2.left = s.left
    PROVE  List(s2, R, n, q)
BY Zenon DEF List

LEMMA PreparedFields ==
    ASSUME NEW s \in TM, NEW t \in Timers, NEW x \in Times
    PROVE  /\ Prepared(s, t, x) \in TM
           /\ Prepared(s, t, x).t0 = s.t0 /\ Prepared(s, t, x).next = s.next
           /\ Prepared(s, t, x).link = s.link
           /\ \A u \in Timers : Prepared(s, t, x).left[u] = IF u = t THEN x ELSE s.left[u]
           /\ \A u \in Timers : Prepared(s, t, x).flags[u] = IF u = t THEN USING ELSE s.flags[u]
<1> PICK left2, used2 : left2 = [s.left EXCEPT ![t] = x] /\ used2 = [s.flags EXCEPT ![t] = USING] OBVIOUS
<1>1. /\ s = [t0 |-> s.t0, next |-> s.next, link |-> s.link, left |-> s.left, flags |-> s.flags]
      /\ s.t0 \in Timers /\ s.next \in Lefts /\ s.link \in [Timers -> Pointers]
      /\ s.left \in [Timers -> Lefts] /\ s.flags \in [Timers -> {FREE, ALLOC, USING}]
  BY Fields
<1>2. Prepared(s, t, x) = [t0 |-> s.t0, next |-> s.next, link |-> s.link, left |-> left2, flags |-> used2]
  <2>1. Prepared(s, t, x) = [s EXCEPT !.left[t] = x, !.flags[t] = USING] BY Zenon DEF Prepared
  <2> QED BY <1>1, <2>1
<1>3. left2 \in [Timers -> Lefts] BY <1>1, Longest
<1>4. used2 \in [Timers -> {FREE, ALLOC, USING}] BY <1>1
<1>5. [t0 |-> s.t0, next |-> s.next, link |-> s.link, left |-> left2, flags |-> used2] \in TM
  BY <1>1, <1>3, <1>4 DEF TM
<1>6. \A u \in Timers : /\ left2[u] = IF u = t THEN x ELSE s.left[u]
                       /\ used2[u] = IF u = t THEN USING ELSE s.flags[u]
  BY <1>1
<1>7. /\ Prepared(s, t, x).t0 = s.t0 /\ Prepared(s, t, x).next = s.next
      /\ Prepared(s, t, x).link = s.link
      /\ Prepared(s, t, x).left = left2 /\ Prepared(s, t, x).flags = used2
  BY <1>2
<1> QED BY <1>2, <1>5, <1>6, <1>7, Zenon

LEMMA ListPrepared ==
    ASSUME NEW s, NEW R, NEW n, NEW q, List(s, R, n, q), NEW t \in Timers \ R, NEW x \in Times
    PROVE  List(Prepared(s, t, x), R, n, q)
<1> PICK s2 : s2 = Prepared(s, t, x) OBVIOUS
<1>1. /\ n \in Nat /\ q \in [0 .. n -> Timers]
      /\ R = {q[k] : k \in 0 .. n}
      /\ q[0] = s.t0 /\ q[n] = SENTINEL
      /\ \A j, k \in 0 .. (n - 1) : j <= k => s.left[q[j]] <= s.left[q[k]]
      /\ \A u \in Timers : s.left[u] = FOREVER <=> u = SENTINEL
      /\ s.next = s.left[s.t0]
      /\ s \in TM
  BY DEF List
<1>2. /\ s2 \in TM /\ s2.t0 = s.t0 /\ s2.next = s.next /\ s2.link = s.link
      /\ \A u \in Timers : s2.left[u] = IF u = t THEN x ELSE s.left[u]
  <2>1. t \in Timers /\ s \in TM BY <1>1
  <2>2. /\ Prepared(s, t, x) \in TM
        /\ Prepared(s, t, x).t0 = s.t0 /\ Prepared(s, t, x).next = s.next
        /\ Prepared(s, t, x).link = s.link
        /\ \A u \in Timers : Prepared(s, t, x).left[u] = IF u = t THEN x ELSE s.left[u]
    BY <2>1, PreparedFields
  <2> QED BY <2>2
<1>5. \A k \in 0 .. n : q[k] \in Timers /\ q[k] # t /\ s2.left[q[k]] = s.left[q[k]] BY <1>1, <1>2
<1>6. s2.next = s2.left[s2.t0]
  <2>1. 0 \in 0 .. n BY <1>1
  <2> QED BY <1>1, <1>2, <1>5, <2>1
<1>7. \A j, k \in 0 .. (n - 1) : j <= k => s2.left[q[j]] <= s2.left[q[k]]
  <2>1. \A k \in 0 .. (n - 1) : k \in 0 .. n BY <1>1
  <2>2. \A k \in 0 .. (n - 1) : s2.left[q[k]] = s.left[q[k]] BY <1>5, <2>1
  <2> QED BY <1>1, <2>2
<1>8. \A u \in Timers : s2.left[u] = FOREVER <=> u = SENTINEL
  <2>1. t # SENTINEL /\ x # FOREVER
    <3>1. n \in 0 .. n BY <1>1
    <3> QED BY <1>1, <3>1, Longest
  <2> QED BY <1>1, <1>2, <2>1
<1> QED BY <1>2, <1>6, <1>7, <1>8, Zenon DEF List

LEMMA LaterIs ==
    /\ \A x \in Lefts : Later(x) \in Lefts /\ (Later(x) = FOREVER <=> x = FOREVER)
    /\ \A x \in Nat : Later(x) = IF x = 0 THEN 0 ELSE x - 1
    /\ \A x, y \in Nat : x <= y => Later(x) <= Later(y)
<1>1. \A x \in Nat : Later(x) = IF x = 0 THEN 0 ELSE x - 1 BY DEF Later, FOREVER
<1>2. \A x \in Lefts : Later(x) \in Lefts /\ (Later(x) = FOREVER <=> x = FOREVER) BY Longest DEF Later
<1> QED BY <1>1, <1>2

LEMMA CountedFields ==
    ASSUME NEW s \in TM
    PROVE  /\ Counted(s) \in TM
           /\ Counted(s).t0 = s.t0 /\ Counted(s).next = Later(s.next)
           /\ Counted(s).link = s.link /\ Counted(s).flags = s.flags
           /\ Counted(s).left = [t \in Timers |-> Later(s.left[t])]
<1> PICK left2 : left2 = [t \in Timers |-> Later(s.left[t])] OBVIOUS
<1>1. /\ s = [t0 |-> s.t0, next |-> s.next, link |-> s.link, left |-> s.left, flags |-> s.flags]
      /\ s.t0 \in Timers /\ s.next \in Lefts /\ s.link \in [Timers -> Pointers]
      /\ s.left \in [Timers -> Lefts] /\ s.flags \in [Timers -> {FREE, ALLOC, USING}]
  BY Fields
<1>2. Counted(s) = [t0 |-> s.t0, next |-> Later(s.next), link |-> s.link, left |-> left2, flags |-> s.flags]
  <2>1. Counted(s) = [s EXCEPT !.next = Later(@), !.left = [t \in Timers |-> Later(@[t])]] BY Zenon DEF Counted
  <2> QED BY <1>1, <2>1
<1>3. left2 \in [Timers -> Lefts] /\ Later(s.next) \in Lefts BY <1>1, LaterIs
<1>4. [t0 |-> s.t0, next |-> Later(s.next), link |-> s.link, left |-> left2, flags |-> s.flags] \in TM
  BY <1>1, <1>3 DEF TM
<1> QED BY <1>2, <1>4

LEMMA ListCounted ==
    ASSUME NEW s, NEW R, NEW n, NEW q, List(s, R, n, q)
    PROVE  List(Counted(s), R, n, q)
<1> PICK s2 : s2 = Counted(s) OBVIOUS
<1>1. /\ n \in Nat /\ q \in [0 .. n -> Timers]
      /\ \A j, k \in 0 .. n : q[j] = q[k] => j = k
      /\ q[0] = s.t0 /\ q[n] = SENTINEL
      /\ \A j, k \in 0 .. (n - 1) : j <= k => s.left[q[j]] <= s.left[q[k]]
      /\ \A u \in Timers : s.left[u] = FOREVER <=> u = SENTINEL
      /\ s.next = s.left[s.t0]
      /\ s \in TM
  BY DEF List
<1>2. /\ s2 \in TM /\ s2.t0 = s.t0 /\ s2.next = Later(s.next) /\ s2.link = s.link
      /\ s2.left = [t \in Timers |-> Later(s.left[t])]
  BY <1>1, CountedFields
<1>3. s.left \in [Timers -> Lefts] /\ s.t0 \in Timers BY <1>1, Fields
<1>4. \A u \in Timers : s2.left[u] = Later(s.left[u]) BY <1>2
<1>5. s2.next = s2.left[s2.t0] BY <1>1, <1>2, <1>3, <1>4
<1>6. \A k \in 0 .. (n - 1) : q[k] \in Timers /\ s.left[q[k]] \in Nat
  <2>1. \A k \in 0 .. (n - 1) : k \in 0 .. n /\ n \in 0 .. n /\ k # n BY <1>1
  <2>2. \A k \in 0 .. (n - 1) : q[k] \in Timers /\ q[k] # SENTINEL BY <1>1, <2>1
  <2>3. \A u \in Timers : u # SENTINEL => s.left[u] \in Nat BY <1>1, Counts
  <2> QED BY <2>2, <2>3
<1>7. \A j, k \in 0 .. (n - 1) : j <= k => s2.left[q[j]] <= s2.left[q[k]]
  <2>1. ASSUME NEW j \in 0 .. (n - 1), NEW k \in 0 .. (n - 1), j <= k
        PROVE  s2.left[q[j]] <= s2.left[q[k]]
    <3>1. s.left[q[j]] <= s.left[q[k]] BY <1>1, <2>1
    <3>2. Later(s.left[q[j]]) <= Later(s.left[q[k]]) BY <1>6, <3>1, LaterIs
    <3> QED BY <1>4, <1>6, <3>2
  <2> QED BY <2>1
<1>8. \A u \in Timers : s2.left[u] = FOREVER <=> u = SENTINEL BY <1>1, <1>3, <1>4, LaterIs
<1> QED BY <1>2, <1>5, <1>7, <1>8, Zenon DEF List

-----------------------------------------------------------------------------
(* The timers that are due *)

LEMMA DueIs ==
    ASSUME NEW s, NEW R, NEW n, NEW q, List(s, R, n, q)
    PROVE  /\ Due(s) \in 0 .. n
           /\ s.left[q[Due(s)]] # 0
           /\ \A j \in 0 .. (Due(s) - 1) : s.left[q[j]] = 0
<1> DEFINE Stops(k) == s.left[Walk(s)[k]] # 0 /\ \A j \in 0 .. (k - 1) : s.left[Walk(s)[j]] = 0
<1>1. /\ n \in Nat /\ q \in [0 .. n -> Timers] /\ q[0] = s.t0 /\ q[n] = SENTINEL
      /\ s \in TM /\ s.next = s.left[s.t0]
      /\ \A t \in Timers : s.left[t] = FOREVER <=> t = SENTINEL
  BY DEF List
<1>2. n <= MAX_TIMER - 1 /\ MAX_TIMER \in Nat BY ListCount, Sizes
<1>3. \A k \in 0 .. MAX_TIMER : Walk(s)[k] = IF k <= n THEN q[k] ELSE NIL BY WalkIs
<1>4. \A k \in 0 .. n : Walk(s)[k] = q[k]
  <2>1. \A k \in 0 .. n : k \in 0 .. MAX_TIMER /\ k <= n BY <1>1, <1>2
  <2> QED BY <1>3, <2>1
<1>s. PICK S : S = {k \in 0 .. n : s.left[q[k]] # 0} OBVIOUS
<1>5. n \in S
  <2>1. s.left[q[n]] = -1 BY <1>1, Counts
  <2> QED BY <1>1, <1>s, <2>1
<1>6. PICK m \in S : \A k \in S : m <= k
  <2>1. S \in SUBSET Nat BY <1>s, <1>1
  <2> QED BY <1>5, <2>1, Smallest
<1>7. m \in 0 .. n /\ s.left[q[m]] # 0 /\ \A j \in 0 .. (m - 1) : s.left[q[j]] = 0
  <2>1. \A j \in 0 .. (m - 1) : j \in 0 .. n /\ ~(m <= j) BY <1>s, <1>1, <1>6
  <2> QED BY <1>s, <1>6, <2>1
<1>8. CASE s.next # 0
  <2>1. Due(s) = 0 BY <1>8 DEF Due
  <2>2. s.left[q[0]] # 0 /\ 0 \in 0 .. n /\ 0 .. (0 - 1) = {} BY <1>1, <1>8
  <2> QED BY <2>1, <2>2
<1>9. CASE s.next = 0
  <2>1. Stops(m)
    <3>1. \A j \in 0 .. (m - 1) : j \in 0 .. n BY <1>1, <1>7
    <3> QED BY <1>4, <1>7, <3>1
  <2>2. m \in 0 .. (MAX_TIMER - 1) BY <1>1, <1>2, <1>7
  <2>3. Due(s) = CHOOSE k \in 0 .. (MAX_TIMER - 1) : Stops(k) BY <1>9, Zenon DEF Due
  <2> HIDE DEF Stops
  <2> PICK d : d = Due(s) OBVIOUS
  <2>4. d \in 0 .. (MAX_TIMER - 1) /\ Stops(d) BY <2>1, <2>2, <2>3
  <2> USE DEF Stops
  <2>5. d \in 0 .. n
    <3>1. SUFFICES ASSUME d > n PROVE FALSE BY <1>1, <2>4
    <3>2. n \in 0 .. (d - 1) /\ n \in 0 .. n BY <1>1, <2>4, <3>1
    <3>3. s.left[q[n]] = 0 BY <1>4, <2>4, <3>2
    <3> QED BY <1>1, <3>3, Counts
  <2>6. \A j \in 0 .. (d - 1) : j \in 0 .. n BY <1>1, <2>5
  <2> QED BY <1>4, <2>4, <2>5, <2>6
<1> QED BY <1>8, <1>9

\* The first d timers of the list.
First(q, d) == {q[k] : k \in 0 .. (d - 1)}

LEMMA ExpiredIs ==
    ASSUME NEW s, NEW R, NEW n, NEW q, List(s, R, n, q)
    PROVE  /\ Expired(s) = [k \in 1 .. Due(s) |-> q[k - 1]]
           /\ ToSet(Expired(s)) = First(q, Due(s))
           /\ Walk(s)[Due(s)] = q[Due(s)]
<1> PICK d : d = Due(s) OBVIOUS
<1>1. n \in Nat /\ q \in [0 .. n -> Timers] BY DEF List
<1>2. n <= MAX_TIMER - 1 /\ MAX_TIMER \in Nat BY ListCount, Sizes
<1>3. \A k \in 0 .. MAX_TIMER : Walk(s)[k] = IF k <= n THEN q[k] ELSE NIL BY WalkIs
<1>4. d \in 0 .. n BY DueIs
<1>5. Walk(s)[d] = q[d]
  <2>1. d \in 0 .. MAX_TIMER /\ d <= n BY <1>1, <1>2, <1>4
  <2> QED BY <1>3, <2>1
<1>6. \A k \in 1 .. d : Walk(s)[k - 1] = q[k - 1]
  <2>1. \A k \in 1 .. d : k - 1 \in 0 .. MAX_TIMER /\ k - 1 <= n BY <1>1, <1>2, <1>4
  <2> QED BY <1>3, <2>1
<1>7. Expired(s) = [k \in 1 .. d |-> q[k - 1]] BY <1>6 DEF Expired
<1>8. ToSet([k \in 1 .. d |-> q[k - 1]]) = First(q, d)
  <2>1. ToSet([k \in 1 .. d |-> q[k - 1]]) = {q[k - 1] : k \in 1 .. d} BY DEF ToSet
  <2>2. ASSUME NEW k \in 1 .. d PROVE q[k - 1] \in First(q, d)
    <3>1. k - 1 \in 0 .. (d - 1) BY <1>1, <1>4
    <3> QED BY <3>1, Zenon DEF First
  <2>3. ASSUME NEW k \in 0 .. (d - 1) PROVE q[k] \in {q[j - 1] : j \in 1 .. d}
    <3>1. k + 1 \in 1 .. d /\ (k + 1) - 1 = k BY <1>1, <1>4
    <3> QED BY <3>1
  <2> QED BY <2>1, <2>2, <2>3 DEF First
<1> QED BY <1>5, <1>7, <1>8

LEMMA FiredFields ==
    ASSUME NEW s, NEW R, NEW n, NEW q, List(s, R, n, q)
    PROVE  /\ Fired(s) \in TM
           /\ Fired(s).t0 = q[Due(s)] /\ Fired(s).next = s.left[q[Due(s)]]
           /\ Fired(s).link = s.link /\ Fired(s).left = s.left
           /\ \A t \in Timers : Fired(s).flags[t] = IF t \in First(q, Due(s)) THEN ALLOC ELSE s.flags[t]
<1> PICK d : d = Due(s) OBVIOUS
<1> PICK due : due = First(q, Due(s)) OBVIOUS
<1>1. n \in Nat /\ q \in [0 .. n -> Timers] /\ s \in TM BY DEF List
<1>2. d \in 0 .. n /\ q[d] \in Timers BY <1>1, DueIs
<1>3. /\ s = [t0 |-> s.t0, next |-> s.next, link |-> s.link, left |-> s.left, flags |-> s.flags]
      /\ s.t0 \in Timers /\ s.next \in Lefts /\ s.link \in [Timers -> Pointers]
      /\ s.left \in [Timers -> Lefts] /\ s.flags \in [Timers -> {FREE, ALLOC, USING}]
  BY <1>1, Fields
<1> PICK flags3 : flags3 = [t \in Timers |-> IF t \in due THEN ALLOC ELSE s.flags[t]] OBVIOUS
<1>4. Fired(s) = [t0 |-> q[d], next |-> s.left[q[d]], link |-> s.link, left |-> s.left, flags |-> flags3]
  <2>1. Walk(s)[Due(s)] = q[d] /\ ToSet(Expired(s)) = due BY ExpiredIs
  <2>2. Fired(s) = [s EXCEPT !.flags = [t \in Timers |-> IF t \in due THEN ALLOC ELSE @[t]],
                             !.t0 = q[d], !.next = s.left[q[d]]]
    BY <2>1, Zenon DEF Fired
  <2> QED BY <1>3, <2>2
<1>5. s.left[q[d]] \in Lefts BY <1>2, <1>3
<1>6. flags3 \in [Timers -> {FREE, ALLOC, USING}] BY <1>3
<1>7. Fired(s) \in TM BY <1>2, <1>3, <1>4, <1>5, <1>6 DEF TM
<1>8. /\ Fired(s).t0 = q[d] /\ Fired(s).next = s.left[q[d]]
      /\ Fired(s).link = s.link /\ Fired(s).left = s.left /\ Fired(s).flags = flags3
  BY <1>4
<1> QED BY <1>7, <1>8

\* The interrupt handler cuts off what is due.
LEMMA ListFired ==
    ASSUME NEW s, NEW R, NEW n, NEW q, List(s, R, n, q)
    PROVE  /\ List(Fired(s), R \ First(q, Due(s)), n - Due(s), [k \in 0 .. (n - Due(s)) |-> q[k + Due(s)]])
           /\ \A t \in R \ First(q, Due(s)) : s.left[t] # 0
           /\ \A t \in First(q, Due(s)) : t \in R /\ t # SENTINEL /\ s.left[t] = 0
<1> PICK d : d = Due(s) OBVIOUS
<1> PICK new : new = Fired(s) OBVIOUS
<1> PICK q2 : q2 = [k \in 0 .. (n - d) |-> q[k + d]] OBVIOUS
<1> PICK R2 : R2 = R \ First(q, d) OBVIOUS
<1>1. /\ n \in Nat /\ q \in [0 .. n -> Timers]
      /\ \A j, k \in 0 .. n : q[j] = q[k] => j = k
      /\ R = {q[k] : k \in 0 .. n}
      /\ q[0] = s.t0 /\ q[n] = SENTINEL
      /\ \A k \in 0 .. (n - 1) : s.link[q[k]] = q[k + 1]
      /\ s.link[SENTINEL] = NIL
      /\ \A j, k \in 0 .. (n - 1) : j <= k => s.left[q[j]] <= s.left[q[k]]
      /\ \A u \in Timers : s.left[u] = FOREVER <=> u = SENTINEL
      /\ s.next = s.left[s.t0]
      /\ s \in TM
  BY DEF List
<1>2. /\ d \in 0 .. n /\ s.left[q[d]] # 0
      /\ \A j \in 0 .. (d - 1) : s.left[q[j]] = 0
  BY DueIs
<1>3. /\ new \in TM /\ new.t0 = q[d] /\ new.next = s.left[q[d]]
      /\ new.link = s.link /\ new.left = s.left
  BY FiredFields
<1>0. n \in Nat /\ d \in 0 .. n /\ n - d \in Nat BY <1>1, <1>2
<1>4. \A k \in 0 .. (n - d) : k + d \in 0 .. n /\ q2[k] = q[k + d] BY <1>0
<1>5. \A k \in 0 .. ((n - d) - 1) :
        k + d \in 0 .. (n - 1) /\ k + 1 \in 0 .. (n - d) /\ (k + 1) + d = (k + d) + 1 /\ k \in 0 .. (n - d)
  BY <1>0
<1>6. q2 \in [0 .. (n - d) -> Timers]
  <2>1. \A k \in 0 .. (n - d) : q2[k] \in Timers BY <1>1, <1>4
  <2> QED BY <2>1
<1>7. \A j, k \in 0 .. (n - d) : q2[j] = q2[k] => j = k
  <2>1. ASSUME NEW j \in 0 .. (n - d), NEW k \in 0 .. (n - d), q2[j] = q2[k] PROVE j = k
    <3>1. j + d = k + d BY <1>1, <1>4, <2>1
    <3> QED BY <1>0, <3>1
  <2> QED BY <2>1
<1>8. R2 = {q2[k] : k \in 0 .. (n - d)}
  <2>1. ASSUME NEW k \in 0 .. (n - d) PROVE q2[k] \in R2
    <3>1. q2[k] \in R BY <1>1, <1>4
    <3>2. \A j \in 0 .. (d - 1) : j \in 0 .. n /\ j # k + d BY <1>0
    <3>3. \A j \in 0 .. (d - 1) : q[j] # q2[k] BY <1>1, <1>4, <3>2
    <3> QED BY <3>1, <3>3 DEF First
  <2>2. ASSUME NEW u \in R2 PROVE \E k \in 0 .. (n - d) : u = q2[k]
    <3>1. PICK k \in 0 .. n : u = q[k] BY <1>1
    <3>2. k \notin 0 .. (d - 1) BY <3>1 DEF First
    <3>3. k - d \in 0 .. (n - d) /\ (k - d) + d = k BY <1>0, <3>2
    <3> QED BY <1>4, <3>1, <3>3
  <2> QED BY <2>1, <2>2
<1>9. q2[0] = new.t0 /\ q2[n - d] = SENTINEL /\ new.next = new.left[new.t0]
  <2>1. 0 \in 0 .. (n - d) /\ n - d \in 0 .. (n - d) /\ 0 + d = d /\ (n - d) + d = n BY <1>0
  <2>2. q2[0] = q[d] /\ q2[n - d] = q[n] BY <1>4, <2>1
  <2> QED BY <1>1, <1>3, <2>2
<1>10. \A k \in 0 .. ((n - d) - 1) : new.link[q2[k]] = q2[k + 1]
  <2>1. ASSUME NEW k \in 0 .. ((n - d) - 1) PROVE new.link[q2[k]] = q2[k + 1]
    <3>1. q2[k] = q[k + d] /\ q2[k + 1] = q[(k + d) + 1] BY <1>4, <1>5
    <3>2. s.link[q[k + d]] = q[(k + d) + 1] BY <1>1, <1>5
    <3> QED BY <1>3, <3>1, <3>2
  <2> QED BY <2>1
<1>11. \A j, k \in 0 .. ((n - d) - 1) : j <= k => new.left[q2[j]] <= new.left[q2[k]]
  <2>1. ASSUME NEW j \in 0 .. ((n - d) - 1), NEW k \in 0 .. ((n - d) - 1), j <= k
        PROVE  new.left[q2[j]] <= new.left[q2[k]]
    <3>1. q2[k] = q[k + d] /\ q2[j] = q[j + d] /\ k + d \in 0 .. (n - 1) /\ j + d \in 0 .. (n - 1)
      BY <1>4, <1>5
    <3>2. j + d <= k + d BY <1>0, <2>1
    <3> QED BY <1>1, <1>3, <3>1, <3>2
  <2> QED BY <2>1
<1>12. List(new, R2, n - d, q2)
  <2>1. new \in TM /\ new.link[SENTINEL] = NIL BY <1>1, <1>3
  <2>2. \A u \in Timers : new.left[u] = FOREVER <=> u = SENTINEL BY <1>1, <1>3
  <2> QED BY <1>0, <1>6, <1>7, <1>8, <1>9, <1>10, <1>11, <2>1, <2>2, Zenon DEF List
<1>13. ASSUME NEW t \in R2 PROVE s.left[t] # 0
  <2>1. PICK k \in 0 .. (n - d) : t = q2[k] BY <1>8
  <2>2. CASE k = n - d
    <3>1. t = SENTINEL BY <1>9, <2>1, <2>2
    <3>2. s.left[SENTINEL] = -1 BY <1>1, Counts
    <3> QED BY <3>1, <3>2
  <2>3. CASE k # n - d
    <3>1. k + d \in 0 .. (n - 1) /\ d \in 0 .. (n - 1) /\ d <= k + d BY <1>0, <2>3
    <3>2. s.left[q[d]] <= s.left[q[k + d]] BY <1>1, <3>1
    <3>3. \A i \in 0 .. (n - 1) : q[i] \in Timers /\ s.left[q[i]] \in Nat
      <4>1. \A i \in 0 .. (n - 1) : i \in 0 .. n /\ n \in 0 .. n /\ i # n BY <1>1
      <4>2. \A i \in 0 .. (n - 1) : q[i] \in Timers /\ q[i] # SENTINEL BY <1>1, <4>1
      <4>3. \A u \in Timers : u # SENTINEL => s.left[u] \in Nat BY <1>1, Counts
      <4> QED BY <4>2, <4>3
    <3>4. t = q[k + d] BY <1>4, <2>1
    <3>5. s.left[q[d]] \in Nat /\ s.left[q[k + d]] \in Nat BY <3>1, <3>3
    <3> QED BY <1>2, <3>2, <3>4, <3>5
  <2> QED BY <2>2, <2>3
<1>14. ASSUME NEW t \in First(q, d) PROVE t \in R /\ t # SENTINEL /\ s.left[t] = 0
  <2>1. PICK k \in 0 .. (d - 1) : t = q[k] BY DEF First
  <2>2. s.left[t] = 0 /\ k \in 0 .. n BY <1>0, <1>2, <2>1
  <2>3. s.left[SENTINEL] = -1 BY <1>1, Counts
  <2> QED BY <1>1, <2>1, <2>2, <2>3
<1> QED BY <1>12, <1>13, <1>14

-----------------------------------------------------------------------------
(* Cancelling a timer *)

\* What timer_cancel does: new is s without the timer t, the one behind the first m.
UnlinkedAt(new, s, q, t, m) ==
    /\ new \in TM /\ new.left = s.left
    /\ \A u \in Timers : new.flags[u] = IF u = t THEN ALLOC ELSE s.flags[u]
    /\ m = 0 => /\ new.t0 = q[1] /\ new.next = s.left[q[1]] /\ new.link = s.link
    /\ m # 0 => /\ new.t0 = s.t0 /\ new.next = s.next
                /\ \A u \in Timers : new.link[u] = IF u = q[m - 1] THEN q[m + 1] ELSE s.link[u]

LEMMA CancelResult ==
    ASSUME NEW s, NEW R, NEW n, NEW q, List(s, R, n, q), NEW m \in 0 .. (n - 1), s.flags[q[m]] = USING
    PROVE  UnlinkedAt(TimerCancel(s, q[m]), s, q, q[m], m)
<1> PICK t : t = q[m] OBVIOUS
<1> PICK new : new = TimerCancel(s, t) OBVIOUS
<1>1. /\ n \in Nat /\ q \in [0 .. n -> Timers] /\ q[n] = SENTINEL /\ s \in TM
      /\ \A j, k \in 0 .. n : q[j] = q[k] => j = k
      /\ q[0] = s.t0
      /\ \A k \in 0 .. (n - 1) : s.link[q[k]] = q[k + 1]
      /\ s.link[SENTINEL] = NIL
  BY DEF List
<1>2. n <= MAX_TIMER - 1 /\ MAX_TIMER \in Nat BY ListCount, Sizes
<1>3. \A k \in 0 .. MAX_TIMER : Walk(s)[k] = IF k <= n THEN q[k] ELSE NIL BY WalkIs
<1>4. /\ s = [t0 |-> s.t0, next |-> s.next, link |-> s.link, left |-> s.left, flags |-> s.flags]
      /\ s.t0 \in Timers /\ s.next \in Lefts /\ s.link \in [Timers -> Pointers]
      /\ s.left \in [Timers -> Lefts] /\ s.flags \in [Timers -> {FREE, ALLOC, USING}]
  BY <1>1, Fields
<1>5. m \in 0 .. n /\ m + 1 \in 0 .. n /\ t \in Timers /\ q[m + 1] \in Timers /\ s.link[t] = q[m + 1]
  BY <1>1
<1> PICK freed : freed = [s.flags EXCEPT ![t] = ALLOC] OBVIOUS
<1>6. freed \in [Timers -> {FREE, ALLOC, USING}] BY <1>4
<1>7. \A u \in Timers : freed[u] = IF u = t THEN ALLOC ELSE s.flags[u] BY <1>4
<1>8. CASE m = 0
  <2>1. t = s.t0 BY <1>1, <1>8
  <2>2. new = [s EXCEPT !.t0 = q[m + 1], !.next = s.left[q[m + 1]], !.flags[t] = ALLOC]
    BY <1>5, <2>1, Zenon DEF TimerCancel
  <2>3. new = [t0 |-> q[m + 1], next |-> s.left[q[m + 1]], link |-> s.link, left |-> s.left, flags |-> freed]
    BY <1>4, <2>2
  <2>4. s.left[q[m + 1]] \in Lefts BY <1>4, <1>5
  <2>5. new \in TM BY <1>4, <1>5, <1>6, <2>3, <2>4 DEF TM
  <2>6. /\ new.t0 = q[m + 1] /\ new.next = s.left[q[m + 1]] /\ new.link = s.link
        /\ new.left = s.left /\ new.flags = freed
    BY <2>3
  <2>7. m + 1 = 1 BY <1>8
  <2> QED BY <1>7, <1>8, <2>5, <2>6, <2>7, Zenon DEF UnlinkedAt
<1>9. CASE m # 0
  <2>1. m - 1 \in 0 .. (n - 1) /\ m - 1 \in 0 .. n /\ (m - 1) + 1 = m BY <1>1, <1>9
  <2>2. t # s.t0
    <3>1. 0 \in 0 .. n BY <1>1
    <3> QED BY <1>1, <1>5, <1>9, <3>1
  <2>3. ToSet(Walk(s)) \ {NIL} = {q[k] : k \in 0 .. n}
    <3>1. Walk(s) = [k \in 0 .. MAX_TIMER |-> Walk(s)[k]] BY WalkUnfolded, Zenon
    <3>2. ToSet(Walk(s)) = {Walk(s)[k] : k \in 0 .. MAX_TIMER}
      <4>1. DOMAIN Walk(s) = 0 .. MAX_TIMER BY <3>1
      <4> QED BY <4>1, Zenon DEF ToSet
    <3>3. \A k \in 0 .. n : k \in 0 .. MAX_TIMER /\ k <= n /\ q[k] # NIL BY <1>1, <1>2, Sizes
    <3>4. \A k \in 0 .. MAX_TIMER : k <= n => k \in 0 .. n BY <1>1
    <3> QED BY <1>3, <3>2, <3>3, <3>4
  <2>4. s.link[q[m - 1]] = t /\ q[m - 1] \in {q[k] : k \in 0 .. n} BY <1>1, <2>1
  <2>5. ASSUME NEW p \in {q[k] : k \in 0 .. n}, s.link[p] = t PROVE p = q[m - 1]
    <3>1. PICK k \in 0 .. n : p = q[k] OBVIOUS
    <3>2. k # n BY <1>1, <1>5, <2>5, <3>1, Sizes
    <3>3. k \in 0 .. (n - 1) /\ k + 1 \in 0 .. n BY <1>1, <3>2
    <3>4. q[k + 1] = q[m] BY <1>1, <2>5, <3>1, <3>3
    <3>5. k + 1 = m BY <1>1, <1>5, <3>3, <3>4
    <3>6. k = m - 1 BY <1>1, <3>5
    <3> QED BY <3>1, <3>6
  <2>6. (CHOOSE p \in ToSet(Walk(s)) \ {NIL} : s.link[p] = t) = q[m - 1] BY <2>3, <2>4, <2>5
  <2>7. new = [s EXCEPT !.link[q[m - 1]] = q[m + 1], !.flags[t] = ALLOC]
    BY <1>5, <2>2, <2>6, Zenon DEF TimerCancel
  <2> PICK link2 : link2 = [s.link EXCEPT ![q[m - 1]] = q[m + 1]] OBVIOUS
  <2>8. new = [t0 |-> s.t0, next |-> s.next, link |-> link2, left |-> s.left, flags |-> freed]
    BY <1>4, <2>7
  <2>9. link2 \in [Timers -> Pointers] BY <1>4, <1>5 DEF Pointers
  <2>10. new \in TM BY <1>4, <1>6, <2>8, <2>9 DEF TM
  <2>11. \A u \in Timers : link2[u] = IF u = q[m - 1] THEN q[m + 1] ELSE s.link[u] BY <1>4
  <2>12. /\ new.t0 = s.t0 /\ new.next = s.next /\ new.link = link2
         /\ new.left = s.left /\ new.flags = freed
    BY <2>8
  <2> QED BY ZenonT(30), <1>7, <1>9, <2>10, <2>11, <2>12 DEF UnlinkedAt
<1> QED BY <1>8, <1>9

\* timer_cancel takes a timer off the list.
LEMMA ListCancel ==
    ASSUME NEW s, NEW R, NEW n, NEW q, List(s, R, n, q), NEW t \in R \ {SENTINEL}, s.flags[t] = USING
    PROVE  \E q2 : List(TimerCancel(s, t), R \ {t}, n - 1, q2)
<1> PICK new : new = TimerCancel(s, t) OBVIOUS
<1>1. /\ n \in Nat /\ q \in [0 .. n -> Timers]
      /\ \A j, k \in 0 .. n : q[j] = q[k] => j = k
      /\ R = {q[k] : k \in 0 .. n}
      /\ q[0] = s.t0 /\ q[n] = SENTINEL
      /\ \A k \in 0 .. (n - 1) : s.link[q[k]] = q[k + 1]
      /\ s.link[SENTINEL] = NIL
      /\ \A j, k \in 0 .. (n - 1) : j <= k => s.left[q[j]] <= s.left[q[k]]
      /\ \A u \in Timers : s.left[u] = FOREVER <=> u = SENTINEL
      /\ s.next = s.left[s.t0]
      /\ s \in TM
  BY DEF List
<1>m. PICK m \in 0 .. n : t = q[m] BY <1>1
<1>2. m \in 0 .. (n - 1) /\ q[m] = t
  <2>1. m # n BY <1>1, <1>m
  <2> QED BY <1>1, <1>m, <2>1
<1>a. UnlinkedAt(new, s, q, t, m)
  <2>1. UnlinkedAt(TimerCancel(s, q[m]), s, q, q[m], m) BY <1>2, CancelResult
  <2> QED BY <1>2, <2>1
<1>3. /\ new \in TM /\ new.left = s.left
      /\ m = 0 => /\ new.t0 = q[1] /\ new.next = s.left[q[1]] /\ new.link = s.link
      /\ m # 0 => /\ new.t0 = s.t0 /\ new.next = s.next
                  /\ \A u \in Timers : new.link[u] = IF u = q[m - 1] THEN q[m + 1] ELSE s.link[u]
  BY <1>a, Zenon DEF UnlinkedAt
<1>0. n \in Nat /\ n - 1 \in Nat /\ m \in 0 .. (n - 1) BY <1>1, <1>2
<1> PICK q2 : q2 = [k \in 0 .. (n - 1) |-> IF k < m THEN q[k] ELSE q[k + 1]] OBVIOUS
<1>4. /\ \A k \in 0 .. (n - 1) : q2[k] = (IF k < m THEN q[k] ELSE q[k + 1]) /\ k \in 0 .. n /\ k + 1 \in 0 .. n
      /\ \A k \in 0 .. ((n - 1) - 1) : k \in 0 .. (n - 1) /\ k + 1 \in 0 .. (n - 1)
  BY <1>0
<1>5. q2 \in [0 .. (n - 1) -> Timers]
  <2>1. \A k \in 0 .. (n - 1) : q2[k] \in Timers BY <1>1, <1>4
  <2> QED BY <2>1
<1>6. \A j, k \in 0 .. (n - 1) : q2[j] = q2[k] => j = k
  <2>1. ASSUME NEW j \in 0 .. (n - 1), NEW k \in 0 .. (n - 1), q2[j] = q2[k] PROVE j = k
    <3> PICK i : i = (IF j < m THEN j ELSE j + 1) OBVIOUS
    <3> PICK l : l = (IF k < m THEN k ELSE k + 1) OBVIOUS
    <3>1. i \in 0 .. n /\ l \in 0 .. n /\ q2[j] = q[i] /\ q2[k] = q[l] BY <1>4
    <3>2. i = l BY <1>1, <2>1, <3>1
    <3> QED BY <1>0, <3>2
  <2> QED BY <2>1
<1>7. R \ {t} = {q2[k] : k \in 0 .. (n - 1)}
  <2>1. ASSUME NEW k \in 0 .. (n - 1) PROVE q2[k] \in R \ {t}
    <3> PICK l : l = (IF k < m THEN k ELSE k + 1) OBVIOUS
    <3>1. l \in 0 .. n /\ l # m /\ q2[k] = q[l] BY <1>0, <1>4
    <3> QED BY <1>1, <1>m, <3>1
  <2>2. ASSUME NEW u \in R \ {t} PROVE \E k \in 0 .. (n - 1) : u = q2[k]
    <3>1. PICK k \in 0 .. n : u = q[k] BY <1>1
    <3>2. k # m BY <1>m, <2>2, <3>1
    <3>3. CASE k < m
      <4>1. k \in 0 .. (n - 1) BY <1>0, <3>3
      <4> QED BY <1>4, <3>1, <3>3, <4>1
    <3>4. CASE k > m
      <4>1. k - 1 \in 0 .. (n - 1) /\ ~(k - 1 < m) /\ (k - 1) + 1 = k BY <1>0, <3>4
      <4> QED BY <1>4, <3>1, <4>1
    <3> QED BY <1>0, <3>2, <3>3, <3>4
  <2> QED BY <2>1, <2>2
<1>8. q2[0] = new.t0 /\ q2[n - 1] = SENTINEL /\ new.next = new.left[new.t0]
  <2>1. 0 \in 0 .. (n - 1) /\ n - 1 \in 0 .. (n - 1) /\ ~(n - 1 < m) /\ (n - 1) + 1 = n BY <1>0
  <2>2. q2[n - 1] = SENTINEL BY <1>1, <1>4, <2>1
  <2>3. CASE m = 0
    <3>1. q2[0] = q[1] BY <1>4, <2>1, <2>3
    <3> QED BY <1>3, <2>2, <2>3, <3>1
  <2>4. CASE m # 0
    <3>1. q2[0] = q[0] BY <1>0, <1>4, <2>1, <2>4
    <3> QED BY <1>1, <1>3, <2>2, <2>4, <3>1
  <2> QED BY <2>3, <2>4
<1>9. \A k \in 0 .. n : new.link[q[k]] = IF m # 0 /\ k = m - 1 THEN q[m + 1] ELSE s.link[q[k]]
  <2>1. ASSUME NEW k \in 0 .. n
        PROVE  new.link[q[k]] = IF m # 0 /\ k = m - 1 THEN q[m + 1] ELSE s.link[q[k]]
    <3>1. m # 0 => m - 1 \in 0 .. n BY <1>0
    <3>2. m # 0 => (q[k] = q[m - 1] <=> k = m - 1) BY <1>1, <3>1
    <3>3. q[k] \in Timers BY <1>1
    <3> QED BY <1>3, <3>2, <3>3
  <2> QED BY <2>1
<1>10. \A k \in 0 .. ((n - 1) - 1) : new.link[q2[k]] = q2[k + 1]
  <2>1. ASSUME NEW k \in 0 .. ((n - 1) - 1) PROVE new.link[q2[k]] = q2[k + 1]
    <3>1. k \in 0 .. (n - 1) /\ k + 1 \in 0 .. (n - 1) /\ k \in 0 .. n /\ k + 1 \in 0 .. n BY <1>4
    <3>2. CASE k + 1 < m
      <4>1. k < m /\ k # m - 1 BY <1>0, <3>2
      <4>2. q2[k] = q[k] /\ q2[k + 1] = q[k + 1] BY <1>4, <3>1, <3>2, <4>1
      <4> QED BY <1>1, <1>9, <3>1, <4>1, <4>2
    <3>3. CASE k + 1 = m
      <4>1. k < m /\ k = m - 1 /\ m # 0 /\ ~(k + 1 < m) BY <1>0, <3>3
      <4>2. q2[k] = q[k] /\ q2[k + 1] = q[m + 1] BY <1>4, <3>1, <3>3, <4>1
      <4> QED BY <1>9, <3>1, <4>1, <4>2
    <3>4. CASE k >= m
      <4>1. ~(k < m) /\ ~(k + 1 < m) /\ k + 1 # m - 1 BY <1>0, <3>4
      <4>2. q2[k] = q[k + 1] /\ q2[k + 1] = q[(k + 1) + 1] BY <1>4, <3>1, <4>1
      <4> QED BY <1>1, <1>9, <3>1, <4>1, <4>2
    <3> QED BY <1>0, <3>2, <3>3, <3>4
  <2> QED BY <2>1
<1>11. new.link[SENTINEL] = NIL
  <2>1. n \in 0 .. n /\ n # m - 1 BY <1>0
  <2> QED BY <1>1, <1>9, <2>1
<1>12. \A j, k \in 0 .. ((n - 1) - 1) : j <= k => new.left[q2[j]] <= new.left[q2[k]]
  <2>1. ASSUME NEW j \in 0 .. ((n - 1) - 1), NEW k \in 0 .. ((n - 1) - 1), j <= k
        PROVE  new.left[q2[j]] <= new.left[q2[k]]
    <3> PICK i : i = (IF j < m THEN j ELSE j + 1) OBVIOUS
    <3> PICK l : l = (IF k < m THEN k ELSE k + 1) OBVIOUS
    <3>1. i \in 0 .. (n - 1) /\ l \in 0 .. (n - 1) /\ i <= l BY <1>0, <2>1
    <3>2. q2[j] = q[i] /\ q2[k] = q[l] BY <1>4
    <3> QED BY SMTT(30), <1>1, <1>3, <3>1, <3>2
  <2> QED BY <2>1
<1>13. \A u \in Timers : new.left[u] = FOREVER <=> u = SENTINEL BY <1>1, <1>3
<1>14. new \in TM BY <1>3
<1>15. List(new, R \ {t}, n - 1, q2)
  BY <1>0, <1>5, <1>6, <1>7, <1>8, <1>10, <1>11, <1>12, <1>13, <1>14, Zenon DEF List
<1> QED BY <1>15

-----------------------------------------------------------------------------
(* The inductive invariant *)

Events(f) == {k \in 1 .. Len(f.q) : f.q[k] = CURSOR}

Types ==
    /\ flags2 \in [Timers -> 0 .. 1]
    /\ owner \in [Timers -> Consoles \cup {Nobody}]
    /\ mode \in [Consoles -> {"closed", "shell", "app", "leaving"}]
    /\ cursor \in [Consoles -> Pointers]
    /\ appTimer \in [Consoles -> Pointers]
    /\ setting \in [Consoles -> Pointers]
    /\ fifo \in [Consoles -> [q : Seq({CURSOR, OTHER_EVENT}), overrun : BOOLEAN]]
    /\ \A c \in Consoles : Len(fifo[c].q) <= FIFO_SIZE

\* Who has which timer, and what its flags, its owner and flags2 are then.
Held ==
    /\ tm.flags[SENTINEL] = USING /\ tm.flags[TASK_TIMER] = USING
    /\ \A c \in Consoles : cursor[c] # NIL =>
          /\ cursor[c] \notin {SENTINEL, TASK_TIMER} /\ tm.flags[cursor[c]] # FREE
          /\ owner[cursor[c]] = c /\ flags2[cursor[c]] = 0
          /\ mode[c] \in {"shell", "app"}
    /\ \A c \in Consoles : appTimer[c] # NIL =>
          /\ appTimer[c] \notin {SENTINEL, TASK_TIMER} /\ tm.flags[appTimer[c]] # FREE
          /\ owner[appTimer[c]] = c /\ flags2[appTimer[c]] = 1
          /\ mode[c] = "app"
    /\ \A c \in Consoles : setting[c] # NIL =>
          setting[c] \in {cursor[c], appTimer[c]} /\ tm.flags[setting[c]] = USING
    /\ \A t \in Timers \ {SENTINEL, TASK_TIMER} : tm.flags[t] = USING =>
          owner[t] \in Consoles /\ t \in {cursor[owner[t]], appTimer[owner[t]]}
    /\ \A t \in Timers : tm.flags[t] # FREE /\ flags2[t] # 0 =>
          owner[t] \in Consoles /\ t = appTimer[owner[t]]

Alive ==
    \A c \in Consoles : cursor[c] # NIL =>
        /\ tm.flags[cursor[c]] = USING => Events(fifo[c]) = {}
        /\ \A j, k \in Events(fifo[c]) : j = k
        /\ fifo[c].overrun \/ tm.flags[cursor[c]] = USING \/ Events(fifo[c]) # {}

Listed == \E n, q : List(tm, Running, n, q)

IInv == Types /\ Held /\ Alive /\ Listed

LEMMA TypeNames ==
    /\ FREE = 0 /\ ALLOC = 1 /\ USING = 2
    /\ CURSOR = 0 /\ OTHER_EVENT = 1
    /\ Pointers = Timers \cup {NIL} /\ NIL \notin Timers
BY Sizes DEF FREE, ALLOC, USING, CURSOR, OTHER_EVENT, Pointers

LEMMA ListedTM ==
    ASSUME Listed
    PROVE  /\ tm \in TM /\ tm.flags \in [Timers -> {FREE, ALLOC, USING}]
           /\ tm.left \in [Timers -> Lefts]
           /\ Running \in SUBSET Timers /\ SENTINEL \in Running
           /\ \A t \in Timers : t \in Running <=> tm.flags[t] = USING /\ \A c \in Consoles : setting[c] # t
<1> PICK n, q : List(tm, Running, n, q) BY DEF Listed
<1>1. tm \in TM /\ n \in Nat /\ q[n] = SENTINEL /\ Running = {q[k] : k \in 0 .. n} BY DEF List
<1>2. SENTINEL \in Running
  <2>1. n \in 0 .. n BY <1>1
  <2> QED BY <1>1, <2>1
<1>3. Running \in SUBSET Timers BY Zenon DEF Running
<1>4. \A t \in Timers : t \in Running <=> tm.flags[t] = USING /\ \A c \in Consoles : setting[c] # t
  BY Zenon DEF Running, Setting
<1> QED BY <1>1, <1>2, <1>3, <1>4, Fields

-----------------------------------------------------------------------------
(* The events of a FIFO *)

Fifos == [q : Seq({CURSOR, OTHER_EVENT}), overrun : BOOLEAN]

LEMMA FifoTypes ==
    ASSUME NEW f \in Fifos
    PROVE  /\ f = [q |-> f.q, overrun |-> f.overrun]
           /\ f.q \in Seq({CURSOR, OTHER_EVENT}) /\ f.overrun \in BOOLEAN /\ Len(f.q) \in Nat
           /\ \A k \in 1 .. Len(f.q) : f.q[k] \in {CURSOR, OTHER_EVENT}
<1>1. f = [q |-> f.q, overrun |-> f.overrun] /\ f.q \in Seq({CURSOR, OTHER_EVENT}) /\ f.overrun \in BOOLEAN
  BY DEF Fifos
<1> QED BY <1>1

LEMMA EmptyIs == Empty \in Fifos /\ Len(Empty.q) = 0 /\ Events(Empty) = {} /\ ~Empty.overrun
<1>1. Empty.q = <<>> /\ ~Empty.overrun BY DEF Empty
<1>2. <<>> \in Seq({CURSOR, OTHER_EVENT}) /\ Len(<<>>) = 0 OBVIOUS
<1>3. Empty \in Fifos BY <1>2 DEF Empty, Fifos
<1>4. Len(Empty.q) = 0 BY <1>1, <1>2
<1>5. 1 .. Len(Empty.q) = {} BY <1>4
<1>6. Events(Empty) = {} BY <1>5, Zenon DEF Events
<1> QED BY <1>1, <1>3, <1>4, <1>6

\* What fifo32_put does to one FIFO.
Filled(f, e) ==
    IF Len(f.q) = FIFO_SIZE THEN [f EXCEPT !.overrun = TRUE] ELSE [f EXCEPT !.q = Append(@, e)]

LEMMA PutIs ==
    ASSUME NEW f, NEW g, NEW e \in {CURSOR, OTHER_EVENT}, f \in Fifos, Len(f.q) <= FIFO_SIZE,
           g = Filled(f, e)
    PROVE  /\ g \in Fifos /\ Len(g.q) <= FIFO_SIZE
           /\ f.overrun => g.overrun
           /\ e = OTHER_EVENT => Events(g) = Events(f)
           /\ e = CURSOR /\ Events(f) = {} =>
                 /\ \A j, k \in Events(g) : j = k
                 /\ g.overrun \/ Events(g) # {}
<1>1. /\ f = [q |-> f.q, overrun |-> f.overrun]
      /\ f.q \in Seq({CURSOR, OTHER_EVENT}) /\ f.overrun \in BOOLEAN /\ Len(f.q) \in Nat
  BY FifoTypes
<1>2. CASE Len(f.q) = FIFO_SIZE
  <2>1. g = [f EXCEPT !.overrun = TRUE] BY <1>2, Zenon DEF Filled
  <2>2. g = [q |-> f.q, overrun |-> TRUE] BY <1>1, <2>1
  <2>3. g.q = f.q /\ g.overrun BY <2>2
  <2>4. g \in Fifos BY <1>1, <2>2 DEF Fifos
  <2>5. Events(g) = Events(f) BY <2>3, Zenon DEF Events
  <2> QED BY <1>2, <2>3, <2>4, <2>5, Sizes
<1>3. CASE Len(f.q) # FIFO_SIZE
  <2>1. g = [f EXCEPT !.q = Append(@, e)] BY <1>3, Zenon DEF Filled
  <2> PICK a : a = Append(f.q, e) OBVIOUS
  <2>2. g = [q |-> a, overrun |-> f.overrun] BY <1>1, <2>1
  <2>3. g.q = a /\ g.overrun = f.overrun BY <2>2
  <2>4. /\ a \in Seq({CURSOR, OTHER_EVENT}) /\ Len(a) = Len(f.q) + 1 /\ a[Len(f.q) + 1] = e
        /\ \A k \in 1 .. Len(f.q) : a[k] = f.q[k]
    BY <1>1
  <2>5. g \in Fifos BY <1>1, <2>2, <2>4 DEF Fifos
  <2>6. Len(g.q) <= FIFO_SIZE BY <1>1, <1>3, <2>3, <2>4, Sizes
  <2>7. \A k : k \in Events(g) <=> k \in Events(f) \/ (k = Len(f.q) + 1 /\ e = CURSOR)
    <3>1. \A k : k \in 1 .. (Len(f.q) + 1) <=> k \in 1 .. Len(f.q) \/ k = Len(f.q) + 1 BY <1>1
    <3>2. Len(f.q) + 1 \notin 1 .. Len(f.q) BY <1>1
    <3>3. \A k : k \in Events(g) <=> k \in 1 .. (Len(f.q) + 1) /\ a[k] = CURSOR BY <2>3, <2>4, Zenon DEF Events
    <3>4. \A k : k \in Events(f) <=> k \in 1 .. Len(f.q) /\ f.q[k] = CURSOR BY Zenon DEF Events
    <3> QED BY <2>4, <3>1, <3>2, <3>3, <3>4, Zenon
  <2>8. e = OTHER_EVENT => Events(g) = Events(f)
    <3>1. e = OTHER_EVENT => e # CURSOR BY TypeNames
    <3> QED BY <2>7, <3>1, Zenon
  <2>9. e = CURSOR /\ Events(f) = {} => Events(g) = {Len(f.q) + 1} BY <2>7
  <2> QED BY <2>3, <2>5, <2>6, <2>8, <2>9
<1> QED BY <1>2, <1>3

\* What fifo32_get does to one FIFO.
Taken(f) == [f EXCEPT !.q = Tail(@)]

LEMMA GetIs ==
    ASSUME NEW f \in Fifos, Len(f.q) <= FIFO_SIZE, f.q # <<>>, NEW g, g = Taken(f)
    PROVE  /\ g \in Fifos /\ Len(g.q) <= FIFO_SIZE /\ g.overrun = f.overrun
           /\ \A k : k \in Events(g) <=> k \in Nat \ {0} /\ k + 1 \in Events(f)
           /\ 1 \in Events(f) <=> Head(f.q) = CURSOR
           /\ Events(f) \in SUBSET (Nat \ {0})
<1>1. /\ f = [q |-> f.q, overrun |-> f.overrun]
      /\ f.q \in Seq({CURSOR, OTHER_EVENT}) /\ f.overrun \in BOOLEAN /\ Len(f.q) \in Nat
  BY FifoTypes
<1> PICK a : a = Tail(f.q) OBVIOUS
<1>2. g = [q |-> a, overrun |-> f.overrun] BY <1>1 DEF Taken
<1>3. g.q = a /\ g.overrun = f.overrun BY <1>2
<1>4. /\ a \in Seq({CURSOR, OTHER_EVENT}) /\ Len(a) = Len(f.q) - 1 /\ Head(f.q) = f.q[1] /\ Len(f.q) > 0
      /\ \A k \in 1 .. Len(a) : a[k] = f.q[k + 1]
  BY <1>1
<1>5. g \in Fifos BY <1>1, <1>2, <1>4 DEF Fifos
<1>6. Len(g.q) <= FIFO_SIZE BY <1>1, <1>3, <1>4, Sizes
<1>7. \A k : k \in Events(f) <=> k \in 1 .. Len(f.q) /\ f.q[k] = CURSOR BY Zenon DEF Events
<1>8. ASSUME NEW k PROVE k \in Events(g) <=> k \in Nat \ {0} /\ k + 1 \in Events(f)
  <2>1. k \in Events(g) <=> k \in 1 .. Len(a) /\ a[k] = CURSOR BY <1>3, Zenon DEF Events
  <2>2. k \in 1 .. Len(a) <=> k \in Nat \ {0} /\ k + 1 \in 1 .. Len(f.q) BY <1>1, <1>4
  <2> QED BY <1>4, <1>7, <2>1, <2>2
<1>9. 1 \in 1 .. Len(f.q) BY <1>1, <1>4
<1>10. 1 \in Events(f) <=> Head(f.q) = CURSOR BY <1>4, <1>7, <1>9
<1>11. Events(f) \in SUBSET (Nat \ {0})
  <2>1. \A k \in 1 .. Len(f.q) : k \in Nat \ {0} BY <1>1
  <2> QED BY <1>7, <2>1
<1> QED BY <1>3, <1>5, <1>6, <1>8, <1>10, <1>11

-----------------------------------------------------------------------------
(* Steps that set no timer *)

LEMMA TypeFacts ==
    ASSUME Types
    PROVE  /\ flags2 \in [Timers -> 0 .. 1] /\ owner \in [Timers -> Consoles \cup {Nobody}]
           /\ mode \in [Consoles -> {"closed", "shell", "app", "leaving"}]
           /\ cursor \in [Consoles -> Pointers] /\ appTimer \in [Consoles -> Pointers]
           /\ setting \in [Consoles -> Pointers] /\ fifo \in [Consoles -> Fifos]
           /\ \A c \in Consoles : fifo[c] \in Fifos /\ Len(fifo[c].q) <= FIFO_SIZE
BY DEF Types, Fifos

LEMMA TypesOf ==
    ASSUME flags2' \in [Timers -> 0 .. 1], owner' \in [Timers -> Consoles \cup {Nobody}],
           mode' \in [Consoles -> {"closed", "shell", "app", "leaving"}],
           cursor' \in [Consoles -> Pointers], appTimer' \in [Consoles -> Pointers],
           setting' \in [Consoles -> Pointers], fifo' \in [Consoles -> Fifos],
           \A c \in Consoles : Len(fifo'[c].q) <= FIFO_SIZE
    PROVE  Types'
BY DEF Types, Fifos

LEMMA ListedFrom ==
    ASSUME NEW n, NEW q, List(tm', Running', n, q)
    PROVE  Listed'
BY DEF Listed

LEMMA Steady ==
    ASSUME Listed, tm' = tm, setting' = setting
    PROVE  Listed'
<1>1. PICK n, q : List(tm, Running, n, q) BY DEF Listed
<1>2. Running' = Running BY DEF Running, Setting
<1>3. List(tm', Running', n, q) BY <1>1, <1>2
<1> QED BY <1>3, ListedFrom

LEMMA FifoPutIs ==
    ASSUME NEW f, NEW c \in Consoles, NEW e
    PROVE  FifoPut(f, c, e) = [f EXCEPT ![c] = Filled(f[c], e)]
<1>1. CASE Len(f[c].q) = FIFO_SIZE BY <1>1, Zenon DEF FifoPut, Filled
<1>2. CASE Len(f[c].q) # FIFO_SIZE BY <1>2, Zenon DEF FifoPut, Filled
<1> QED BY <1>1, <1>2

LEMMA KeyInv ==
    ASSUME IInv, NEW c \in Consoles, Key(c)
    PROVE  IInv'
<1>1. Types /\ Held /\ Alive /\ Listed BY DEF IInv
<1>2. /\ tm' = tm /\ flags2' = flags2 /\ owner' = owner /\ mode' = mode /\ cursor' = cursor
      /\ appTimer' = appTimer /\ setting' = setting
  BY DEF Key
<1>3. fifo' = [fifo EXCEPT ![c] = Filled(fifo[c], OTHER_EVENT)] BY FifoPutIs DEF Key
<1>4. fifo \in [Consoles -> Fifos] /\ \A d \in Consoles : fifo[d] \in Fifos /\ Len(fifo[d].q) <= FIFO_SIZE
  BY <1>1, TypeFacts
<1>5. /\ fifo'[c] \in Fifos /\ Len(fifo'[c].q) <= FIFO_SIZE
      /\ fifo[c].overrun => fifo'[c].overrun
      /\ Events(fifo'[c]) = Events(fifo[c])
  <2>1. fifo'[c] = Filled(fifo[c], OTHER_EVENT) BY <1>3, <1>4
  <2>2. OTHER_EVENT \in {CURSOR, OTHER_EVENT} OBVIOUS
  <2> QED BY <1>4, <2>1, <2>2, PutIs
<1>6. \A d \in Consoles : d # c => fifo'[d] = fifo[d] BY <1>3, <1>4
<1>7. Types'
  <2>1. fifo' \in [Consoles -> Fifos] BY <1>3, <1>4, <1>5
  <2>2. \A d \in Consoles : Len(fifo'[d].q) <= FIFO_SIZE BY <1>4, <1>5, <1>6
  <2> QED BY <1>1, <1>2, <2>1, <2>2, TypeFacts, TypesOf
<1>8. Held' BY <1>1, <1>2 DEF Held
<1>9. Alive' BY <1>1, <1>2, <1>5, <1>6 DEF Alive
<1>10. Listed' BY <1>1, <1>2, Steady
<1> QED BY <1>7, <1>8, <1>9, <1>10 DEF IInv

\* Taking an event out of a FIFO.
LEMMA FifoGetIs ==
    ASSUME Types, NEW c \in Consoles, FifoGet(c), fifo[c].q # <<>>
    PROVE  /\ fifo' \in [Consoles -> Fifos] /\ \A d \in Consoles : Len(fifo'[d].q) <= FIFO_SIZE
           /\ \A d \in Consoles : d # c => fifo'[d] = fifo[d]
           /\ fifo'[c].overrun = fifo[c].overrun
           /\ \A k : k \in Events(fifo'[c]) <=> k \in Nat \ {0} /\ k + 1 \in Events(fifo[c])
           /\ 1 \in Events(fifo[c]) <=> Head(fifo[c].q) = CURSOR
           /\ Events(fifo[c]) \in SUBSET (Nat \ {0})
<1> PICK f : f = Taken(fifo[c]) OBVIOUS
<1>1. fifo' = [fifo EXCEPT ![c] = f] BY Zenon DEF FifoGet, Taken
<1>2. fifo \in [Consoles -> Fifos] /\ \A d \in Consoles : fifo[d] \in Fifos /\ Len(fifo[d].q) <= FIFO_SIZE
  BY TypeFacts
<1>3. /\ f \in Fifos /\ Len(f.q) <= FIFO_SIZE /\ f.overrun = fifo[c].overrun
      /\ \A k : k \in Events(f) <=> k \in Nat \ {0} /\ k + 1 \in Events(fifo[c])
      /\ 1 \in Events(fifo[c]) <=> Head(fifo[c].q) = CURSOR
      /\ Events(fifo[c]) \in SUBSET (Nat \ {0})
  BY <1>2, GetIs
<1>4. fifo'[c] = f BY <1>1, <1>2
<1>5. \A d \in Consoles : d # c => fifo'[d] = fifo[d] BY <1>1, <1>2
<1>6. fifo' \in [Consoles -> Fifos] BY <1>1, <1>2, <1>3
<1>7. \A d \in Consoles : Len(fifo'[d].q) <= FIFO_SIZE BY <1>2, <1>3, <1>4, <1>5
<1> QED BY <1>3, <1>4, <1>5, <1>6, <1>7

LEMMA TakeOtherInv ==
    ASSUME IInv, NEW c \in Consoles, TakeOther(c)
    PROVE  IInv'
<1>1. Types /\ Held /\ Alive /\ Listed BY DEF IInv
<1>2. /\ tm' = tm /\ flags2' = flags2 /\ owner' = owner /\ cursor' = cursor
      /\ appTimer' = appTimer /\ setting' = setting
      /\ fifo[c].q # <<>> /\ Head(fifo[c].q) = OTHER_EVENT /\ FifoGet(c)
      /\ mode[c] # "closed" /\ mode[c] # "leaving"
      /\ mode' = mode \/ (mode[c] = "shell" /\ mode' = [mode EXCEPT ![c] = "app"])
  BY DEF TakeOther, Waits
<1>3. /\ fifo' \in [Consoles -> Fifos] /\ \A d \in Consoles : Len(fifo'[d].q) <= FIFO_SIZE
      /\ \A d \in Consoles : d # c => fifo'[d] = fifo[d]
      /\ fifo'[c].overrun = fifo[c].overrun
      /\ \A k : k \in Events(fifo'[c]) <=> k \in Nat \ {0} /\ k + 1 \in Events(fifo[c])
      /\ 1 \in Events(fifo[c]) <=> Head(fifo[c].q) = CURSOR
      /\ Events(fifo[c]) \in SUBSET (Nat \ {0})
  BY <1>1, <1>2, FifoGetIs
<1>4. /\ mode' \in [Consoles -> {"closed", "shell", "app", "leaving"}]
      /\ \A d \in Consoles : d # c => mode'[d] = mode[d]
      /\ mode'[c] = mode[c] \/ (mode[c] = "shell" /\ mode'[c] = "app")
  <2>1. mode \in [Consoles -> {"closed", "shell", "app", "leaving"}] BY <1>1, TypeFacts
  <2> QED BY <1>2, <2>1
<1>5. Types' BY <1>1, <1>2, <1>3, <1>4, TypeFacts, TypesOf
<1>6. Held' BY <1>1, <1>2, <1>4 DEF Held
<1>7. Alive'
  <2>1. ASSUME NEW d \in Consoles, cursor'[d] # NIL
        PROVE  /\ tm'.flags[cursor'[d]] = USING => Events(fifo'[d]) = {}
               /\ \A j, k \in Events(fifo'[d]) : j = k
               /\ fifo'[d].overrun \/ tm'.flags[cursor'[d]] = USING \/ Events(fifo'[d]) # {}
    <3>1. /\ tm.flags[cursor[d]] = USING => Events(fifo[d]) = {}
          /\ \A j, k \in Events(fifo[d]) : j = k
          /\ fifo[d].overrun \/ tm.flags[cursor[d]] = USING \/ Events(fifo[d]) # {}
      BY <1>1, <1>2, <2>1 DEF Alive
    <3>2. CASE d # c BY <1>2, <1>3, <3>1, <3>2
    <3>3. CASE d = c
      <4>1. 1 \notin Events(fifo[c]) BY <1>2, <1>3, TypeNames
      <4>2. \A k \in Events(fifo[c]) : k - 1 \in Nat \ {0} /\ (k - 1) + 1 = k /\ k - 1 \in Events(fifo'[c])
        BY <1>3, <4>1
      <4>3. Events(fifo[c]) = {} => Events(fifo'[c]) = {} BY <1>3
      <4>4. Events(fifo[c]) # {} => Events(fifo'[c]) # {} BY <4>2
      <4>5. \A j, k \in Events(fifo'[c]) : j = k
        <5>1. ASSUME NEW j \in Events(fifo'[c]), NEW k \in Events(fifo'[c]) PROVE j = k
          <6>1. j + 1 = k + 1 /\ j \in Nat /\ k \in Nat BY <1>3, <3>1, <3>3
          <6> QED BY <6>1
        <5> QED BY <5>1
      <4> QED BY <1>2, <1>3, <3>1, <3>3, <4>3, <4>4, <4>5
    <3> QED BY <3>2, <3>3
  <2> QED BY <2>1 DEF Alive
<1>8. Listed' BY <1>1, <1>2, Steady
<1> QED BY <1>5, <1>6, <1>7, <1>8 DEF IInv

-----------------------------------------------------------------------------
(* What becomes of the list *)

LEMMA SetList ==
    ASSUME Types, Listed, NEW c \in Consoles, setting[c] = NIL, NEW t \in Timers, t \notin Running,
           NEW x \in Times, TimerSettime(c, t, x)
    PROVE  /\ Listed' /\ setting' \in [Consoles -> Pointers]
           /\ setting'[c] = t /\ \A d \in Consoles : d # c => setting'[d] = setting[d]
           /\ \A u \in Timers : tm'.flags[u] = IF u = t THEN USING ELSE tm.flags[u]
           /\ Running' = Running /\ \A u \in Timers : u # t => tm'.left[u] = tm.left[u]
<1>1. setting \in [Consoles -> Pointers] BY TypeFacts
<1>2. tm' = Prepared(tm, t, x) /\ setting' = [setting EXCEPT ![c] = t] BY DEF TimerSettime
<1>3. setting'[c] = t /\ \A d \in Consoles : d # c => setting'[d] = setting[d] BY <1>1, <1>2
<1>4. setting' \in [Consoles -> Pointers] BY <1>1, <1>2, TypeNames
<1>5. PICK n, q : List(tm, Running, n, q) BY DEF Listed
<1>6. List(tm', Running, n, q)
  <2>1. t \in Timers \ Running OBVIOUS
  <2>2. List(Prepared(tm, t, x), Running, n, q) BY <1>5, <2>1, ListPrepared
  <2> QED BY <1>2, <2>2
<1>7. \A u \in Timers : tm'.flags[u] = IF u = t THEN USING ELSE tm.flags[u]
  <2>1. tm \in TM BY ListedTM
  <2>2. \A u \in Timers : Prepared(tm, t, x).flags[u] = IF u = t THEN USING ELSE tm.flags[u]
    BY <2>1, PreparedFields
  <2> QED BY <1>2, <2>2
<1>8. Running' = Running
  <2>1. \A u \in Timers : u \in Running <=> tm.flags[u] = USING /\ \A d \in Consoles : setting[d] # u
    BY ListedTM
  <2>2. \A u \in Timers : u \in Running' <=> tm'.flags[u] = USING /\ \A d \in Consoles : setting'[d] # u
    BY Zenon DEF Running, Setting
  <2>3. \A u \in Timers : u # NIL BY TypeNames
  <2>4. \A u \in Timers : u \in Running' <=> u \in Running BY <1>3, <1>7, <2>1, <2>2, <2>3
  <2>5. Running \in SUBSET Timers /\ Running' \in SUBSET Timers BY Zenon DEF Running
  <2> QED BY <2>4, <2>5
<1>9. Listed' BY <1>6, <1>8, ListedFrom
<1>10. \A u \in Timers : u # t => tm'.left[u] = tm.left[u]
  <2>1. tm \in TM BY ListedTM
  <2>2. \A u \in Timers : Prepared(tm, t, x).left[u] = IF u = t THEN x ELSE tm.left[u]
    BY <2>1, PreparedFields
  <2> QED BY <1>2, <2>2
<1> QED BY <1>3, <1>4, <1>7, <1>8, <1>9, <1>10

LEMMA FlagList ==
    ASSUME Listed, NEW t \in Timers, tm.flags[t] # USING, NEW f \in {FREE, ALLOC},
           tm' = [tm EXCEPT !.flags[t] = f], setting' = setting
    PROVE  /\ Listed'
           /\ \A u \in Timers : tm'.flags[u] = IF u = t THEN f ELSE tm.flags[u]
           /\ Running' = Running /\ \A u \in Timers : tm'.left[u] = tm.left[u]
<1>1. tm \in TM BY ListedTM
<1>2. /\ tm = [t0 |-> tm.t0, next |-> tm.next, link |-> tm.link, left |-> tm.left, flags |-> tm.flags]
      /\ tm.t0 \in Timers /\ tm.next \in Lefts /\ tm.link \in [Timers -> Pointers]
      /\ tm.left \in [Timers -> Lefts] /\ tm.flags \in [Timers -> {FREE, ALLOC, USING}]
  BY <1>1, Fields
<1>3. tm' = [t0 |-> tm.t0, next |-> tm.next, link |-> tm.link, left |-> tm.left,
             flags |-> [tm.flags EXCEPT ![t] = f]]
  BY <1>2
<1> PICK marked : marked = [tm.flags EXCEPT ![t] = f] OBVIOUS
<1>4. \A u \in Timers : marked[u] = IF u = t THEN f ELSE tm.flags[u] BY <1>2
<1>5. marked \in [Timers -> {FREE, ALLOC, USING}] BY <1>2
<1>6. tm' \in TM BY <1>2, <1>3, <1>5 DEF TM
<1>7. /\ tm'.t0 = tm.t0 /\ tm'.next = tm.next /\ tm'.link = tm.link /\ tm'.left = tm.left
      /\ tm'.flags = marked
  BY <1>3
<1>8. PICK n, q : List(tm, Running, n, q) BY DEF Listed
<1>9. List(tm', Running, n, q) BY <1>6, <1>7, <1>8, ListFlags
<1>10. Running' = Running
  <2>1. \A u \in Timers : tm'.flags[u] = USING <=> tm.flags[u] = USING BY <1>4, <1>7, TypeNames
  <2> QED BY <2>1, Zenon DEF Running, Setting
<1>11. Listed' BY <1>9, <1>10, ListedFrom
<1> QED BY <1>4, <1>7, <1>10, <1>11

LEMMA LinkList ==
    ASSUME Types, Held, Listed, NEW c \in Consoles, LinkTimer(c)
    PROVE  /\ Listed' /\ tm'.flags = tm.flags
           /\ setting[c] \in Timers \ Running /\ Running' = Running \cup {setting[c]}
           /\ \A u \in Timers : tm'.left[u] = tm.left[u]
<1> PICK t : t = setting[c] OBVIOUS
<1>1. t \in Timers /\ tm.flags[t] = USING
  <2>1. setting[c] \in Pointers BY TypeFacts
  <2>2. setting[c] # NIL BY DEF LinkTimer
  <2> QED BY <2>1, <2>2, TypeNames DEF Held
<1>2. tm' = Link(tm, t) /\ setting' = [setting EXCEPT ![c] = NIL] BY DEF LinkTimer
<1>3. setting'[c] = NIL /\ \A d \in Consoles : d # c => setting'[d] = setting[d]
  <2>1. setting \in [Consoles -> Pointers] BY TypeFacts
  <2> QED BY <1>2, <2>1
<1>4. \A d \in Consoles : d # c => setting[d] # t
  <2>1. ASSUME NEW d \in Consoles, setting[d] = t PROVE owner[t] = d
    <3>1. t # NIL BY <1>1, TypeNames
    <3>2. t \in {cursor[d], appTimer[d]} BY <2>1, <3>1 DEF Held
    <3> QED BY <3>1, <3>2 DEF Held
  <2>2. owner[t] = c BY <2>1
  <2> QED BY <2>1, <2>2
<1>5. \A u \in Timers : u \in Running <=> tm.flags[u] = USING /\ \A d \in Consoles : setting[d] # u
  BY ListedTM
<1>6. PICK n, q : List(tm, Running, n, q) BY DEF Listed
<1>7. t \in Timers \ Running BY <1>1, <1>5
<1>8. PICK q2 : List(tm', Running \cup {t}, n + 1, q2)
  <2>1. \E q2 : List(Link(tm, t), Running \cup {t}, n + 1, q2) BY <1>6, <1>7, Linked
  <2> QED BY <1>2, <2>1
<1>9. tm'.flags = tm.flags /\ tm'.left = tm.left
  <2>1. LinkedAt(Link(tm, t), tm, n, q, t, Place(tm, tm.left[t])) BY <1>6, <1>7, LinkResult
  <2>2. Link(tm, t).flags = tm.flags /\ Link(tm, t).left = tm.left BY <2>1, Zenon DEF LinkedAt
  <2> QED BY <1>2, <2>2
<1>10. Running' = Running \cup {t}
  <2>1. \A u \in Timers : u \in Running' <=> tm'.flags[u] = USING /\ \A d \in Consoles : setting'[d] # u
    BY Zenon DEF Running, Setting
  <2>2. \A u \in Timers : u # NIL BY TypeNames
  <2>3. \A u \in Timers : u \in Running' <=> u \in Running \/ u = t
    BY <1>1, <1>3, <1>4, <1>5, <1>9, <2>1, <2>2
  <2>4. Running \in SUBSET Timers /\ Running' \in SUBSET Timers BY Zenon DEF Running
  <2> QED BY <1>1, <2>3, <2>4
<1>11. Listed' BY <1>8, <1>10, ListedFrom
<1> QED BY <1>7, <1>9, <1>10, <1>11

\* timer_cancel on a timer that no timer_settime is busy with.
LEMMA CancelList ==
    ASSUME Listed, NEW t \in Timers \ {SENTINEL}, \A c \in Consoles : setting[c] # t
    PROVE  LET new == TimerCancel(tm, t) IN
           /\ new \in TM
           /\ \A u \in Timers : new.flags[u] = IF u = t /\ tm.flags[t] = USING THEN ALLOC ELSE tm.flags[u]
           /\ \E n, q : List(new, Running \ {t}, n, q)
           /\ new.left = tm.left
<1>1. PICK n, q : List(tm, Running, n, q) BY DEF Listed
<1>2. tm \in TM BY ListedTM
<1>3. CASE tm.flags[t] # USING
  <2>1. TimerCancel(tm, t) = tm BY <1>3 DEF TimerCancel
  <2>2. t \notin Running BY <1>3, ListedTM
  <2>3. Running \ {t} = Running BY <2>2
  <2>4. List(tm, Running \ {t}, n, q) BY <1>1, <2>3
  <2> QED BY <1>2, <1>3, <2>1, <2>4
<1>4. CASE tm.flags[t] = USING
  <2>1. t \in Running BY <1>4, ListedTM
  <2>2. t \in Running \ {SENTINEL} BY <2>1
  <2>3. \E q2 : List(TimerCancel(tm, t), Running \ {t}, n - 1, q2) BY <1>1, <1>4, <2>2, ListCancel
  <2>4. PICK m \in 0 .. (n - 1) : t = q[m]
    <3>1. n \in Nat /\ Running = {q[k] : k \in 0 .. n} /\ q[n] = SENTINEL BY <1>1 DEF List
    <3>2. PICK m \in 0 .. n : t = q[m] BY <2>1, <3>1
    <3>3. m # n BY <3>1, <3>2
    <3>4. m \in 0 .. (n - 1) BY <3>1, <3>3
    <3> QED BY <3>2, <3>4
  <2>5. UnlinkedAt(TimerCancel(tm, t), tm, q, t, m)
    <3>1. tm.flags[q[m]] = USING BY <1>4, <2>4
    <3>2. UnlinkedAt(TimerCancel(tm, q[m]), tm, q, q[m], m) BY <1>1, <3>1, CancelResult
    <3> QED BY <2>4, <3>2
  <2>6. /\ TimerCancel(tm, t) \in TM
        /\ \A u \in Timers : TimerCancel(tm, t).flags[u] = IF u = t THEN ALLOC ELSE tm.flags[u]
        /\ TimerCancel(tm, t).left = tm.left
    BY <2>5, Zenon DEF UnlinkedAt
  <2> QED BY <1>4, <2>3, <2>6
<1> QED BY <1>3, <1>4

-----------------------------------------------------------------------------
(* Steps that set a timer *)

LEMMA CursorTimes == CursorTime \in Times /\ (\A n \in Slices : n \in Times) /\ (\A n \in AppTimes : n \in Times)
BY DEF Times

\* A timer that timer_alloc finds is nobody's.
LEMMA AllocIs ==
    ASSUME Types, Held, Listed, NEW t \in Timers, TimerAlloc(t)
    PROVE  /\ tm.flags[t] = FREE /\ t \notin Running /\ t \notin {SENTINEL, TASK_TIMER} /\ t # NIL
           /\ \A d \in Consoles : cursor[d] # t /\ appTimer[d] # t /\ setting[d] # t
<1>1. tm.flags[t] = FREE BY DEF TimerAlloc
<1>2. t # NIL BY TypeNames
<1>3. t \notin Running BY <1>1, ListedTM, TypeNames
<1>4. t \notin {SENTINEL, TASK_TIMER} BY <1>1, TypeNames DEF Held
<1>5. ASSUME NEW d \in Consoles PROVE cursor[d] # t /\ appTimer[d] # t /\ setting[d] # t
  BY <1>1, <1>2, TypeNames DEF Held
<1> QED BY <1>1, <1>2, <1>3, <1>4, <1>5

LEMMA OpenInv ==
    ASSUME IInv, NEW c \in Consoles, Open(c)
    PROVE  IInv'
<1>1. Types /\ Held /\ Alive /\ Listed BY DEF IInv
<1>2. /\ mode[c] = "closed" /\ appTimer' = appTimer
      /\ mode' = [mode EXCEPT ![c] = "shell"]
      /\ fifo' = [fifo EXCEPT ![c] = Empty]
  BY DEF Open
<1>3. cursor[c] = NIL /\ appTimer[c] = NIL /\ setting[c] = NIL
  <2>1. cursor[c] = NIL /\ appTimer[c] = NIL BY <1>1, <1>2 DEF Held
  <2> QED BY <1>1, <2>1 DEF Held
<1>4. /\ flags2 \in [Timers -> 0 .. 1] /\ owner \in [Timers -> Consoles \cup {Nobody}]
      /\ mode \in [Consoles -> {"closed", "shell", "app", "leaving"}]
      /\ cursor \in [Consoles -> Pointers] /\ appTimer \in [Consoles -> Pointers]
      /\ setting \in [Consoles -> Pointers] /\ fifo \in [Consoles -> Fifos]
      /\ \A d \in Consoles : fifo[d] \in Fifos /\ Len(fifo[d].q) <= FIFO_SIZE
  BY <1>1, TypeFacts
<1>5. /\ mode' \in [Consoles -> {"closed", "shell", "app", "leaving"}]
      /\ mode'[c] = "shell" /\ \A d \in Consoles : d # c => mode'[d] = mode[d]
  BY <1>2, <1>4
<1>6. /\ fifo' \in [Consoles -> Fifos] /\ \A d \in Consoles : Len(fifo'[d].q) <= FIFO_SIZE
      /\ Events(fifo'[c]) = {} /\ ~fifo'[c].overrun
      /\ \A d \in Consoles : d # c => fifo'[d] = fifo[d]
  <2>1. fifo'[c] = Empty /\ \A d \in Consoles : d # c => fifo'[d] = fifo[d] BY <1>2, <1>4
  <2>2. fifo' \in [Consoles -> Fifos] BY <1>2, <1>4, EmptyIs
  <2>3. \A d \in Consoles : Len(fifo'[d].q) <= FIFO_SIZE BY SMTT(30), <1>4, <2>1, EmptyIs, Sizes
  <2> QED BY <2>1, <2>2, <2>3, EmptyIs
<1>7. CASE UNCHANGED <<tm, flags2, owner, cursor, setting>>
  <2>1. tm' = tm /\ flags2' = flags2 /\ owner' = owner /\ cursor' = cursor /\ setting' = setting BY <1>7
  <2>2. Types' BY <1>2, <1>4, <1>5, <1>6, <2>1, TypesOf
  <2>3. Held' BY <1>1, <1>2, <1>3, <1>5, <2>1 DEF Held
  <2>4. Alive' BY <1>1, <1>3, <1>6, <2>1 DEF Alive
  <2>5. Listed' BY <1>1, <2>1, Steady
  <2> QED BY <2>2, <2>3, <2>4, <2>5 DEF IInv
<1>8. ASSUME NEW t \in Timers, TimerAlloc(t), TimerInit(t, c, 0), TimerSettime(c, t, CursorTime),
             cursor' = [cursor EXCEPT ![c] = t]
      PROVE  IInv'
  <2>1. /\ tm.flags[t] = FREE /\ t \notin Running /\ t \notin {SENTINEL, TASK_TIMER} /\ t # NIL
        /\ \A d \in Consoles : cursor[d] # t /\ appTimer[d] # t /\ setting[d] # t
    BY <1>1, <1>8, AllocIs
  <2>2. /\ Listed' /\ setting' \in [Consoles -> Pointers]
        /\ setting'[c] = t /\ \A d \in Consoles : d # c => setting'[d] = setting[d]
        /\ \A u \in Timers : tm'.flags[u] = IF u = t THEN USING ELSE tm.flags[u]
    BY <1>1, <1>3, <1>8, <2>1, SetList, CursorTimes
  <2>3. /\ cursor' \in [Consoles -> Pointers]
        /\ cursor'[c] = t /\ \A d \in Consoles : d # c => cursor'[d] = cursor[d]
    BY <1>4, <1>8, TypeNames
  <2>4. /\ owner' \in [Timers -> Consoles \cup {Nobody}] /\ flags2' \in [Timers -> 0 .. 1]
        /\ owner'[t] = c /\ flags2'[t] = 0
        /\ \A u \in Timers : u # t => owner'[u] = owner[u] /\ flags2'[u] = flags2[u]
    BY <1>4, <1>8 DEF TimerInit
  <2>5. Types' BY <1>2, <1>4, <1>5, <1>6, <2>2, <2>3, <2>4, TypesOf
  <2>6. tm'.flags[SENTINEL] = USING /\ tm'.flags[TASK_TIMER] = USING BY <1>1, <2>1, <2>2, Sizes DEF Held
  <2>7. ASSUME NEW d \in Consoles, cursor'[d] # NIL
        PROVE  /\ cursor'[d] \notin {SENTINEL, TASK_TIMER} /\ tm'.flags[cursor'[d]] # FREE
               /\ owner'[cursor'[d]] = d /\ flags2'[cursor'[d]] = 0
               /\ mode'[d] \in {"shell", "app"}
    <3>1. CASE d = c BY <1>5, <2>1, <2>2, <2>3, <2>4, <3>1, TypeNames
    <3>2. CASE d # c
      <4>1. cursor'[d] = cursor[d] /\ cursor[d] \in Timers /\ cursor[d] # t BY <1>4, <2>1, <2>3, <2>7, <3>2, TypeNames
      <4> QED BY <1>1, <1>5, <2>2, <2>4, <2>7, <3>2, <4>1 DEF Held
    <3> QED BY <3>1, <3>2
  <2>8. ASSUME NEW d \in Consoles, appTimer'[d] # NIL
        PROVE  /\ appTimer'[d] \notin {SENTINEL, TASK_TIMER} /\ tm'.flags[appTimer'[d]] # FREE
               /\ owner'[appTimer'[d]] = d /\ flags2'[appTimer'[d]] = 1
               /\ mode'[d] = "app"
    <3>1. d # c /\ appTimer'[d] = appTimer[d] /\ appTimer[d] \in Timers /\ appTimer[d] # t
      BY <1>2, <1>3, <1>4, <2>1, <2>8, TypeNames
    <3> QED BY <1>1, <1>5, <2>2, <2>4, <2>8, <3>1 DEF Held
  <2>9. ASSUME NEW d \in Consoles, setting'[d] # NIL
        PROVE  setting'[d] \in {cursor'[d], appTimer'[d]} /\ tm'.flags[setting'[d]] = USING
    <3>1. CASE d = c BY <2>2, <2>3, <3>1
    <3>2. CASE d # c
      <4>1. setting'[d] = setting[d] /\ setting[d] \in Timers /\ setting[d] # t BY <1>4, <2>1, <2>2, <2>9, <3>2, TypeNames
      <4> QED BY <1>1, <1>2, <2>2, <2>3, <2>9, <3>2, <4>1 DEF Held
    <3> QED BY <3>1, <3>2
  <2>10. ASSUME NEW u \in Timers \ {SENTINEL, TASK_TIMER}, tm'.flags[u] = USING
         PROVE  owner'[u] \in Consoles /\ u \in {cursor'[owner'[u]], appTimer'[owner'[u]]}
    <3>1. CASE u = t BY <2>3, <2>4, <3>1
    <3>2. CASE u # t
      <4>1. owner[u] \in Consoles /\ u \in {cursor[owner[u]], appTimer[owner[u]]} /\ owner'[u] = owner[u]
        BY <1>1, <2>2, <2>4, <2>10, <3>2 DEF Held
      <4>2. u # NIL BY TypeNames
      <4> QED BY <1>2, <1>3, <2>3, <4>1, <4>2
    <3> QED BY <3>1, <3>2
  <2>11. ASSUME NEW u \in Timers, tm'.flags[u] # FREE, flags2'[u] # 0
         PROVE  owner'[u] \in Consoles /\ u = appTimer'[owner'[u]]
    <3>1. u # t BY <2>4, <2>11
    <3> QED BY <1>1, <1>2, <2>2, <2>4, <2>11, <3>1 DEF Held
  <2>12. Held' BY <2>6, <2>7, <2>8, <2>9, <2>10, <2>11, Zenon DEF Held
  <2>13. Alive'
    <3>1. ASSUME NEW d \in Consoles, cursor'[d] # NIL
          PROVE  /\ tm'.flags[cursor'[d]] = USING => Events(fifo'[d]) = {}
                 /\ \A j, k \in Events(fifo'[d]) : j = k
                 /\ fifo'[d].overrun \/ tm'.flags[cursor'[d]] = USING \/ Events(fifo'[d]) # {}
      <4>1. CASE d = c BY <1>6, <2>2, <2>3, <4>1
      <4>2. CASE d # c
        <5>1. cursor'[d] = cursor[d] /\ cursor[d] \in Timers /\ cursor[d] # t BY <1>4, <2>1, <2>3, <3>1, <4>2, TypeNames
        <5>2. fifo'[d] = fifo[d] /\ tm'.flags[cursor[d]] = tm.flags[cursor[d]] BY <1>6, <2>2, <4>2, <5>1
        <5> QED BY <1>1, <3>1, <5>1, <5>2 DEF Alive
      <4> QED BY <4>1, <4>2
    <3> QED BY <3>1 DEF Alive
  <2> QED BY <2>2, <2>5, <2>12, <2>13 DEF IInv
<1>9. \/ \E t \in Timers : /\ TimerAlloc(t) /\ TimerInit(t, c, 0) /\ TimerSettime(c, t, CursorTime)
                           /\ cursor' = [cursor EXCEPT ![c] = t]
      \/ UNCHANGED <<tm, flags2, owner, cursor, setting>>
  BY Zenon DEF Open
<1> QED BY <1>7, <1>8, <1>9

LEMMA TakeCursorInv ==
    ASSUME IInv, NEW c \in Consoles, TakeCursor(c)
    PROVE  IInv'
<1>1. Types /\ Held /\ Alive /\ Listed BY DEF IInv
<1>2. /\ flags2' = flags2 /\ owner' = owner /\ mode' = mode /\ cursor' = cursor /\ appTimer' = appTimer
      /\ FifoGet(c) /\ fifo[c].q # <<>> /\ Head(fifo[c].q) = CURSOR
      /\ setting[c] = NIL
      /\ IF cursor[c] # NIL THEN TimerSettime(c, cursor[c], CursorTime) ELSE tm' = tm /\ setting' = setting
  BY DEF TakeCursor, Waits, KeepCursor
<1>3. /\ fifo' \in [Consoles -> Fifos] /\ \A d \in Consoles : Len(fifo'[d].q) <= FIFO_SIZE
      /\ \A d \in Consoles : d # c => fifo'[d] = fifo[d]
      /\ fifo'[c].overrun = fifo[c].overrun
      /\ \A k : k \in Events(fifo'[c]) <=> k \in Nat \ {0} /\ k + 1 \in Events(fifo[c])
      /\ 1 \in Events(fifo[c]) <=> Head(fifo[c].q) = CURSOR
      /\ Events(fifo[c]) \in SUBSET (Nat \ {0})
  BY <1>1, <1>2, FifoGetIs
<1>4. /\ flags2 \in [Timers -> 0 .. 1] /\ owner \in [Timers -> Consoles \cup {Nobody}]
      /\ mode \in [Consoles -> {"closed", "shell", "app", "leaving"}]
      /\ cursor \in [Consoles -> Pointers] /\ appTimer \in [Consoles -> Pointers]
      /\ setting \in [Consoles -> Pointers]
  BY <1>1, TypeFacts
<1>5. CASE cursor[c] = NIL
  <2>1. tm' = tm /\ setting' = setting BY <1>2, <1>5
  <2>2. Types' BY <1>2, <1>3, <1>4, <2>1, TypesOf
  <2>3. Held' BY <1>1, <1>2, <2>1 DEF Held
  <2>4. Alive'
    <3>1. \A d \in Consoles : cursor[d] # NIL => fifo'[d] = fifo[d] BY <1>3, <1>5
    <3>2. cursor' = cursor BY <1>2
    <3> QED BY <1>1, <2>1, <3>1, <3>2 DEF Alive
  <2>5. Listed' BY <1>1, <2>1, Steady
  <2> QED BY <2>2, <2>3, <2>4, <2>5 DEF IInv
<1>6. CASE cursor[c] # NIL
  <2> PICK t : t = cursor[c] OBVIOUS
  <2>1. t \in Timers BY <1>4, <1>6, TypeNames
  <2>2. 1 \in Events(fifo[c]) BY <1>2, <1>3
  <2>3. tm.flags[t] # USING /\ \A k \in Events(fifo[c]) : k = 1 BY <1>1, <1>6, <2>2 DEF Alive
  <2>4. t \notin Running BY <1>1, <2>1, <2>3, ListedTM
  <2>5. /\ Listed' /\ setting' \in [Consoles -> Pointers]
        /\ setting'[c] = t /\ \A d \in Consoles : d # c => setting'[d] = setting[d]
        /\ \A u \in Timers : tm'.flags[u] = IF u = t THEN USING ELSE tm.flags[u]
    BY <1>1, <1>2, <1>6, <2>1, <2>4, SetList, CursorTimes
  <2>6. Types' BY <1>2, <1>3, <1>4, <2>5, TypesOf
  <2>7. /\ owner[t] = c /\ flags2[t] = 0 /\ t \notin {SENTINEL, TASK_TIMER} /\ tm.flags[t] # FREE
    BY <1>1, <1>6 DEF Held
  <2>8. tm'.flags[SENTINEL] = USING /\ tm'.flags[TASK_TIMER] = USING BY <1>1, <2>5, <2>7, Sizes DEF Held
  <2>9. \A u \in Timers : /\ tm.flags[u] # FREE <=> tm'.flags[u] # FREE
                          /\ u # t => tm'.flags[u] = tm.flags[u]
    BY <2>5, <2>7, TypeNames
  <2>10. \A d \in Consoles : /\ cursor[d] # NIL => cursor[d] \in Timers
                             /\ appTimer[d] # NIL => appTimer[d] \in Timers
    BY <1>4, TypeNames
  <2>11. ASSUME NEW d \in Consoles, setting'[d] # NIL
         PROVE  setting'[d] \in {cursor'[d], appTimer'[d]} /\ tm'.flags[setting'[d]] = USING
    <3>1. CASE d = c BY <1>2, <2>1, <2>5, <3>1
    <3>2. CASE d # c
      <4>1. setting'[d] = setting[d] /\ setting[d] \in Timers BY <1>4, <2>5, <2>11, <3>2, TypeNames
      <4> QED BY <1>1, <1>2, <2>5, <2>11, <4>1 DEF Held
    <3> QED BY <3>1, <3>2
  <2>12. ASSUME NEW u \in Timers \ {SENTINEL, TASK_TIMER}, tm'.flags[u] = USING
         PROVE  owner'[u] \in Consoles /\ u \in {cursor'[owner'[u]], appTimer'[owner'[u]]}
    <3>1. CASE u = t BY <1>2, <2>7, <3>1
    <3>2. CASE u # t BY <1>1, <1>2, <2>9, <2>12, <3>2 DEF Held
    <3> QED BY <3>1, <3>2
  <2>13. Held' BY <1>1, <1>2, <2>8, <2>9, <2>10, <2>11, <2>12 DEF Held
  <2>14. ASSUME NEW d \in Consoles, cursor'[d] # NIL
         PROVE  /\ tm'.flags[cursor'[d]] = USING => Events(fifo'[d]) = {}
                /\ \A j, k \in Events(fifo'[d]) : j = k
                /\ fifo'[d].overrun \/ tm'.flags[cursor'[d]] = USING \/ Events(fifo'[d]) # {}
    <3>1. CASE d = c
      <4>1. Events(fifo'[c]) = {} BY <1>3, <2>3
      <4> QED BY <1>2, <2>1, <2>5, <3>1, <4>1
    <3>2. CASE d # c
      <4>1. cursor[d] \in Timers /\ cursor[d] # t BY <1>1, <1>2, <2>7, <2>10, <2>14, <3>2 DEF Held
      <4>2. cursor'[d] = cursor[d] /\ fifo'[d] = fifo[d] /\ tm'.flags[cursor[d]] = tm.flags[cursor[d]]
        BY <1>2, <1>3, <2>9, <3>2, <4>1
      <4>3. /\ tm.flags[cursor[d]] = USING => Events(fifo[d]) = {}
            /\ \A j, k \in Events(fifo[d]) : j = k
            /\ fifo[d].overrun \/ tm.flags[cursor[d]] = USING \/ Events(fifo[d]) # {}
        BY <1>1, <2>14, <4>2 DEF Alive
      <4> QED BY <4>2, <4>3
    <3> QED BY <3>1, <3>2
  <2>15. Alive' BY <2>14, Zenon DEF Alive
  <2> QED BY <2>5, <2>6, <2>13, <2>15 DEF IInv
<1> QED BY <1>5, <1>6

LEMMA AppSetInv ==
    ASSUME IInv, NEW c \in Consoles, NEW x \in AppTimes, AppSet(c, x)
    PROVE  IInv'
<1>1. Types /\ Held /\ Alive /\ Listed BY DEF IInv
<1> PICK t : t = appTimer[c] OBVIOUS
<1>2. /\ flags2' = flags2 /\ owner' = owner /\ mode' = mode /\ cursor' = cursor /\ appTimer' = appTimer
      /\ fifo' = fifo /\ setting[c] = NIL /\ t # NIL /\ tm.flags[t] # USING /\ TimerSettime(c, t, x)
  BY DEF AppSet, AppIdles, Runs
<1>3. /\ flags2 \in [Timers -> 0 .. 1] /\ owner \in [Timers -> Consoles \cup {Nobody}]
      /\ mode \in [Consoles -> {"closed", "shell", "app", "leaving"}]
      /\ cursor \in [Consoles -> Pointers] /\ appTimer \in [Consoles -> Pointers]
      /\ setting \in [Consoles -> Pointers] /\ fifo \in [Consoles -> Fifos]
      /\ \A d \in Consoles : Len(fifo[d].q) <= FIFO_SIZE
  BY <1>1, TypeFacts
<1>4. t \in Timers BY <1>2, <1>3, TypeNames
<1>5. t \notin Running BY <1>1, <1>2, <1>4, ListedTM
<1>6. /\ Listed' /\ setting' \in [Consoles -> Pointers]
      /\ setting'[c] = t /\ \A d \in Consoles : d # c => setting'[d] = setting[d]
      /\ \A u \in Timers : tm'.flags[u] = IF u = t THEN USING ELSE tm.flags[u]
  BY <1>1, <1>2, <1>4, <1>5, SetList, CursorTimes
<1>7. Types' BY <1>2, <1>3, <1>6, TypesOf
<1>8. owner[t] = c /\ flags2[t] = 1 /\ t \notin {SENTINEL, TASK_TIMER} /\ tm.flags[t] # FREE
  BY <1>1, <1>2 DEF Held
<1>9. tm'.flags[SENTINEL] = USING /\ tm'.flags[TASK_TIMER] = USING BY <1>1, <1>6, <1>8, Sizes DEF Held
<1>10. \A u \in Timers : /\ tm.flags[u] # FREE <=> tm'.flags[u] # FREE
                         /\ u # t => tm'.flags[u] = tm.flags[u]
  BY <1>6, <1>8, TypeNames
<1>11. \A d \in Consoles : /\ cursor[d] # NIL => cursor[d] \in Timers /\ cursor[d] # t
                           /\ appTimer[d] # NIL => appTimer[d] \in Timers
  <2>1. \A d \in Consoles : cursor[d] # NIL => flags2[cursor[d]] = 0 BY <1>1 DEF Held
  <2> QED BY <1>3, <1>8, <2>1, TypeNames
<1>12. ASSUME NEW d \in Consoles, setting'[d] # NIL
       PROVE  setting'[d] \in {cursor'[d], appTimer'[d]} /\ tm'.flags[setting'[d]] = USING
  <2>1. CASE d = c BY <1>2, <1>4, <1>6, <2>1
  <2>2. CASE d # c
    <3>1. setting'[d] = setting[d] /\ setting[d] \in Timers BY <1>3, <1>6, <1>12, <2>2, TypeNames
    <3> QED BY <1>1, <1>2, <1>6, <1>12, <3>1 DEF Held
  <2> QED BY <2>1, <2>2
<1>13. ASSUME NEW u \in Timers \ {SENTINEL, TASK_TIMER}, tm'.flags[u] = USING
       PROVE  owner'[u] \in Consoles /\ u \in {cursor'[owner'[u]], appTimer'[owner'[u]]}
  <2>1. CASE u = t BY <1>2, <1>8, <2>1
  <2>2. CASE u # t BY <1>1, <1>2, <1>10, <1>13, <2>2 DEF Held
  <2> QED BY <2>1, <2>2
<1>14. Held' BY <1>1, <1>2, <1>9, <1>10, <1>11, <1>12, <1>13 DEF Held
<1>15. Alive' BY <1>1, <1>2, <1>10, <1>11 DEF Alive
<1> QED BY <1>6, <1>7, <1>14, <1>15 DEF IInv

LEMMA LinkTimerInv ==
    ASSUME IInv, NEW c \in Consoles, LinkTimer(c)
    PROVE  IInv'
<1>1. Types /\ Held /\ Alive /\ Listed BY DEF IInv
<1>2. /\ flags2' = flags2 /\ owner' = owner /\ mode' = mode /\ cursor' = cursor /\ appTimer' = appTimer
      /\ fifo' = fifo /\ setting' = [setting EXCEPT ![c] = NIL]
  BY DEF LinkTimer
<1>3. Listed' /\ tm'.flags = tm.flags BY <1>1, LinkList
<1>4. /\ flags2 \in [Timers -> 0 .. 1] /\ owner \in [Timers -> Consoles \cup {Nobody}]
      /\ mode \in [Consoles -> {"closed", "shell", "app", "leaving"}]
      /\ cursor \in [Consoles -> Pointers] /\ appTimer \in [Consoles -> Pointers]
      /\ setting \in [Consoles -> Pointers] /\ fifo \in [Consoles -> Fifos]
      /\ \A d \in Consoles : Len(fifo[d].q) <= FIFO_SIZE
  BY <1>1, TypeFacts
<1>5. /\ setting' \in [Consoles -> Pointers]
      /\ setting'[c] = NIL /\ \A d \in Consoles : d # c => setting'[d] = setting[d]
  BY <1>2, <1>4, TypeNames
<1>6. Types' BY <1>2, <1>4, <1>5, TypesOf
<1>7. Held' BY <1>1, <1>2, <1>3, <1>5 DEF Held
<1>8. Alive' BY <1>1, <1>2, <1>3 DEF Alive
<1> QED BY <1>3, <1>6, <1>7, <1>8 DEF IInv

LEMMA AppAllocInv ==
    ASSUME IInv, NEW c \in Consoles, AppAlloc(c)
    PROVE  IInv'
<1>1. Types /\ Held /\ Alive /\ Listed BY DEF IInv
<1>2. /\ mode' = mode /\ cursor' = cursor /\ setting' = setting /\ fifo' = fifo
      /\ mode[c] = "app" /\ setting[c] = NIL /\ appTimer[c] = NIL
  BY DEF AppAlloc, Runs
<1>a. PICK t \in Timers : /\ TimerAlloc(t) /\ tm' = [tm EXCEPT !.flags[t] = ALLOC] /\ TimerInit(t, c, 1)
                          /\ appTimer' = [appTimer EXCEPT ![c] = t]
  BY Zenon DEF AppAlloc
<1>3. /\ flags2 \in [Timers -> 0 .. 1] /\ owner \in [Timers -> Consoles \cup {Nobody}]
      /\ mode \in [Consoles -> {"closed", "shell", "app", "leaving"}]
      /\ cursor \in [Consoles -> Pointers] /\ appTimer \in [Consoles -> Pointers]
      /\ setting \in [Consoles -> Pointers] /\ fifo \in [Consoles -> Fifos]
      /\ \A d \in Consoles : Len(fifo[d].q) <= FIFO_SIZE
  BY <1>1, TypeFacts
<1>4. /\ tm.flags[t] = FREE /\ t \notin Running /\ t \notin {SENTINEL, TASK_TIMER} /\ t # NIL
      /\ \A d \in Consoles : cursor[d] # t /\ appTimer[d] # t /\ setting[d] # t
  BY <1>1, <1>a, AllocIs
<1>5. Listed' /\ \A u \in Timers : tm'.flags[u] = IF u = t THEN ALLOC ELSE tm.flags[u]
  <2>1. tm.flags[t] # USING /\ ALLOC \in {FREE, ALLOC} BY <1>4, TypeNames
  <2> QED BY <1>1, <1>2, <1>a, <2>1, FlagList
<1>6. /\ owner' \in [Timers -> Consoles \cup {Nobody}] /\ flags2' \in [Timers -> 0 .. 1]
      /\ owner'[t] = c /\ flags2'[t] = 1
      /\ \A u \in Timers : u # t => owner'[u] = owner[u] /\ flags2'[u] = flags2[u]
  BY <1>3, <1>a DEF TimerInit
<1>7. /\ appTimer' \in [Consoles -> Pointers]
      /\ appTimer'[c] = t /\ \A d \in Consoles : d # c => appTimer'[d] = appTimer[d]
  BY <1>3, <1>a, TypeNames
<1>8. Types' BY <1>2, <1>3, <1>6, <1>7, TypesOf
<1>9. \A u \in Timers : u # t => tm'.flags[u] = tm.flags[u] BY <1>5
<1>10. tm'.flags[t] = ALLOC /\ ALLOC # FREE /\ ALLOC # USING BY <1>5, TypeNames
<1>11. \A d \in Consoles : /\ cursor[d] # NIL => cursor[d] \in Timers
                           /\ appTimer[d] # NIL => appTimer[d] \in Timers
                           /\ setting[d] # NIL => setting[d] \in Timers
  BY <1>3, TypeNames
<1>12. tm'.flags[SENTINEL] = USING /\ tm'.flags[TASK_TIMER] = USING BY <1>1, <1>4, <1>9, Sizes DEF Held
<1>13. ASSUME NEW d \in Consoles, cursor'[d] # NIL
       PROVE  /\ cursor'[d] \notin {SENTINEL, TASK_TIMER} /\ tm'.flags[cursor'[d]] # FREE
              /\ owner'[cursor'[d]] = d /\ flags2'[cursor'[d]] = 0
              /\ mode'[d] \in {"shell", "app"}
  BY <1>1, <1>2, <1>4, <1>6, <1>9, <1>11, <1>13 DEF Held
<1>14. ASSUME NEW d \in Consoles, appTimer'[d] # NIL
       PROVE  /\ appTimer'[d] \notin {SENTINEL, TASK_TIMER} /\ tm'.flags[appTimer'[d]] # FREE
              /\ owner'[appTimer'[d]] = d /\ flags2'[appTimer'[d]] = 1
              /\ mode'[d] = "app"
  <2>1. CASE d = c BY <1>2, <1>4, <1>6, <1>7, <1>10, <2>1
  <2>2. CASE d # c BY <1>1, <1>2, <1>4, <1>6, <1>7, <1>9, <1>11, <1>14, <2>2 DEF Held
  <2> QED BY <2>1, <2>2
<1>15. ASSUME NEW d \in Consoles, setting'[d] # NIL
       PROVE  setting'[d] \in {cursor'[d], appTimer'[d]} /\ tm'.flags[setting'[d]] = USING
  <2>1. d # c BY <1>2, <1>15
  <2> QED BY <1>1, <1>2, <1>4, <1>7, <1>9, <1>11, <1>15, <2>1 DEF Held
<1>16. ASSUME NEW u \in Timers \ {SENTINEL, TASK_TIMER}, tm'.flags[u] = USING
       PROVE  owner'[u] \in Consoles /\ u \in {cursor'[owner'[u]], appTimer'[owner'[u]]}
  <2>1. u # t /\ u # NIL BY <1>10, <1>16, TypeNames
  <2>2. owner[u] \in Consoles /\ u \in {cursor[owner[u]], appTimer[owner[u]]} /\ owner'[u] = owner[u]
    BY <1>1, <1>6, <1>9, <1>16, <2>1 DEF Held
  <2> QED BY <1>2, <1>7, <2>1, <2>2
<1>17. ASSUME NEW u \in Timers, tm'.flags[u] # FREE, flags2'[u] # 0
       PROVE  owner'[u] \in Consoles /\ u = appTimer'[owner'[u]]
  <2>1. CASE u = t BY <1>6, <1>7, <2>1
  <2>2. CASE u # t
    <3>1. owner[u] \in Consoles /\ u = appTimer[owner[u]] /\ owner'[u] = owner[u]
      BY <1>1, <1>6, <1>9, <1>17, <2>2 DEF Held
    <3>2. u # NIL BY TypeNames
    <3> QED BY <1>2, <1>7, <3>1, <3>2
  <2> QED BY <2>1, <2>2
<1>18. Held' BY <1>12, <1>13, <1>14, <1>15, <1>16, <1>17, Zenon DEF Held
<1>19. Alive' BY <1>1, <1>2, <1>4, <1>9, <1>11 DEF Alive
<1> QED BY <1>5, <1>8, <1>18, <1>19 DEF IInv

LEMMA AppFreeInv ==
    ASSUME IInv, NEW c \in Consoles, AppFree(c)
    PROVE  IInv'
<1>1. Types /\ Held /\ Alive /\ Listed BY DEF IInv
<1> PICK t : t = appTimer[c] OBVIOUS
<1>2. /\ flags2' = flags2 /\ owner' = owner /\ mode' = mode /\ cursor' = cursor /\ setting' = setting
      /\ fifo' = fifo /\ setting[c] = NIL /\ t # NIL /\ tm.flags[t] # USING
      /\ tm' = [tm EXCEPT !.flags[t] = FREE] /\ appTimer' = [appTimer EXCEPT ![c] = NIL]
  BY DEF AppFree, TimerFree, AppIdles, Runs
<1>3. /\ flags2 \in [Timers -> 0 .. 1] /\ owner \in [Timers -> Consoles \cup {Nobody}]
      /\ mode \in [Consoles -> {"closed", "shell", "app", "leaving"}]
      /\ cursor \in [Consoles -> Pointers] /\ appTimer \in [Consoles -> Pointers]
      /\ setting \in [Consoles -> Pointers] /\ fifo \in [Consoles -> Fifos]
      /\ \A d \in Consoles : Len(fifo[d].q) <= FIFO_SIZE
  BY <1>1, TypeFacts
<1>4. t \in Timers /\ owner[t] = c /\ flags2[t] = 1 /\ t \notin {SENTINEL, TASK_TIMER}
  BY <1>1, <1>2, <1>3, TypeNames DEF Held
<1>5. Listed' /\ \A u \in Timers : tm'.flags[u] = IF u = t THEN FREE ELSE tm.flags[u]
  BY <1>1, <1>2, <1>4, FlagList
<1>6. /\ appTimer' \in [Consoles -> Pointers]
      /\ appTimer'[c] = NIL /\ \A d \in Consoles : d # c => appTimer'[d] = appTimer[d]
  BY <1>2, <1>3, TypeNames
<1>7. Types' BY <1>2, <1>3, <1>6, TypesOf
<1>8. tm'.flags[t] = FREE /\ FREE # USING /\ \A u \in Timers : u # t => tm'.flags[u] = tm.flags[u]
  BY <1>4, <1>5, TypeNames
<1>9. \A d \in Consoles : /\ cursor[d] # NIL => cursor[d] \in Timers /\ cursor[d] # t
                          /\ d # c /\ appTimer[d] # NIL => appTimer[d] \in Timers /\ appTimer[d] # t
                          /\ setting[d] # NIL => setting[d] \in Timers
  <2>1. \A d \in Consoles : /\ cursor[d] # NIL => flags2[cursor[d]] = 0
                            /\ appTimer[d] # NIL => owner[appTimer[d]] = d
    BY <1>1 DEF Held
  <2> QED BY <1>3, <1>4, <2>1, TypeNames
<1>10. tm'.flags[SENTINEL] = USING /\ tm'.flags[TASK_TIMER] = USING BY <1>1, <1>4, <1>8, Sizes DEF Held
<1>11. ASSUME NEW d \in Consoles, cursor'[d] # NIL
       PROVE  /\ cursor'[d] \notin {SENTINEL, TASK_TIMER} /\ tm'.flags[cursor'[d]] # FREE
              /\ owner'[cursor'[d]] = d /\ flags2'[cursor'[d]] = 0
              /\ mode'[d] \in {"shell", "app"}
  BY <1>1, <1>2, <1>8, <1>9, <1>11 DEF Held
<1>12. ASSUME NEW d \in Consoles, appTimer'[d] # NIL
       PROVE  /\ appTimer'[d] \notin {SENTINEL, TASK_TIMER} /\ tm'.flags[appTimer'[d]] # FREE
              /\ owner'[appTimer'[d]] = d /\ flags2'[appTimer'[d]] = 1
              /\ mode'[d] = "app"
  <2>1. d # c BY <1>6, <1>12
  <2> QED BY <1>1, <1>2, <1>6, <1>8, <1>9, <1>12, <2>1 DEF Held
<1>13. ASSUME NEW d \in Consoles, setting'[d] # NIL
       PROVE  setting'[d] \in {cursor'[d], appTimer'[d]} /\ tm'.flags[setting'[d]] = USING
  <2>1. d # c BY <1>2, <1>13
  <2>2. setting[d] \in {cursor[d], appTimer[d]} /\ tm.flags[setting[d]] = USING
    BY <1>1, <1>2, <1>13 DEF Held
  <2>3. setting[d] # t BY <1>2, <2>2
  <2> QED BY <1>2, <1>6, <1>8, <1>9, <1>13, <2>1, <2>2, <2>3
<1>14. ASSUME NEW u \in Timers \ {SENTINEL, TASK_TIMER}, tm'.flags[u] = USING
       PROVE  owner'[u] \in Consoles /\ u \in {cursor'[owner'[u]], appTimer'[owner'[u]]}
  <2>1. u # t /\ tm.flags[u] = USING BY <1>8, <1>14
  <2>2. owner[u] \in Consoles /\ u \in {cursor[owner[u]], appTimer[owner[u]]} BY <1>1, <2>1 DEF Held
  <2>3. owner'[u] = owner[u] /\ cursor' = cursor BY <1>2
  <2> QED BY <1>6, <2>1, <2>2, <2>3
<1>15. ASSUME NEW u \in Timers, tm'.flags[u] # FREE, flags2'[u] # 0
       PROVE  owner'[u] \in Consoles /\ u = appTimer'[owner'[u]]
  <2>1. u # t /\ tm.flags[u] # FREE BY <1>8, <1>15
  <2>2. owner[u] \in Consoles /\ u = appTimer[owner[u]] BY <1>1, <1>2, <1>15, <2>1 DEF Held
  <2> QED BY <1>2, <1>6, <2>1, <2>2
<1>16. Held' BY <1>10, <1>11, <1>12, <1>13, <1>14, <1>15, Zenon DEF Held
<1>17. Alive' BY <1>1, <1>2, <1>8, <1>9 DEF Alive
<1> QED BY <1>5, <1>7, <1>16, <1>17 DEF IInv

-----------------------------------------------------------------------------
(* Steps that cancel timers *)

\* A console gives up its cursor timer.
LEMMA GiveUpCursor ==
    ASSUME Types, Held, Alive, Listed, NEW c \in Consoles, setting[c] = NIL,
           tm' = IF cursor[c] # NIL THEN TimerCancel(tm, cursor[c]) ELSE tm,
           cursor' = [cursor EXCEPT ![c] = NIL],
           flags2' = flags2, owner' = owner, appTimer' = appTimer, setting' = setting,
           mode'[c] = mode[c] \/ appTimer[c] = NIL, \A d \in Consoles : d # c => mode'[d] = mode[d],
           \A d \in Consoles : d # c => fifo'[d] = fifo[d]
    PROVE  /\ Listed' /\ Held' /\ Alive'
           /\ cursor' \in [Consoles -> Pointers]
           /\ Running' \in SUBSET Running /\ \A u \in Timers : tm'.left[u] = tm.left[u]
<1>1. /\ flags2 \in [Timers -> 0 .. 1] /\ cursor \in [Consoles -> Pointers]
      /\ appTimer \in [Consoles -> Pointers] /\ setting \in [Consoles -> Pointers]
  BY TypeFacts
<1>2. /\ cursor' \in [Consoles -> Pointers]
      /\ cursor'[c] = NIL /\ \A d \in Consoles : d # c => cursor'[d] = cursor[d]
  BY <1>1, TypeNames
<1>3. CASE cursor[c] = NIL
  <2>1. tm' = tm BY <1>3, Zenon
  <2>2. Listed' BY <2>1, Steady
  <2>3. \A d \in Consoles : cursor'[d] = cursor[d] BY <1>2, <1>3
  <2>4. ASSUME NEW u \in Timers \ {SENTINEL, TASK_TIMER}, tm'.flags[u] = USING
        PROVE  owner'[u] \in Consoles /\ u \in {cursor'[owner'[u]], appTimer'[owner'[u]]}
    BY <2>1, <2>3, <2>4 DEF Held
  <2>5. ASSUME NEW d \in Consoles, appTimer'[d] # NIL
        PROVE  /\ appTimer'[d] \notin {SENTINEL, TASK_TIMER} /\ tm'.flags[appTimer'[d]] # FREE
               /\ owner'[appTimer'[d]] = d /\ flags2'[appTimer'[d]] = 1
               /\ mode'[d] = "app"
    BY <2>1, <2>5 DEF Held
  <2>6. ASSUME NEW d \in Consoles, cursor'[d] # NIL
        PROVE  /\ cursor'[d] \notin {SENTINEL, TASK_TIMER} /\ tm'.flags[cursor'[d]] # FREE
               /\ owner'[cursor'[d]] = d /\ flags2'[cursor'[d]] = 0
               /\ mode'[d] \in {"shell", "app"}
    BY <1>3, <2>1, <2>3, <2>6 DEF Held
  <2>7. Held' BY <2>1, <2>3, <2>4, <2>5, <2>6 DEF Held
  <2>8. Alive' BY <1>3, <2>1, <2>3 DEF Alive
  <2>9. Running' = Running BY <2>1, Zenon DEF Running, Setting
  <2> QED BY <1>2, <2>1, <2>2, <2>7, <2>8, <2>9
<1>4. CASE cursor[c] # NIL
  <2> PICK t : t = cursor[c] OBVIOUS
  <2>1. tm' = TimerCancel(tm, t) BY <1>4, Zenon
  <2>2. /\ t \in Timers /\ t \notin {SENTINEL, TASK_TIMER} /\ tm.flags[t] # FREE
        /\ owner[t] = c /\ flags2[t] = 0
    BY <1>1, <1>4, TypeNames DEF Held
  <2>3. \A d \in Consoles : /\ cursor[d] # NIL => cursor[d] \in Timers /\ (d # c => cursor[d] # t)
                            /\ appTimer[d] # NIL => appTimer[d] \in Timers /\ appTimer[d] # t
                            /\ setting[d] # t
    <3>1. \A d \in Consoles : /\ cursor[d] # NIL => owner[cursor[d]] = d
                              /\ appTimer[d] # NIL => flags2[appTimer[d]] = 1
      BY DEF Held
    <3>2. \A d \in Consoles : /\ cursor[d] # NIL => cursor[d] \in Timers
                              /\ appTimer[d] # NIL => appTimer[d] \in Timers
      BY <1>1, TypeNames
    <3>3. ASSUME NEW d \in Consoles, setting[d] = t PROVE FALSE
      <4>1. setting[d] # NIL BY <2>2, <3>3, TypeNames
      <4>2. t = cursor[d] \/ t = appTimer[d] BY <3>3, <4>1 DEF Held
      <4>3. d = c BY <2>2, <3>1, <3>3, <4>1, <4>2
      <4> QED BY <4>1, <4>3
    <3> QED BY <2>2, <3>1, <3>2, <3>3
  <2>4. /\ tm' \in TM
        /\ \A u \in Timers : tm'.flags[u] = IF u = t /\ tm.flags[t] = USING THEN ALLOC ELSE tm.flags[u]
        /\ \E n, q : List(tm', Running \ {t}, n, q)
        /\ tm'.left = tm.left
    <3>1. /\ TimerCancel(tm, t) \in TM
          /\ \A u \in Timers : TimerCancel(tm, t).flags[u]
                                  = IF u = t /\ tm.flags[t] = USING THEN ALLOC ELSE tm.flags[u]
          /\ \E n, q : List(TimerCancel(tm, t), Running \ {t}, n, q)
          /\ TimerCancel(tm, t).left = tm.left
      BY SMTT(30), <2>2, <2>3, CancelList
    <3> QED BY <2>1, <3>1
  <2>5. /\ tm'.flags[t] # USING /\ tm'.flags[t] # FREE
        /\ \A u \in Timers : u # t => tm'.flags[u] = tm.flags[u]
    <3>1. tm.flags[t] \in {FREE, ALLOC, USING} BY <2>2, ListedTM
    <3> QED BY <2>2, <2>4, <3>1, TypeNames
  <2>6. Running' = Running \ {t}
    <3>1. ASSUME NEW u \in Timers PROVE u \in Running' <=> u \in Running /\ u # t
      <4>1. u \in Running <=> tm.flags[u] = USING /\ \A d \in Consoles : setting[d] # u BY ListedTM
      <4>2. u \in Running' <=> tm'.flags[u] = USING /\ \A d \in Consoles : setting[d] # u
        BY Zenon DEF Running, Setting
      <4> QED BY <2>5, <4>1, <4>2
    <3>2. Running \in SUBSET Timers /\ Running' \in SUBSET Timers BY DEF Running
    <3> QED BY <3>1, <3>2
  <2>7. Listed' BY <2>4, <2>6 DEF Listed
  <2>8. tm'.flags[SENTINEL] = USING /\ tm'.flags[TASK_TIMER] = USING BY <2>2, <2>5, Sizes DEF Held
  <2>9. ASSUME NEW d \in Consoles, cursor'[d] # NIL
        PROVE  /\ cursor'[d] \notin {SENTINEL, TASK_TIMER} /\ tm'.flags[cursor'[d]] # FREE
               /\ owner'[cursor'[d]] = d /\ flags2'[cursor'[d]] = 0
               /\ mode'[d] \in {"shell", "app"}
    <3>1. d # c BY <1>2, <2>9
    <3> QED BY <1>2, <2>3, <2>5, <2>9, <3>1 DEF Held
  <2>10. ASSUME NEW d \in Consoles, appTimer'[d] # NIL
         PROVE  /\ appTimer'[d] \notin {SENTINEL, TASK_TIMER} /\ tm'.flags[appTimer'[d]] # FREE
                /\ owner'[appTimer'[d]] = d /\ flags2'[appTimer'[d]] = 1
                /\ mode'[d] = "app"
    <3>1. mode'[d] = mode[d] BY <2>10
    <3> QED BY <2>3, <2>5, <2>10, <3>1 DEF Held
  <2>11. ASSUME NEW d \in Consoles, setting'[d] # NIL
         PROVE  setting'[d] \in {cursor'[d], appTimer'[d]} /\ tm'.flags[setting'[d]] = USING
    <3>1. d # c BY <2>11
    <3>2. setting[d] \in {cursor[d], appTimer[d]} /\ tm.flags[setting[d]] = USING BY <2>11 DEF Held
    <3>3. setting[d] \in Timers /\ setting[d] # t BY <1>1, <2>3, <2>11, TypeNames
    <3> QED BY <1>2, <2>5, <3>1, <3>2, <3>3
  <2>12. ASSUME NEW u \in Timers \ {SENTINEL, TASK_TIMER}, tm'.flags[u] = USING
         PROVE  owner'[u] \in Consoles /\ u \in {cursor'[owner'[u]], appTimer'[owner'[u]]}
    <3>1. u # t /\ tm.flags[u] = USING BY <2>5, <2>12
    <3>2. owner[u] \in Consoles /\ u \in {cursor[owner[u]], appTimer[owner[u]]} BY <3>1 DEF Held
    <3> QED BY <1>2, <3>1, <3>2
  <2>13. ASSUME NEW u \in Timers, tm'.flags[u] # FREE, flags2'[u] # 0
         PROVE  owner'[u] \in Consoles /\ u = appTimer'[owner'[u]]
    <3>1. tm.flags[u] # FREE BY <2>2, <2>5, <2>13
    <3> QED BY <2>13, <3>1 DEF Held
  <2>14. Held' BY <2>8, <2>9, <2>10, <2>11, <2>12, <2>13, Zenon DEF Held
  <2>15. Alive' BY SMTT(30), <1>2, <2>3, <2>5 DEF Alive
  <2> QED BY <1>2, <2>4, <2>6, <2>7, <2>14, <2>15
<1> QED BY <1>3, <1>4

LEMMA ExitInv ==
    ASSUME IInv, NEW c \in Consoles, Exit(c)
    PROVE  /\ IInv'
           /\ Running' \in SUBSET Running /\ \A u \in Timers : tm'.left[u] = tm.left[u]
<1>1. Types /\ Held /\ Alive /\ Listed BY DEF IInv
<1>2. /\ flags2' = flags2 /\ owner' = owner /\ appTimer' = appTimer /\ setting' = setting
      /\ tm' = IF cursor[c] # NIL THEN TimerCancel(tm, cursor[c]) ELSE tm
      /\ cursor' = [cursor EXCEPT ![c] = NIL]
      /\ mode' = [mode EXCEPT ![c] = "closed"] /\ fifo' = [fifo EXCEPT ![c] = Empty]
      /\ (mode[c] = "shell" /\ Waits(c, OTHER_EVENT)) \/ mode[c] = "leaving"
  BY DEF Exit
<1>3. /\ flags2 \in [Timers -> 0 .. 1] /\ owner \in [Timers -> Consoles \cup {Nobody}]
      /\ mode \in [Consoles -> {"closed", "shell", "app", "leaving"}]
      /\ appTimer \in [Consoles -> Pointers]
      /\ setting \in [Consoles -> Pointers] /\ fifo \in [Consoles -> Fifos]
      /\ \A d \in Consoles : fifo[d] \in Fifos /\ Len(fifo[d].q) <= FIFO_SIZE
  BY <1>1, TypeFacts
<1>4. appTimer[c] = NIL
  <2>1. mode[c] # "app" BY <1>2
  <2> QED BY <1>1, <2>1 DEF Held
<1>5. setting[c] = NIL
  <2>1. CASE Waits(c, OTHER_EVENT) BY <2>1 DEF Waits
  <2>2. CASE mode[c] = "leaving"
    <3>1. cursor[c] = NIL BY <1>1, <2>2 DEF Held
    <3> QED BY <1>1, <1>4, <3>1 DEF Held
  <2> QED BY <1>2, <2>1, <2>2
<1>6. /\ mode' \in [Consoles -> {"closed", "shell", "app", "leaving"}]
      /\ \A d \in Consoles : d # c => mode'[d] = mode[d]
  BY <1>2, <1>3
<1>7. /\ fifo' \in [Consoles -> Fifos] /\ \A d \in Consoles : Len(fifo'[d].q) <= FIFO_SIZE
      /\ \A d \in Consoles : d # c => fifo'[d] = fifo[d]
  <2>1. fifo'[c] = Empty /\ \A d \in Consoles : d # c => fifo'[d] = fifo[d] BY <1>2, <1>3
  <2>2. fifo' \in [Consoles -> Fifos] BY <1>2, <1>3, EmptyIs
  <2>3. \A d \in Consoles : Len(fifo'[d].q) <= FIFO_SIZE BY <1>3, <2>1, EmptyIs, Sizes
  <2> QED BY <2>1, <2>2, <2>3
<1>8. /\ Listed' /\ Held' /\ Alive' /\ cursor' \in [Consoles -> Pointers]
      /\ Running' \in SUBSET Running /\ \A u \in Timers : tm'.left[u] = tm.left[u]
  BY <1>1, <1>2, <1>4, <1>5, <1>6, <1>7, GiveUpCursor
<1>9. Types' BY <1>2, <1>3, <1>6, <1>7, <1>8, TypesOf
<1> QED BY <1>8, <1>9 DEF IInv

LEMMA CloseWindowInv ==
    ASSUME IInv, NEW c \in Consoles, CloseWindow(c)
    PROVE  /\ IInv'
           /\ Running' \in SUBSET Running /\ \A u \in Timers : tm'.left[u] = tm.left[u]
<1>1. Types /\ Held /\ Alive /\ Listed BY DEF IInv
<1>2. /\ flags2' = flags2 /\ owner' = owner /\ appTimer' = appTimer /\ setting' = setting /\ mode' = mode
      /\ tm' = IF cursor[c] # NIL THEN TimerCancel(tm, cursor[c]) ELSE tm
      /\ cursor' = [cursor EXCEPT ![c] = NIL]
      /\ setting[c] = NIL /\ fifo[c].q # <<>> /\ FifoGet(c)
  BY DEF CloseWindow, Waits
<1>3. /\ flags2 \in [Timers -> 0 .. 1] /\ owner \in [Timers -> Consoles \cup {Nobody}]
      /\ mode \in [Consoles -> {"closed", "shell", "app", "leaving"}]
      /\ appTimer \in [Consoles -> Pointers] /\ setting \in [Consoles -> Pointers]
  BY <1>1, TypeFacts
<1>4. /\ fifo' \in [Consoles -> Fifos] /\ \A d \in Consoles : Len(fifo'[d].q) <= FIFO_SIZE
      /\ \A d \in Consoles : d # c => fifo'[d] = fifo[d]
  BY <1>1, <1>2, FifoGetIs
<1>5. /\ Listed' /\ Held' /\ Alive' /\ cursor' \in [Consoles -> Pointers]
      /\ Running' \in SUBSET Running /\ \A u \in Timers : tm'.left[u] = tm.left[u]
  BY <1>1, <1>2, <1>4, GiveUpCursor
<1>6. Types' BY <1>2, <1>3, <1>4, <1>5, TypesOf
<1> QED BY <1>5, <1>6 DEF IInv

LEMMA CancelallUnfolded ==
    ASSUME NEW c
    PROVE  \E f : /\ f[0] = tm /\ TimerCancelall(c) = f[MAX_TIMER]
                  /\ \A i \in 1 .. MAX_TIMER : f[i] = CancelMine(f[i - 1], i - 1, c)
<1> DEFINE Upto(n, f) ==
        f = [i \in 0 .. n |-> IF i = 0 THEN tm ELSE CancelMine(f[i - 1], i - 1, c)]
<1> HIDE DEF Upto
<1>s. PICK S : S = {n \in 0 .. MAX_TIMER : \E f : Upto(n, f)} OBVIOUS
<1>1. 0 \in S
  <2>1. Upto(0, [k \in 0 .. 0 |-> tm]) BY DEF Upto
  <2>2. 0 \in 0 .. MAX_TIMER BY Sizes
  <2> QED BY <1>s, <2>1, <2>2, Zenon
<1>2. ASSUME NEW n \in 0 .. (MAX_TIMER - 1), n \in S PROVE n + 1 \in S
  <2>1. PICK f : f = [i \in 0 .. n |-> IF i = 0 THEN tm ELSE CancelMine(f[i - 1], i - 1, c)]
    BY <1>2, <1>s, Zenon DEF Upto
  <2> DEFINE g == [k \in 0 .. (n + 1) |-> IF k = n + 1 THEN CancelMine(f[n], n, c) ELSE f[k]]
  <2>2. ASSUME NEW k \in 0 .. (n + 1) PROVE g[k] = IF k = 0 THEN tm ELSE CancelMine(g[k - 1], k - 1, c)
    <3>1. CASE k = 0 BY <2>1, <3>1
    <3>2. CASE k = n + 1
      <4>1. g[k] = CancelMine(f[n], n, c) /\ g[n] = f[n] /\ k - 1 = n BY <3>2
      <4> QED BY <4>1, <3>2
    <3>3. CASE k # 0 /\ k # n + 1
      <4>1. k \in 0 .. n /\ k - 1 \in 0 .. n /\ k # n + 1 /\ k - 1 # n + 1 BY <3>3
      <4>2. f[k] = CancelMine(f[k - 1], k - 1, c) BY <2>1, <3>3, <4>1
      <4>3. g[k] = f[k] /\ g[k - 1] = f[k - 1] BY <4>1
      <4> QED BY <3>3, <4>2, <4>3
    <3> QED BY <3>1, <3>2, <3>3
  <2>3. g = [k \in 0 .. (n + 1) |-> g[k]] OBVIOUS
  <2> HIDE DEF g
  <2>4. Upto(n + 1, g) BY <2>2, <2>3 DEF Upto
  <2>5. n + 1 \in 0 .. MAX_TIMER BY Sizes
  <2> QED BY <1>s, <2>4, <2>5, Zenon
<1>3. \A k \in 0 .. MAX_TIMER : k \in S
  <2>1. MAX_TIMER \in Nat BY Sizes
  <2> QED BY <1>1, <1>2, <2>1, Counting
<1>4. PICK f : Upto(MAX_TIMER, f)
  <2>1. MAX_TIMER \in 0 .. MAX_TIMER BY Sizes
  <2> QED BY <1>3, <1>s, <2>1, Zenon
<1> PICK g : g = CHOOSE h : Upto(MAX_TIMER, h) OBVIOUS
<1>5. TimerCancelall(c) = g[MAX_TIMER] BY DEF TimerCancelall, Upto
<1>6. g = [i \in 0 .. MAX_TIMER |-> IF i = 0 THEN tm ELSE CancelMine(g[i - 1], i - 1, c)]
  BY <1>4, Zenon DEF Upto
<1>7. g[0] = tm /\ \A i \in 1 .. MAX_TIMER : g[i] = CancelMine(g[i - 1], i - 1, c)
  <2>1. 0 \in 0 .. MAX_TIMER /\ \A i \in 1 .. MAX_TIMER : i \in 0 .. MAX_TIMER /\ i # 0 BY Sizes
  <2> QED BY <1>6, <2>1
<1> QED BY <1>5, <1>7

\* What timer_cancelall does to a timer it takes.
Gone(t) == [TimerCancel(tm, t) EXCEPT !.flags[t] = FREE]

LEMMA GoneIs ==
    ASSUME Listed, NEW t \in Timers \ {SENTINEL}, \A c \in Consoles : setting[c] # t
    PROVE  /\ \A u \in Timers : Gone(t).flags[u] = IF u = t THEN FREE ELSE tm.flags[u]
           /\ \E n, q : List(Gone(t), Running \ {t}, n, q)
           /\ Gone(t).left = tm.left
<1> PICK new : new = TimerCancel(tm, t) OBVIOUS
<1>1. /\ new \in TM
      /\ \A u \in Timers : new.flags[u] = IF u = t /\ tm.flags[t] = USING THEN ALLOC ELSE tm.flags[u]
      /\ \E n, q : List(new, Running \ {t}, n, q)
      /\ new.left = tm.left
  <2>1. /\ TimerCancel(tm, t) \in TM
        /\ \A u \in Timers : TimerCancel(tm, t).flags[u]
                                = IF u = t /\ tm.flags[t] = USING THEN ALLOC ELSE tm.flags[u]
        /\ \E n, q : List(TimerCancel(tm, t), Running \ {t}, n, q)
        /\ TimerCancel(tm, t).left = tm.left
    BY CancelList
  <2> QED BY <2>1
<1>2. /\ new = [t0 |-> new.t0, next |-> new.next, link |-> new.link, left |-> new.left, flags |-> new.flags]
      /\ new.t0 \in Timers /\ new.next \in Lefts /\ new.link \in [Timers -> Pointers]
      /\ new.left \in [Timers -> Lefts] /\ new.flags \in [Timers -> {FREE, ALLOC, USING}]
  BY <1>1, Fields
<1> PICK freed : freed = [new.flags EXCEPT ![t] = FREE] OBVIOUS
<1>3. Gone(t) = [t0 |-> new.t0, next |-> new.next, link |-> new.link, left |-> new.left, flags |-> freed]
  BY <1>2 DEF Gone
<1>4. freed \in [Timers -> {FREE, ALLOC, USING}] BY <1>2
<1>5. Gone(t) \in TM BY <1>2, <1>3, <1>4 DEF TM
<1>6. /\ Gone(t).t0 = new.t0 /\ Gone(t).next = new.next /\ Gone(t).link = new.link
      /\ Gone(t).left = new.left /\ Gone(t).flags = freed
  BY <1>3
<1>7. \A u \in Timers : freed[u] = IF u = t THEN FREE ELSE tm.flags[u] BY <1>1, <1>2
<1>8. \E n, q : List(Gone(t), Running \ {t}, n, q) BY <1>1, <1>5, <1>6, ListFlags
<1> QED BY <1>1, <1>6, <1>7, <1>8

\* timer_cancelall takes the timer of the console's application and no other.
LEMMA CancelallIs ==
    ASSUME Types, Held, Listed, NEW c \in Consoles, setting[c] = NIL
    PROVE  TimerCancelall(c) = IF appTimer[c] = NIL THEN tm ELSE Gone(appTimer[c])
<1> PICK a : a = appTimer[c] OBVIOUS
<1>1. a \in Timers \cup {NIL} BY TypeFacts, TypeNames
<1>2. ASSUME NEW t \in Timers, Belongs(tm, t, c) PROVE t = a
  <2>1. tm.flags[t] # FREE /\ flags2[t] # 0 /\ owner[t] = c BY <1>2 DEF Belongs
  <2> QED BY <2>1 DEF Held
<1>3. a # NIL => /\ Belongs(tm, a, c) /\ a # SENTINEL
                 /\ \A d \in Consoles : setting[d] # a
  <2> SUFFICES ASSUME a # NIL PROVE /\ Belongs(tm, a, c) /\ a # SENTINEL
                                    /\ \A d \in Consoles : setting[d] # a
    OBVIOUS
  <2>1. a \notin {SENTINEL, TASK_TIMER} /\ tm.flags[a] # FREE /\ owner[a] = c /\ flags2[a] = 1 BY DEF Held
  <2>2. Belongs(tm, a, c) BY <2>1 DEF Belongs
  <2>3. ASSUME NEW d \in Consoles, setting[d] = a PROVE FALSE
    <3>1. setting[d] # NIL BY <2>3
    <3>2. a = cursor[d] \/ a = appTimer[d] BY <2>3, <3>1 DEF Held
    <3>3. owner[a] = d
      <4>1. CASE a = cursor[d] BY <4>1 DEF Held
      <4>2. CASE a = appTimer[d] BY <4>2 DEF Held
      <4> QED BY <3>2, <4>1, <4>2
    <3>4. d = c BY <2>1, <3>3
    <3> QED BY <3>1, <3>4
  <2> QED BY <2>1, <2>2, <2>3
<1>4. a # NIL => \A u \in Timers : Gone(a).flags[u] = IF u = a THEN FREE ELSE tm.flags[u]
  BY <1>1, <1>3, GoneIs
<1>5. a # NIL => \A t \in Timers : ~Belongs(Gone(a), t, c)
  <2> SUFFICES ASSUME a # NIL, NEW t \in Timers, Belongs(Gone(a), t, c) PROVE FALSE OBVIOUS
  <2>1. Gone(a).flags[t] # FREE /\ flags2[t] # 0 /\ owner[t] = c BY DEF Belongs
  <2>2. t # a /\ tm.flags[t] # FREE BY <1>4, <2>1
  <2>3. Belongs(tm, t, c) BY <2>1, <2>2 DEF Belongs
  <2> QED BY <1>2, <2>2, <2>3
<1>6. PICK f : /\ f[0] = tm /\ TimerCancelall(c) = f[MAX_TIMER]
               /\ \A i \in 1 .. MAX_TIMER : f[i] = CancelMine(f[i - 1], i - 1, c)
  BY CancelallUnfolded
<1>s. PICK S : S = {i \in 0 .. MAX_TIMER : f[i] = IF a # NIL /\ a < i THEN Gone(a) ELSE tm} OBVIOUS
<1>7. 0 \in S
  <2>1. 0 \in 0 .. MAX_TIMER /\ ~(a # NIL /\ a < 0) BY <1>1, Sizes
  <2> QED BY <1>6, <1>s, <2>1
<1>8. ASSUME NEW k \in 0 .. (MAX_TIMER - 1), k \in S PROVE k + 1 \in S
  <2>1. k \in Timers /\ k + 1 \in 1 .. MAX_TIMER /\ k + 1 \in 0 .. MAX_TIMER /\ (k + 1) - 1 = k BY Sizes
  <2>2. f[k + 1] = CancelMine(f[k], k, c)
    <3>1. f[k + 1] = CancelMine(f[(k + 1) - 1], (k + 1) - 1, c) BY <1>6, <2>1
    <3> QED BY <2>1, <3>1
  <2>3. f[k] = IF a # NIL /\ a < k THEN Gone(a) ELSE tm BY <1>8, <1>s
  <2>4. CASE a # NIL /\ a < k
    <3>1. f[k] = Gone(a) /\ a < k + 1 BY <1>1, <2>1, <2>3, <2>4, Sizes
    <3>2. f[k + 1] = Gone(a) BY <1>5, <2>1, <2>2, <2>4, <3>1 DEF CancelMine
    <3> QED BY <1>s, <2>1, <2>4, <3>1, <3>2
  <2>5. CASE a # NIL /\ a = k
    <3>1. f[k] = tm /\ a < k + 1 BY <2>1, <2>3, <2>5, Sizes
    <3>2. f[k + 1] = Gone(a) BY <1>3, <2>2, <2>5, <3>1 DEF CancelMine, Gone
    <3> QED BY <1>s, <2>1, <2>5, <3>1, <3>2
  <2>6. CASE ~(a # NIL /\ a < k + 1)
    <3>1. k # a /\ ~(a # NIL /\ a < k) BY <1>1, <2>1, <2>6, Sizes
    <3>2. f[k] = tm /\ ~Belongs(tm, k, c) BY <1>2, <2>1, <2>3, <3>1
    <3>3. f[k + 1] = tm BY <2>2, <3>2 DEF CancelMine
    <3> QED BY <1>s, <2>1, <2>6, <3>3
  <2>7. (a # NIL /\ a < k) \/ (a # NIL /\ a = k) \/ ~(a # NIL /\ a < k + 1) BY <1>1, <2>1, Sizes
  <2> QED BY <2>4, <2>5, <2>6, <2>7
<1>9. MAX_TIMER \in S
  <2>1. \A k \in 0 .. MAX_TIMER : k \in S BY <1>7, <1>8, Counting, Sizes
  <2> QED BY <2>1, Sizes
<1>10. f[MAX_TIMER] = IF a # NIL THEN Gone(a) ELSE tm
  <2>1. a # NIL => a < MAX_TIMER BY <1>1, Sizes
  <2>2. f[MAX_TIMER] = IF a # NIL /\ a < MAX_TIMER THEN Gone(a) ELSE tm BY <1>9, <1>s
  <2> QED BY <2>1, <2>2
<1> QED BY <1>6, <1>10

LEMMA AppEndInv ==
    ASSUME IInv, NEW c \in Consoles, AppEnd(c)
    PROVE  IInv'
<1>1. Types /\ Held /\ Alive /\ Listed BY DEF IInv
<1> PICK t : t = appTimer[c] OBVIOUS
<1>2. /\ flags2' = flags2 /\ owner' = owner /\ cursor' = cursor /\ setting' = setting /\ fifo' = fifo
      /\ mode[c] = "app" /\ setting[c] = NIL /\ tm' = TimerCancelall(c)
      /\ mode' = [mode EXCEPT ![c] = IF cursor[c] = NIL THEN "leaving" ELSE "shell"]
      /\ appTimer' = [appTimer EXCEPT ![c] = NIL]
  BY DEF AppEnd, Runs
<1>3. /\ flags2 \in [Timers -> 0 .. 1] /\ owner \in [Timers -> Consoles \cup {Nobody}]
      /\ mode \in [Consoles -> {"closed", "shell", "app", "leaving"}]
      /\ cursor \in [Consoles -> Pointers] /\ appTimer \in [Consoles -> Pointers]
      /\ setting \in [Consoles -> Pointers] /\ fifo \in [Consoles -> Fifos]
      /\ \A d \in Consoles : Len(fifo[d].q) <= FIFO_SIZE
  BY <1>1, TypeFacts
<1>4. /\ appTimer' \in [Consoles -> Pointers]
      /\ appTimer'[c] = NIL /\ \A d \in Consoles : d # c => appTimer'[d] = appTimer[d]
  BY <1>2, <1>3, TypeNames
<1>5. /\ mode' \in [Consoles -> {"closed", "shell", "app", "leaving"}]
      /\ \A d \in Consoles : d # c => mode'[d] = mode[d]
      /\ cursor[c] # NIL => mode'[c] = "shell"
  BY <1>2, <1>3
<1>6. Types' BY <1>2, <1>3, <1>4, <1>5, TypesOf
<1>7. tm' = IF t = NIL THEN tm ELSE Gone(t) BY <1>1, <1>2, CancelallIs
<1>8. ASSUME t # NIL
      PROVE  /\ t \in Timers /\ t \notin {SENTINEL, TASK_TIMER}
             /\ owner[t] = c /\ flags2[t] = 1
             /\ \A d \in Consoles : /\ cursor[d] # t /\ setting[d] # t
                                    /\ d # c => appTimer[d] # t
  <2>1. /\ t \in Timers /\ t \notin {SENTINEL, TASK_TIMER} /\ owner[t] = c /\ flags2[t] = 1
    BY <1>1, <1>3, <1>8, TypeNames DEF Held
  <2>2. \A d \in Consoles : cursor[d] # t /\ (d # c => appTimer[d] # t) BY <1>1, <1>8, <2>1 DEF Held
  <2>3. ASSUME NEW d \in Consoles, setting[d] = t PROVE FALSE
    <3>1. t = cursor[d] \/ t = appTimer[d] BY <1>1, <1>8, <2>3 DEF Held
    <3>2. d = c BY <2>2, <3>1
    <3> QED BY <1>2, <1>8, <2>3, <3>2
  <2> QED BY <2>1, <2>2, <2>3
<1>9. /\ \A u \in Timers : tm'.flags[u] = IF t # NIL /\ u = t THEN FREE ELSE tm.flags[u]
      /\ Listed'
  <2>1. CASE t = NIL
    <3>1. tm' = tm BY <1>7, <2>1
    <3>2. Listed' BY <1>1, <1>2, <3>1, Steady
    <3> QED BY <2>1, <3>1, <3>2
  <2>2. CASE t # NIL
    <3>1. tm' = Gone(t) BY <1>7, <2>2
    <3>2. /\ \A u \in Timers : Gone(t).flags[u] = IF u = t THEN FREE ELSE tm.flags[u]
          /\ \E n, q : List(Gone(t), Running \ {t}, n, q)
      <4>1. t \in Timers \ {SENTINEL} /\ \A d \in Consoles : setting[d] # t BY <1>8, <2>2
      <4> QED BY <1>1, <4>1, GoneIs
    <3>3. \A u \in Timers : tm'.flags[u] = IF u = t THEN FREE ELSE tm.flags[u] BY <3>1, <3>2
    <3>4. Running' = Running \ {t}
      <4>1. ASSUME NEW u \in Timers PROVE u \in Running' <=> u \in Running /\ u # t
        <5>1. u \in Running <=> tm.flags[u] = USING /\ \A d \in Consoles : setting[d] # u BY <1>1, ListedTM
        <5>2. u \in Running' <=> tm'.flags[u] = USING /\ \A d \in Consoles : setting[d] # u
          <6>1. u \in Running' <=> tm'.flags[u] = USING /\ \A d \in Consoles : setting'[d] # u
            BY Zenon DEF Running, Setting
          <6> QED BY <1>2, <6>1
        <5>3. FREE # USING BY TypeNames
        <5> QED BY <3>3, <5>1, <5>2, <5>3
      <4>2. Running \in SUBSET Timers /\ Running' \in SUBSET Timers BY DEF Running
      <4> QED BY <4>1, <4>2
    <3>5. \E n, q : List(tm', Running', n, q) BY <3>1, <3>2, <3>4
    <3> QED BY <2>2, <3>3, <3>5 DEF Listed
  <2> QED BY <2>1, <2>2
<1>10. \A u \in Timers : (t = NIL \/ u # t) => tm'.flags[u] = tm.flags[u] BY <1>9
<1>11. \A u \in Timers : tm'.flags[u] # FREE => tm'.flags[u] = tm.flags[u] /\ (t = NIL \/ u # t) BY <1>9
<1>12. \A d \in Consoles : /\ cursor[d] # NIL => cursor[d] \in Timers
                           /\ appTimer[d] # NIL => appTimer[d] \in Timers
                           /\ setting[d] # NIL => setting[d] \in Timers
  BY <1>3, TypeNames
<1>13. tm'.flags[SENTINEL] = USING /\ tm'.flags[TASK_TIMER] = USING BY <1>1, <1>8, <1>10, Sizes DEF Held
<1>14. ASSUME NEW d \in Consoles, cursor'[d] # NIL
       PROVE  /\ cursor'[d] \notin {SENTINEL, TASK_TIMER} /\ tm'.flags[cursor'[d]] # FREE
              /\ owner'[cursor'[d]] = d /\ flags2'[cursor'[d]] = 0
              /\ mode'[d] \in {"shell", "app"}
  BY <1>1, <1>2, <1>5, <1>8, <1>10, <1>12, <1>14 DEF Held
<1>15. ASSUME NEW d \in Consoles, appTimer'[d] # NIL
       PROVE  /\ appTimer'[d] \notin {SENTINEL, TASK_TIMER} /\ tm'.flags[appTimer'[d]] # FREE
              /\ owner'[appTimer'[d]] = d /\ flags2'[appTimer'[d]] = 1
              /\ mode'[d] = "app"
  <2>1. d # c BY <1>4, <1>15
  <2> QED BY <1>1, <1>2, <1>4, <1>5, <1>8, <1>10, <1>12, <1>15, <2>1 DEF Held
<1>16. ASSUME NEW d \in Consoles, setting'[d] # NIL
       PROVE  setting'[d] \in {cursor'[d], appTimer'[d]} /\ tm'.flags[setting'[d]] = USING
  <2>1. d # c BY <1>2, <1>16
  <2>2. setting[d] \in {cursor[d], appTimer[d]} /\ tm.flags[setting[d]] = USING
    BY <1>1, <1>2, <1>16 DEF Held
  <2> QED BY <1>2, <1>4, <1>8, <1>10, <1>12, <1>16, <2>1, <2>2
<1>17. ASSUME NEW u \in Timers \ {SENTINEL, TASK_TIMER}, tm'.flags[u] = USING
       PROVE  owner'[u] \in Consoles /\ u \in {cursor'[owner'[u]], appTimer'[owner'[u]]}
  <2>1. tm.flags[u] = USING /\ (t = NIL \/ u # t) /\ u # NIL BY <1>11, <1>17, TypeNames
  <2>2. owner[u] \in Consoles /\ u \in {cursor[owner[u]], appTimer[owner[u]]} BY <1>1, <2>1 DEF Held
  <2> QED BY <1>2, <1>4, <2>1, <2>2
<1>18. ASSUME NEW u \in Timers, tm'.flags[u] # FREE, flags2'[u] # 0
       PROVE  owner'[u] \in Consoles /\ u = appTimer'[owner'[u]]
  <2>1. tm.flags[u] # FREE /\ (t = NIL \/ u # t) /\ u # NIL BY <1>11, <1>18, TypeNames
  <2>2. owner[u] \in Consoles /\ u = appTimer[owner[u]] BY <1>1, <1>2, <1>18, <2>1 DEF Held
  <2> QED BY <1>2, <1>4, <2>1, <2>2
<1>19. Held' BY <1>13, <1>14, <1>15, <1>16, <1>17, <1>18, Zenon DEF Held
<1>20. Alive' BY <1>1, <1>2, <1>8, <1>10, <1>12 DEF Alive
<1> QED BY <1>6, <1>9, <1>19, <1>20 DEF IInv

-----------------------------------------------------------------------------
(* The interrupt handler *)

LEMMA PostedUnfolded ==
    ASSUME NEW due, NEW len \in Nat, len = Len(due)
    PROVE  \E f : /\ f[0] = fifo /\ Posted(due) = f[len]
                  /\ \A k \in 1 .. len : f[k] = Post(f[k - 1], due[k])
<1> DEFINE Upto(n, f) == f = [k \in 0 .. n |-> IF k = 0 THEN fifo ELSE Post(f[k - 1], due[k])]
<1> HIDE DEF Upto
<1>s. PICK S : S = {n \in 0 .. len : \E f : Upto(n, f)} OBVIOUS
<1>1. 0 \in S
  <2>1. Upto(0, [k \in 0 .. 0 |-> fifo]) BY DEF Upto
  <2>2. 0 \in 0 .. len OBVIOUS
  <2> QED BY <1>s, <2>1, <2>2, Zenon
<1>2. ASSUME NEW n \in 0 .. (len - 1), n \in S PROVE n + 1 \in S
  <2>1. PICK f : f = [k \in 0 .. n |-> IF k = 0 THEN fifo ELSE Post(f[k - 1], due[k])]
    BY <1>2, <1>s, Zenon DEF Upto
  <2> DEFINE g == [k \in 0 .. (n + 1) |-> IF k = n + 1 THEN Post(f[n], due[n + 1]) ELSE f[k]]
  <2>2. ASSUME NEW k \in 0 .. (n + 1) PROVE g[k] = IF k = 0 THEN fifo ELSE Post(g[k - 1], due[k])
    <3>1. CASE k = 0 BY <2>1, <3>1
    <3>2. CASE k = n + 1
      <4>1. g[k] = Post(f[n], due[n + 1]) /\ g[n] = f[n] /\ k - 1 = n BY <3>2
      <4> QED BY <4>1, <3>2
    <3>3. CASE k # 0 /\ k # n + 1
      <4>1. k \in 0 .. n /\ k - 1 \in 0 .. n /\ k # n + 1 /\ k - 1 # n + 1 BY <3>3
      <4>2. f[k] = Post(f[k - 1], due[k]) BY <2>1, <3>3, <4>1
      <4>3. g[k] = f[k] /\ g[k - 1] = f[k - 1] BY <4>1
      <4> QED BY <3>3, <4>2, <4>3
    <3> QED BY <3>1, <3>2, <3>3
  <2>3. g = [k \in 0 .. (n + 1) |-> g[k]] OBVIOUS
  <2> HIDE DEF g
  <2>4. Upto(n + 1, g) BY <2>2, <2>3 DEF Upto
  <2>5. n + 1 \in 0 .. len OBVIOUS
  <2> QED BY <1>s, <2>4, <2>5, Zenon
<1>3. \A k \in 0 .. len : k \in S BY <1>1, <1>2, Counting
<1>4. PICK f : Upto(len, f)
  <2>1. len \in 0 .. len OBVIOUS
  <2> QED BY <1>3, <1>s, <2>1, Zenon
<1> PICK g : g = CHOOSE h : Upto(len, h) OBVIOUS
<1>5. Posted(due) = g[len]
  <2>1. Posted(due) = (CHOOSE h : Upto(Len(due), h))[Len(due)] BY DEF Posted, Upto
  <2> QED BY <2>1
<1>6. g = [k \in 0 .. len |-> IF k = 0 THEN fifo ELSE Post(g[k - 1], due[k])]
  BY <1>4, Zenon DEF Upto
<1>7. g[0] = fifo /\ \A k \in 1 .. len : g[k] = Post(g[k - 1], due[k])
  <2>1. 0 \in 0 .. len /\ \A k \in 1 .. len : k \in 0 .. len /\ k # 0 OBVIOUS
  <2> QED BY <1>6, <2>1
<1> QED BY <1>5, <1>7

\* The FIFOs f when the timers of F have posted their events.
PostedSound(f, F) ==
    /\ f \in [Consoles -> Fifos]
    /\ \A c \in Consoles : Len(f[c].q) <= FIFO_SIZE
    /\ \A c \in Consoles : cursor[c] # NIL =>
          /\ fifo[c].overrun => f[c].overrun
          /\ cursor[c] \notin F => Events(f[c]) = Events(fifo[c])
          /\ cursor[c] \in F => /\ \A j, k \in Events(f[c]) : j = k
                                /\ f[c].overrun \/ Events(f[c]) # {}

\* One timer that is due.
LEMMA PostIs ==
    ASSUME Types, Held, Alive, NEW f, NEW F, PostedSound(f, F),
           NEW t \in Timers \ F, t # SENTINEL, tm.flags[t] = USING
    PROVE  PostedSound(Post(f, t), F \cup {t})
<1> PICK g : g = Post(f, t) OBVIOUS
<1>1. /\ f \in [Consoles -> Fifos] /\ \A c \in Consoles : f[c] \in Fifos /\ Len(f[c].q) <= FIFO_SIZE
      /\ \A c \in Consoles : cursor[c] # NIL =>
            /\ fifo[c].overrun => f[c].overrun
            /\ cursor[c] \notin F => Events(f[c]) = Events(fifo[c])
            /\ cursor[c] \in F => /\ \A j, k \in Events(f[c]) : j = k
                                  /\ f[c].overrun \/ Events(f[c]) # {}
  BY DEF PostedSound
<1>2. CASE t = TASK_TIMER
  <2>1. g = f BY <1>2 DEF Post
  <2>2. \A c \in Consoles : cursor[c] # NIL => (cursor[c] \in F \cup {t} <=> cursor[c] \in F)
    BY <1>2 DEF Held
  <2>3. PostedSound(g, F \cup {t}) BY <1>1, <2>1, <2>2 DEF PostedSound
  <2> QED BY <2>3
<1>3. CASE t # TASK_TIMER
  <2> PICK o : o = owner[t] OBVIOUS
  <2> PICK e : e = IF flags2[t] = 0 THEN CURSOR ELSE OTHER_EVENT OBVIOUS
  <2>1. o \in Consoles /\ (t = cursor[o] \/ t = appTimer[o]) /\ t # NIL
    <3>1. t # NIL BY TypeNames
    <3> QED BY <1>3, <3>1 DEF Held
  <2>2. g = [f EXCEPT ![o] = Filled(f[o], e)]
    <3>1. Post(f, t) = FifoPut(f, owner[t], IF flags2[t] = 0 THEN CURSOR ELSE OTHER_EVENT)
      BY <1>3, Zenon DEF Post
    <3>2. g = FifoPut(f, o, e) BY <3>1, Zenon
    <3>3. FifoPut(f, o, e) = [f EXCEPT ![o] = Filled(f[o], e)]
      <4>1. \A x : FifoPut(f, o, x) = [f EXCEPT ![o] = Filled(f[o], x)] BY <2>1, FifoPutIs
      <4> QED BY <4>1, Zenon
    <3> QED BY <3>2, <3>3, Zenon
  <2>3. e \in {CURSOR, OTHER_EVENT} OBVIOUS
  <2> PICK fo : fo = f[o] OBVIOUS
  <2> PICK go : go = Filled(fo, e) OBVIOUS
  <2>4. /\ go \in Fifos /\ Len(go.q) <= FIFO_SIZE
        /\ fo.overrun => go.overrun
        /\ e = OTHER_EVENT => Events(go) = Events(fo)
        /\ e = CURSOR /\ Events(fo) = {} =>
              /\ \A j, k \in Events(go) : j = k
              /\ go.overrun \/ Events(go) # {}
    <3>1. fo \in Fifos /\ Len(fo.q) <= FIFO_SIZE BY <1>1, <2>1
    <3> QED BY <2>3, <3>1, PutIs
  <2>5. g \in [Consoles -> Fifos] /\ g[o] = go /\ \A c \in Consoles : c # o => g[c] = f[c]
    BY <1>1, <2>1, <2>2, <2>4
  <2>6. \A c \in Consoles : Len(g[c].q) <= FIFO_SIZE BY <1>1, <2>4, <2>5
  <2>7. ASSUME NEW c \in Consoles, cursor[c] # NIL
        PROVE  /\ fifo[c].overrun => g[c].overrun
               /\ cursor[c] \notin F \cup {t} => Events(g[c]) = Events(fifo[c])
               /\ cursor[c] \in F \cup {t} => /\ \A j, k \in Events(g[c]) : j = k
                                              /\ g[c].overrun \/ Events(g[c]) # {}
    <3>1. CASE c # o
      <4>1. owner[cursor[c]] = c BY <2>7 DEF Held
      <4>2. cursor[c] # t BY <3>1, <4>1
      <4> QED BY <1>1, <2>5, <2>7, <3>1, <4>2
    <3>2. CASE c = o /\ cursor[c] = t
      <4>1. flags2[t] = 0 /\ Events(fifo[c]) = {} BY <2>7, <3>2 DEF Held, Alive
      <4>2. e = CURSOR /\ Events(fo) = {} BY <1>1, <2>7, <3>2, <4>1
      <4> QED BY <1>1, <2>4, <2>5, <2>7, <3>2, <4>2
    <3>3. CASE c = o /\ cursor[c] # t
      <4>1. t = appTimer[c] BY <2>1, <3>3
      <4>2. flags2[t] = 1 BY <2>1, <4>1 DEF Held
      <4>3. e = OTHER_EVENT BY <4>2
      <4>4. Events(go) = Events(f[c]) /\ g[c] = go /\ (f[c].overrun => g[c].overrun)
        BY <2>4, <2>5, <3>3, <4>3
      <4> QED BY <1>1, <2>7, <3>3, <4>4
    <3> QED BY <3>1, <3>2, <3>3
  <2>8. PostedSound(g, F \cup {t}) BY <2>5, <2>6, <2>7 DEF PostedSound
  <2> QED BY <2>8
<1> QED BY <1>2, <1>3

\* All that are due, in the order of the list.
LEMMA PostedIs ==
    ASSUME Types, Held, Alive, Listed, NEW d \in Nat, NEW q, NEW due,
           d = Len(due), \A k \in 1 .. d : due[k] = q[k - 1],
           \A j, k \in 0 .. (d - 1) : q[j] = q[k] => j = k,
           \A k \in 0 .. (d - 1) : q[k] \in Running /\ q[k] # SENTINEL
    PROVE  PostedSound(Posted(due), First(q, d))
<1>2. PICK f : /\ f[0] = fifo /\ Posted(due) = f[d]
               /\ \A k \in 1 .. d : f[k] = Post(f[k - 1], due[k])
  BY PostedUnfolded, Zenon
<1>s. PICK S : S = {k \in 0 .. d : PostedSound(f[k], First(q, k))} OBVIOUS
<1>3. 0 \in S
  <2>1. First(q, 0) = {} /\ 0 \in 0 .. d BY DEF First
  <2>2. fifo \in [Consoles -> Fifos] /\ \A c \in Consoles : Len(fifo[c].q) <= FIFO_SIZE BY TypeFacts
  <2>3. PostedSound(fifo, {}) BY <2>2 DEF PostedSound
  <2> QED BY <1>2, <1>s, <2>1, <2>3
<1>4. ASSUME NEW k \in 0 .. (d - 1), k \in S PROVE k + 1 \in S
  <2>1. k + 1 \in 1 .. d /\ k + 1 \in 0 .. d /\ (k + 1) - 1 = k OBVIOUS
  <2>2. due[k + 1] = q[k] BY <2>1
  <2>3. f[k + 1] = Post(f[k], q[k])
    <3>1. f[k + 1] = Post(f[(k + 1) - 1], due[k + 1]) BY <1>2, <2>1
    <3> QED BY <2>1, <2>2, <3>1
  <2>4. q[k] \in Timers /\ q[k] # SENTINEL /\ tm.flags[q[k]] = USING
    <3>1. q[k] \in Running /\ q[k] # SENTINEL OBVIOUS
    <3> QED BY <3>1, ListedTM
  <2>5. q[k] \notin First(q, k)
    <3>1. \A j \in 0 .. (k - 1) : j \in 0 .. (d - 1) /\ j # k OBVIOUS
    <3> QED BY <3>1 DEF First
  <2>6. First(q, k + 1) = First(q, k) \cup {q[k]}
    <3>1. 0 .. ((k + 1) - 1) = (0 .. (k - 1)) \cup {k} OBVIOUS
    <3> QED BY <3>1 DEF First
  <2>7. PostedSound(f[k], First(q, k)) BY <1>4, <1>s
  <2>8. PostedSound(f[k + 1], First(q, k + 1)) BY <2>3, <2>4, <2>5, <2>6, <2>7, PostIs
  <2> QED BY <1>s, <2>1, <2>8
<1>5. d \in S
  <2>1. \A k \in 0 .. d : k \in S BY <1>3, <1>4, Counting
  <2> QED BY <2>1
<1> QED BY <1>2, <1>5, <1>s

\* What a tick does to the list: the timers of F, which are due, leave it; the
\* task timer comes back.
TickedList(F) ==
    /\ F \in SUBSET (Running \ {SENTINEL})
    /\ Listed'
    /\ tm'.flags[TASK_TIMER] = USING
    /\ \A u \in Timers : u # TASK_TIMER => tm'.flags[u] = IF u \in F THEN ALLOC ELSE tm.flags[u]
    /\ PostedSound(fifo', F)

\* And to the times: those of the other timers go on.
TickedLefts(F) ==
    /\ \A u \in Timers : u # TASK_TIMER => (u \in Running' <=> u \in Running \ F)
    /\ TASK_TIMER \in Running /\ TASK_TIMER \in Running'
    /\ \A u \in F : tm.left[u] <= 1
    /\ \A u \in Running \ F : u # SENTINEL => tm.left[u] > 1 /\ tm'.left[u] = tm.left[u] - 1
    /\ TASK_TIMER \in F => tm'.left[TASK_TIMER] \in Slices

LEMMA TickList ==
    ASSUME IInv, Tick
    PROVE  \E F : TickedList(F) /\ TickedLefts(F)
<1>1. Types /\ Held /\ Alive /\ Listed BY DEF IInv
<1> PICK counted : counted = Counted(tm) OBVIOUS
<1> PICK s : s = Fired(counted) OBVIOUS
<1> PICK due : due = Expired(counted) OBVIOUS
<1>2. /\ setting' = setting /\ fifo' = Posted(due)
      /\ IF TASK_TIMER \in ToSet(due)
         THEN \E n \in Slices : tm' = Link(Prepared(s, TASK_TIMER, n), TASK_TIMER)
         ELSE tm' = s
  BY DEF Tick
<1>a. PICK n, q : List(tm, Running, n, q) BY <1>1 DEF Listed
<1>3. List(counted, Running, n, q) BY <1>a, ListCounted
<1> PICK d : d = Due(counted) OBVIOUS
<1> PICK F : F = First(q, d) OBVIOUS
<1>4. n \in Nat /\ q \in [0 .. n -> Timers] /\ \A j, k \in 0 .. n : q[j] = q[k] => j = k
  BY <1>a DEF List
<1>5. d \in 0 .. n BY <1>3, DueIs
<1>6. due = [k \in 1 .. d |-> q[k - 1]] /\ ToSet(due) = F BY <1>3, ExpiredIs
<1>7. /\ \E m, q2 : List(s, Running \ F, m, q2)
      /\ \A t \in F : t \in Running /\ t # SENTINEL /\ counted.left[t] = 0
      /\ \A t \in Running \ F : counted.left[t] # 0
  <2> PICK q2 : q2 = [k \in 0 .. (n - Due(counted)) |-> q[k + Due(counted)]] OBVIOUS
  <2>1. List(Fired(counted), Running \ First(q, Due(counted)), n - Due(counted), q2)
    BY <1>3, ListFired
  <2>2. \E m, q3 : List(Fired(counted), Running \ First(q, Due(counted)), m, q3) BY <2>1, Zenon
  <2>3. \A t \in First(q, Due(counted)) : t \in Running /\ t # SENTINEL /\ counted.left[t] = 0
    BY <1>3, ListFired, Zenon
  <2>4. \A t \in Running \ First(q, Due(counted)) : counted.left[t] # 0
    BY <1>3, ListFired, Zenon
  <2> QED BY <2>2, <2>3, <2>4
<1>8. s \in TM /\ \A t \in Timers : s.flags[t] = IF t \in F THEN ALLOC ELSE tm.flags[t]
  <2>1. counted.flags = tm.flags BY <1>1, ListedTM, CountedFields
  <2> QED BY <1>3, <2>1, FiredFields
<1>9. s.left = counted.left BY <1>3, FiredFields
<1>10. ASSUME NEW u \in Timers, u # SENTINEL
       PROVE  /\ counted.left[u] = 0 => tm.left[u] <= 1
              /\ counted.left[u] # 0 => tm.left[u] > 1 /\ counted.left[u] = tm.left[u] - 1
  <2>1. \A t \in Timers : tm.left[t] = FOREVER <=> t = SENTINEL BY <1>a DEF List
  <2>2. tm.left[u] \in Nat BY <1>1, <1>10, <2>1, ListedTM, Counts
  <2>3. counted.left[u] = Later(tm.left[u])
    <3>1. counted.left = [t \in Timers |-> Later(tm.left[t])] BY <1>1, ListedTM, CountedFields, Zenon
    <3> QED BY <3>1, Zenon
  <2>4. counted.left[u] = IF tm.left[u] = 0 THEN 0 ELSE tm.left[u] - 1 BY <2>2, <2>3, LaterIs
  <2> QED BY <2>2, <2>4
<1>11. PostedSound(fifo', F)
  <2>1. \A k \in 0 .. (d - 1) : k \in 0 .. n BY <1>4, <1>5
  <2>2. d \in Nat BY <1>4, <1>5
  <2>3. \A k \in 0 .. (d - 1) : q[k] \in F BY <2>2 DEF First
  <2>4. d = Len(due) /\ \A k \in 1 .. d : due[k] = q[k - 1] BY <1>6, <2>2
  <2>5. \A k \in 0 .. (d - 1) : q[k] \in Running /\ q[k] # SENTINEL BY <1>7, <2>3
  <2>6. \A j, k \in 0 .. (d - 1) : q[j] = q[k] => j = k BY <1>4, <2>1
  <2>7. PostedSound(Posted(due), First(q, d)) BY <1>1, <2>2, <2>4, <2>5, <2>6, PostedIs
  <2> QED BY <1>2, <2>7
<1>12. \A c \in Consoles : setting[c] # TASK_TIMER
  <2>1. TASK_TIMER # NIL BY Sizes
  <2> QED BY <1>1, <2>1 DEF Held
<1>13. tm.flags[TASK_TIMER] = USING /\ TASK_TIMER \in Timers /\ TASK_TIMER # SENTINEL /\ ALLOC # USING
  BY <1>1, Sizes, TypeNames DEF Held
<1>14. ASSUME NEW u \in Timers
       PROVE  /\ u \in Running <=> tm.flags[u] = USING /\ \A c \in Consoles : setting[c] # u
              /\ u \in Running' <=> tm'.flags[u] = USING /\ \A c \in Consoles : setting[c] # u
  <2>1. u \in Running' <=> tm'.flags[u] = USING /\ \A c \in Consoles : setting'[c] # u
    BY Zenon DEF Running, Setting
  <2> QED BY <1>1, <1>2, <2>1, ListedTM
<1>15. Running \in SUBSET Timers /\ Running' \in SUBSET Timers BY DEF Running
<1>16. F \in SUBSET (Running \ {SENTINEL}) BY <1>7
<1>17. \A u \in F : tm.left[u] <= 1 BY <1>7, <1>15, <1>10
<1>18. TASK_TIMER \in Running BY <1>12, <1>13, <1>14
<1>19. CASE TASK_TIMER \notin F
  <2>1. tm' = s BY <1>2, <1>6, <1>19
  <2>2. \A u \in Timers : tm'.flags[u] = IF u \in F THEN ALLOC ELSE tm.flags[u] BY <1>8, <2>1
  <2>3. tm'.flags[TASK_TIMER] = USING BY <1>13, <1>19, <2>2
  <2>4. Running' = Running \ F
    <3>1. \A u \in Timers : u \in Running' <=> u \in Running /\ u \notin F BY <1>13, <1>14, <2>2
    <3> QED BY <1>15, <3>1
  <2>5. Listed'
    <3>1. \E m, q2 : List(tm', Running', m, q2) BY <1>7, <2>1, <2>4
    <3> QED BY <3>1, ListedFrom
  <2>6. \A u \in Timers : u # TASK_TIMER => (u \in Running' <=> u \in Running \ F) BY <2>4
  <2>7. TASK_TIMER \in Running' BY <1>19, <1>18, <2>4
  <2>8. ASSUME NEW u \in Running \ F, u # SENTINEL PROVE tm.left[u] > 1 /\ tm'.left[u] = tm.left[u] - 1
    <3>1. u \in Timers /\ counted.left[u] # 0 BY <1>7, <1>15
    <3> QED BY <1>9, <1>10, <2>1, <2>8, <3>1
  <2>9. TickedLefts(F) BY <1>19, <1>17, <1>18, <2>6, <2>7, <2>8 DEF TickedLefts
  <2>10. TickedList(F) BY <1>11, <1>16, <2>2, <2>3, <2>5 DEF TickedList
  <2> QED BY <2>9, <2>10
<1>20. CASE TASK_TIMER \in F
  <2>a. PICK x \in Slices : tm' = Link(Prepared(s, TASK_TIMER, x), TASK_TIMER) BY <1>2, <1>6, <1>20
  <2>1. x \in Times BY <2>a, CursorTimes
  <2> PICK s2 : s2 = Prepared(s, TASK_TIMER, x) OBVIOUS
  <2>2. /\ s2 \in TM
        /\ \A u \in Timers : s2.flags[u] = IF u = TASK_TIMER THEN USING ELSE s.flags[u]
        /\ \A u \in Timers : s2.left[u] = IF u = TASK_TIMER THEN x ELSE s.left[u]
    BY <1>8, <1>13, <2>1, PreparedFields
  <2>b. PICK m, q2 : List(s, Running \ F, m, q2) BY <1>7
  <2>3. TASK_TIMER \in Timers \ (Running \ F) BY <1>13, <1>20
  <2>4. List(s2, Running \ F, m, q2) BY <2>1, <2>3, <2>b, ListPrepared
  <2>5. \E q3 : List(Link(s2, TASK_TIMER), (Running \ F) \cup {TASK_TIMER}, m + 1, q3)
    BY <2>3, <2>4, Linked
  <2>6. Link(s2, TASK_TIMER).flags = s2.flags /\ Link(s2, TASK_TIMER).left = s2.left
    <3>1. LinkedAt(Link(s2, TASK_TIMER), s2, m, q2, TASK_TIMER, Place(s2, s2.left[TASK_TIMER]))
      BY <2>3, <2>4, LinkResult
    <3> QED BY <3>1, Zenon DEF LinkedAt
  <2>7. tm' = Link(s2, TASK_TIMER) BY <2>a
  <2>8. \A u \in Timers : u # TASK_TIMER => tm'.flags[u] = IF u \in F THEN ALLOC ELSE tm.flags[u]
    BY <1>8, <2>2, <2>6, <2>7
  <2>9. tm'.flags[TASK_TIMER] = USING BY <1>13, <2>2, <2>6, <2>7
  <2>10. Running' = (Running \ F) \cup {TASK_TIMER}
    <3>1. \A u \in Timers : u # TASK_TIMER => (u \in Running' <=> u \in Running /\ u \notin F)
      BY <1>13, <1>14, <2>8
    <3>2. TASK_TIMER \in Running' BY <1>12, <1>13, <1>14, <2>9
    <3> QED BY <1>13, <1>15, <3>1, <3>2
  <2>11. Listed'
    <3>1. \E k, q3 : List(tm', Running', k, q3) BY <2>5, <2>7, <2>10
    <3> QED BY <3>1, ListedFrom
  <2>12. \A u \in Timers : u # TASK_TIMER => (u \in Running' <=> u \in Running \ F) BY <2>10
  <2>13. TASK_TIMER \in Running' BY <2>10
  <2>14. ASSUME NEW u \in Running \ F, u # SENTINEL PROVE tm.left[u] > 1 /\ tm'.left[u] = tm.left[u] - 1
    <3>1. u \in Timers /\ counted.left[u] # 0 /\ u # TASK_TIMER BY <1>7, <1>15, <1>20
    <3>2. tm'.left[u] = s.left[u] BY <2>2, <2>6, <2>7, <3>1
    <3> QED BY <1>9, <1>10, <2>14, <3>1, <3>2
  <2>15. tm'.left[TASK_TIMER] \in Slices BY <1>13, <2>2, <2>6, <2>7, <2>a
  <2>16. TickedLefts(F) BY <1>17, <1>18, <2>12, <2>13, <2>14, <2>15 DEF TickedLefts
  <2>17. TickedList(F) BY <1>11, <1>16, <2>8, <2>9, <2>11 DEF TickedList
  <2> QED BY <2>16, <2>17
<1> QED BY <1>19, <1>20

LEMMA TickInv ==
    ASSUME IInv, Tick
    PROVE  IInv'
<1>1. Types /\ Held /\ Alive /\ Listed BY DEF IInv
<1>2. /\ flags2' = flags2 /\ owner' = owner /\ mode' = mode /\ cursor' = cursor /\ appTimer' = appTimer
      /\ setting' = setting
  BY DEF Tick
<1>3. /\ flags2 \in [Timers -> 0 .. 1] /\ owner \in [Timers -> Consoles \cup {Nobody}]
      /\ mode \in [Consoles -> {"closed", "shell", "app", "leaving"}]
      /\ cursor \in [Consoles -> Pointers] /\ appTimer \in [Consoles -> Pointers]
      /\ setting \in [Consoles -> Pointers]
  BY <1>1, TypeFacts
<1>a. PICK F : TickedList(F) BY TickList
<1>4. /\ Listed' /\ F \in SUBSET (Running \ {SENTINEL})
      /\ tm'.flags[TASK_TIMER] = USING
      /\ \A u \in Timers : u # TASK_TIMER => tm'.flags[u] = IF u \in F THEN ALLOC ELSE tm.flags[u]
      /\ PostedSound(fifo', F)
  BY <1>a, Zenon DEF TickedList
<1>5. /\ fifo' \in [Consoles -> Fifos] /\ \A c \in Consoles : Len(fifo'[c].q) <= FIFO_SIZE
      /\ \A c \in Consoles : cursor[c] # NIL =>
            /\ fifo[c].overrun => fifo'[c].overrun
            /\ cursor[c] \notin F => Events(fifo'[c]) = Events(fifo[c])
            /\ cursor[c] \in F => /\ \A j, k \in Events(fifo'[c]) : j = k
                                  /\ fifo'[c].overrun \/ Events(fifo'[c]) # {}
  BY <1>4, Zenon DEF PostedSound
<1>6. Types' BY <1>2, <1>3, <1>5, TypesOf
<1>7. \A u \in F : u \in Timers /\ u # SENTINEL /\ tm.flags[u] = USING /\ \A c \in Consoles : setting[c] # u
  <2>1. \A u \in F : u \in Running /\ u \in Timers /\ u # SENTINEL
    <3>1. Running \in SUBSET Timers BY DEF Running
    <3> QED BY <1>4, <3>1
  <2> QED BY <1>1, <2>1, ListedTM
<1>8. \A u \in Timers : u # TASK_TIMER =>
         /\ u \in F => tm'.flags[u] # USING /\ tm'.flags[u] # FREE
         /\ u \notin F => tm'.flags[u] = tm.flags[u]
  BY <1>4, TypeNames
<1>9. \A u \in Timers : /\ tm.flags[u] # FREE <=> tm'.flags[u] # FREE
                        /\ tm'.flags[u] = USING => tm.flags[u] = USING
  <2>1. tm.flags[TASK_TIMER] = USING BY <1>1 DEF Held
  <2> QED BY <1>4, <1>7, <1>8, <2>1, TypeNames
<1>10. \A c \in Consoles : /\ cursor[c] # NIL => cursor[c] \in Timers /\ cursor[c] # TASK_TIMER
                           /\ appTimer[c] # NIL => appTimer[c] \in Timers
                           /\ setting[c] # NIL => setting[c] \in Timers
  <2>1. \A c \in Consoles : cursor[c] # NIL => cursor[c] # TASK_TIMER BY <1>1 DEF Held
  <2> QED BY <1>3, <2>1, TypeNames
<1>11. tm'.flags[SENTINEL] = USING
  <2>1. SENTINEL \in Timers /\ SENTINEL # TASK_TIMER /\ tm.flags[SENTINEL] = USING BY <1>1, Sizes DEF Held
  <2> QED BY <1>7, <1>8, <2>1
<1>12. ASSUME NEW c \in Consoles, setting'[c] # NIL
       PROVE  setting'[c] \in {cursor'[c], appTimer'[c]} /\ tm'.flags[setting'[c]] = USING
  <2>1. setting[c] \in {cursor[c], appTimer[c]} /\ tm.flags[setting[c]] = USING BY <1>1, <1>2, <1>12 DEF Held
  <2>2. setting[c] \in Timers /\ setting[c] \notin F BY <1>2, <1>7, <1>10, <1>12
  <2>3. tm'.flags[setting[c]] = USING BY <1>4, <1>8, <2>1, <2>2
  <2> QED BY <1>2, <2>1, <2>3
<1>13. Held' BY <1>1, <1>2, <1>4, <1>9, <1>10, <1>11, <1>12 DEF Held
<1>14. ASSUME NEW c \in Consoles, cursor'[c] # NIL
       PROVE  /\ tm'.flags[cursor'[c]] = USING => Events(fifo'[c]) = {}
              /\ \A j, k \in Events(fifo'[c]) : j = k
              /\ fifo'[c].overrun \/ tm'.flags[cursor'[c]] = USING \/ Events(fifo'[c]) # {}
  <2>1. cursor'[c] = cursor[c] /\ cursor[c] # NIL /\ cursor[c] \in Timers /\ cursor[c] # TASK_TIMER
    BY <1>2, <1>10, <1>14
  <2>2. CASE cursor[c] \in F BY <1>5, <1>8, <2>1, <2>2
  <2>3. CASE cursor[c] \notin F
    <3>1. Events(fifo'[c]) = Events(fifo[c]) /\ (fifo[c].overrun => fifo'[c].overrun)
          /\ tm'.flags[cursor[c]] = tm.flags[cursor[c]]
      BY <1>5, <1>8, <2>1, <2>3
    <3> QED BY <1>1, <2>1, <3>1 DEF Alive
  <2> QED BY <2>2, <2>3
<1>15. Alive' BY <1>14, Zenon DEF Alive
<1> QED BY <1>4, <1>6, <1>13, <1>15 DEF IInv

-----------------------------------------------------------------------------
(* The invariant *)

LEMMA InitInv ==
    ASSUME Init
    PROVE  IInv
<1> PICK s : s = [t0 |-> SENTINEL, next |-> FOREVER,
                  link |-> [t \in Timers |-> NIL],
                  left |-> [t \in Timers |-> IF t = SENTINEL THEN FOREVER ELSE 0],
                  flags |-> [t \in Timers |-> IF t = SENTINEL THEN USING ELSE FREE]]
  OBVIOUS
<1>a. PICK x \in Slices : tm = Link(Prepared(s, TASK_TIMER, x), TASK_TIMER) BY Zenon DEF Init
<1>1. /\ flags2 = [t \in Timers |-> 0] /\ owner = [t \in Timers |-> Nobody]
      /\ mode = [c \in Consoles |-> "closed"] /\ cursor = [c \in Consoles |-> NIL]
      /\ appTimer = [c \in Consoles |-> NIL] /\ setting = [c \in Consoles |-> NIL]
      /\ fifo = [c \in Consoles |-> Empty]
  BY DEF Init
<1>2. Types
  <2>1. fifo \in [Consoles -> Fifos] /\ \A c \in Consoles : Len(fifo[c].q) <= FIFO_SIZE
    BY <1>1, EmptyIs, Sizes
  <2> QED BY <1>1, <2>1, TypeNames DEF Types, Fifos
<1>3. Alive BY <1>1 DEF Alive
<1> PICK left1 : left1 = [t \in Timers |-> IF t = SENTINEL THEN FOREVER ELSE 0] OBVIOUS
<1> PICK flags1 : flags1 = [t \in Timers |-> IF t = SENTINEL THEN USING ELSE FREE] OBVIOUS
<1> PICK link1 : link1 = [t \in Timers |-> NIL] OBVIOUS
<1>4. /\ s.t0 = SENTINEL /\ s.next = FOREVER /\ s.link = link1 /\ s.left = left1 /\ s.flags = flags1
      /\ s = [t0 |-> SENTINEL, next |-> FOREVER, link |-> link1, left |-> left1, flags |-> flags1]
  OBVIOUS
<1>5. s \in TM
  <2>1. link1 \in [Timers -> Pointers] BY TypeNames
  <2>2. FOREVER \in Lefts /\ 0 \in Lefts BY Longest
  <2>3. left1 \in [Timers -> Lefts] BY <2>2
  <2>4. flags1 \in [Timers -> {FREE, ALLOC, USING}] OBVIOUS
  <2> QED BY <1>4, <2>1, <2>2, <2>3, <2>4, Sizes DEF TM
<1> PICK q : q = [k \in 0 .. 0 |-> SENTINEL] OBVIOUS
<1>6. List(s, {SENTINEL}, 0, q)
  <2>1. q \in [0 .. 0 -> Timers] /\ q[0] = SENTINEL BY Sizes
  <2>2. \A j, k \in 0 .. 0 : q[j] = q[k] => j = k OBVIOUS
  <2>3. {SENTINEL} = {q[k] : k \in 0 .. 0} OBVIOUS
  <2>4. s.link[SENTINEL] = NIL BY <1>4, Sizes
  <2>5. 0 .. (0 - 1) = {} OBVIOUS
  <2>6. \A t \in Timers : s.left[t] = FOREVER <=> t = SENTINEL BY <1>4, Longest
  <2>7. s.next = s.left[s.t0] BY <1>4, <2>6, Sizes
  <2>8. \A k \in 0 .. (0 - 1) : s.link[q[k]] = q[k + 1] BY <2>5
  <2>9. \A j, k \in 0 .. (0 - 1) : j <= k => s.left[q[j]] <= s.left[q[k]] BY <2>5
  <2> QED BY <1>4, <1>5, <2>1, <2>2, <2>3, <2>4, <2>6, <2>7, <2>8, <2>9 DEF List
<1>7. TASK_TIMER \in Timers \ {SENTINEL} /\ x \in Times BY <1>a, Sizes, CursorTimes
<1> PICK s2 : s2 = Prepared(s, TASK_TIMER, x) OBVIOUS
<1>8. List(s2, {SENTINEL}, 0, q) BY <1>6, <1>7, ListPrepared
<1>9. \A u \in Timers : s2.flags[u] = IF u = TASK_TIMER THEN USING ELSE s.flags[u]
  BY <1>5, <1>7, PreparedFields
<1>10. \E q2 : List(Link(s2, TASK_TIMER), {SENTINEL} \cup {TASK_TIMER}, 0 + 1, q2) BY <1>7, <1>8, Linked
<1>11. Link(s2, TASK_TIMER).flags = s2.flags
  <2>1. LinkedAt(Link(s2, TASK_TIMER), s2, 0, q, TASK_TIMER, Place(s2, s2.left[TASK_TIMER]))
    BY <1>7, <1>8, LinkResult
  <2> QED BY <2>1, Zenon DEF LinkedAt
<1>12. tm = Link(s2, TASK_TIMER) BY <1>a
<1>13. \A u \in Timers : tm.flags[u] = IF u = SENTINEL \/ u = TASK_TIMER THEN USING ELSE FREE
  BY <1>4, <1>9, <1>11, <1>12
<1>14. Held
  <2>1. tm.flags[SENTINEL] = USING /\ tm.flags[TASK_TIMER] = USING BY <1>13, Sizes
  <2>2. \A u \in Timers \ {SENTINEL, TASK_TIMER} : tm.flags[u] # USING BY <1>13, TypeNames
  <2>3. \A u \in Timers : flags2[u] = 0 BY <1>1
  <2> QED BY <1>1, <2>1, <2>2, <2>3 DEF Held
<1>15. Running = {SENTINEL} \cup {TASK_TIMER}
  <2>1. ASSUME NEW u \in Timers PROVE u \in Running <=> u \in {SENTINEL} \cup {TASK_TIMER}
    <3>1. \A c \in Consoles : setting[c] # u BY <1>1, TypeNames
    <3>2. u \in Running <=> tm.flags[u] = USING BY <3>1, Zenon DEF Running, Setting
    <3> QED BY <1>13, <3>2, TypeNames
  <2>2. Running \in SUBSET Timers BY DEF Running
  <2> QED BY <2>1, <2>2, Sizes
<1>16. Listed
  <2>1. \E n, q2 : List(tm, Running, n, q2) BY <1>10, <1>12, <1>15
  <2> QED BY <2>1 DEF Listed
<1> QED BY <1>2, <1>3, <1>14, <1>16 DEF IInv

LEMMA StepInv ==
    ASSUME IInv, [Next]_vars
    PROVE  IInv'
<1>1. CASE Tick BY <1>1, TickInv
<1>2. ASSUME NEW c \in Consoles, Step(c) \/ Key(c) PROVE IInv'
  <2>1. CASE Open(c) BY <2>1, OpenInv
  <2>2. CASE LinkTimer(c) BY <2>2, LinkTimerInv
  <2>3. CASE TakeCursor(c) BY <2>3, TakeCursorInv
  <2>4. CASE TakeOther(c) BY <2>4, TakeOtherInv
  <2>5. CASE Exit(c) BY <2>5, ExitInv
  <2>6. CASE AppAlloc(c) BY <2>6, AppAllocInv
  <2>7. CASE AppFree(c) BY <2>7, AppFreeInv
  <2>8. CASE CloseWindow(c) BY <2>8, CloseWindowInv
  <2>9. CASE AppEnd(c) BY <2>9, AppEndInv
  <2>10. CASE \E n \in AppTimes : AppSet(c, n) BY <2>10, AppSetInv
  <2>11. CASE Key(c) BY <2>11, KeyInv
  <2> QED BY <1>2, <2>1, <2>2, <2>3, <2>4, <2>5, <2>6, <2>7, <2>8, <2>9, <2>10, <2>11 DEF Step
<1>3. CASE UNCHANGED vars
  <2>1. /\ tm' = tm /\ flags2' = flags2 /\ owner' = owner /\ mode' = mode /\ cursor' = cursor
        /\ appTimer' = appTimer /\ setting' = setting /\ fifo' = fifo
    BY <1>3 DEF vars
  <2>2. Types' BY <2>1 DEF IInv, Types
  <2>3. Held' BY <2>1 DEF IInv, Held
  <2>4. Alive' BY <2>1 DEF IInv, Alive
  <2>5. Listed' BY <2>1, Steady DEF IInv
  <2> QED BY <2>2, <2>3, <2>4, <2>5 DEF IInv
<1> QED BY <1>1, <1>2, <1>3 DEF Next

\* The timers keep their owners, the list is a chain of the running timers and
\* no cursor stops: the invariant from which the properties follow holds in
\* every state of timer.c and its clients.
THEOREM Invariance == Spec => []IInv
<1>1. Init => IInv BY InitInv
<1>2. IInv /\ [Next]_vars => IInv' BY StepInv
<1> QED BY <1>1, <1>2, PTL DEF Spec

-----------------------------------------------------------------------------
(* The properties *)

\* The variables keep their types, and no FIFO holds more than fifo32_put lets
\* in.
THEOREM TypeCorrect == Spec => []TypeOK
<1>1. IInv => TypeOK
  <2> SUFFICES ASSUME IInv PROVE TypeOK OBVIOUS
  <2>1. Types /\ tm \in TM BY ListedTM DEF IInv
  <2> QED BY <2>1 DEF TypeOK, Types, TM
<1> QED BY <1>1, Invariance, PTL

\* However timer_settime, timer_cancel and the interrupt handler interleave,
\* the list behind timerctl.t0 holds the running timers, each once, ordered by
\* timeout and ended by the sentinel, and timerctl.next is the first timeout.
THEOREM ListKept == Spec => []ListSound
<1>1. ASSUME IInv PROVE ListSound
  <2>a. PICK n, q : List(tm, Running, n, q) BY <1>1 DEF IInv, Listed
  <2>1. /\ n \in Nat /\ q \in [0 .. n -> Timers] /\ Running = {q[k] : k \in 0 .. n}
        /\ q[n] = SENTINEL /\ tm.next = tm.left[tm.t0] /\ tm \in TM
        /\ \A j, k \in 0 .. (n - 1) : j <= k => tm.left[q[j]] <= tm.left[q[k]]
        /\ \A t \in Timers : tm.left[t] = FOREVER <=> t = SENTINEL
    BY <2>a DEF List
  <2>2. Cardinality(Running) = n + 1 /\ n <= MAX_TIMER - 1 /\ MAX_TIMER \in Nat BY <2>a, ListCount, Sizes
  <2> PICK at : at = Walk(tm) OBVIOUS
  <2>3. \A k \in 0 .. n : at[k] = q[k]
    <3>1. \A k \in 0 .. MAX_TIMER : at[k] = IF k <= n THEN q[k] ELSE NIL BY <2>a, WalkIs
    <3>2. \A k \in 0 .. n : k \in 0 .. MAX_TIMER /\ k <= n BY <2>1, <2>2
    <3> QED BY <3>1, <3>2
  <2>4. {at[k] : k \in 0 .. n} = Running BY <2>1, <2>3
  <2>5. at[n] = SENTINEL BY <2>1, <2>3
  <2>6. ASSUME NEW k \in 0 .. (n - 1) PROVE NotAfter(tm.left[at[k]], tm, at[k + 1])
    <3>1. at[k] = q[k] /\ at[k + 1] = q[k + 1] BY <2>1, <2>3
    <3>2. CASE k + 1 = n
      <4>1. tm.left[at[k + 1]] = FOREVER BY <2>1, <2>5, <3>2, Sizes
      <4> QED BY <4>1 DEF NotAfter
    <3>3. CASE k + 1 # n
      <4>1. k + 1 \in 0 .. (n - 1) /\ k <= k + 1 BY <2>1, <3>3
      <4> QED BY <2>1, <3>1, <4>1 DEF NotAfter
    <3> QED BY <3>2, <3>3
  <2>7. Cardinality(Running) - 1 = n BY <2>1, <2>2
  <2> QED BY <2>1, <2>4, <2>5, <2>6, <2>7 DEF ListSound
<1>2. IInv => ListSound BY <1>1
<1> QED BY <1>2, Invariance, PTL

\* cmd_exit, the close button and the end of an application cancel their
\* timers: a timer that runs posts to a console that still waits for it.
THEOREM PostsKept == Spec => []PostsWanted
<1>1. ASSUME IInv PROVE PostsWanted
  <2> SUFFICES ASSUME NEW t \in Running \ {SENTINEL, TASK_TIMER}
               PROVE  /\ owner[t] \in Consoles /\ mode[owner[t]] # "closed"
                      /\ t = cursor[owner[t]] \/ (t = appTimer[owner[t]] /\ mode[owner[t]] = "app")
    BY DEF PostsWanted
  <2>1. Held /\ t \in Timers /\ tm.flags[t] = USING BY <1>1, ListedTM DEF IInv
  <2>2. owner[t] \in Consoles /\ t \in {cursor[owner[t]], appTimer[owner[t]]} BY <2>1 DEF Held
  <2>3. t # NIL BY <2>1, TypeNames
  <2>4. CASE t = cursor[owner[t]] BY <2>1, <2>2, <2>3, <2>4 DEF Held
  <2>5. CASE t = appTimer[owner[t]] BY <2>1, <2>2, <2>3, <2>5 DEF Held
  <2> QED BY <2>2, <2>4, <2>5
<1>2. IInv => PostsWanted BY <1>1
<1> QED BY <1>2, Invariance, PTL

\* The cursor timer of an open console runs, or its event is on the way, once:
\* neither the window between flags and io_cli in timer_settime nor the end of
\* an application loses or doubles it.
THEOREM CursorKept == Spec => []CursorAlive
<1>1. ASSUME IInv PROVE CursorAlive
  <2> SUFFICES ASSUME NEW c \in Consoles, mode[c] # "closed", cursor[c] # NIL, ~fifo[c].overrun
               PROVE  IF tm.flags[cursor[c]] = USING THEN Events(fifo[c]) = {}
                      ELSE Cardinality(Events(fifo[c])) = 1
    BY Zenon DEF CursorAlive, Events
  <2>1. /\ tm.flags[cursor[c]] = USING => Events(fifo[c]) = {}
        /\ \A j, k \in Events(fifo[c]) : j = k
        /\ tm.flags[cursor[c]] = USING \/ Events(fifo[c]) # {}
    BY <1>1 DEF IInv, Alive
  <2>2. ASSUME tm.flags[cursor[c]] # USING PROVE Cardinality(Events(fifo[c])) = 1
    <3>1. PICK k : k \in Events(fifo[c]) BY <2>1, <2>2
    <3>2. Events(fifo[c]) = {k} BY <2>1, <3>1
    <3> QED BY <3>2, FS_Singleton
  <2> QED BY <2>1, <2>2
<1>2. IInv => CursorAlive BY <1>1
<1> QED BY <1>2, Invariance, PTL

-----------------------------------------------------------------------------
(* The list as a set of alarms *)

Alarms == Timers \ {SENTINEL}

ClockFacts ==
    /\ ListedLeft \in [Alarms -> (Lefts \ {FOREVER}) \cup {-1}]
    /\ \A a \in Alarms : /\ a \in Running => ListedLeft[a] = tm.left[a] /\ tm.left[a] \in Lefts \ {FOREVER}
                         /\ a \notin Running => ListedLeft[a] = -1

LEMMA ClockIs == Listed => ClockFacts
<1> SUFFICES ASSUME Listed PROVE ClockFacts OBVIOUS
<1>a. PICK n, q : List(tm, Running, n, q) BY DEF Listed
<1> PICK at : at = Walk(tm) OBVIOUS
<1>1. n \in Nat /\ q \in [0 .. n -> Timers] /\ Running = {q[k] : k \in 0 .. n}
      /\ \A t \in Timers : tm.left[t] = FOREVER <=> t = SENTINEL
  BY <1>a DEF List
<1>2. n <= MAX_TIMER - 1 /\ MAX_TIMER \in Nat BY <1>a, ListCount, Sizes
<1>3. \A k \in 0 .. MAX_TIMER : at[k] = IF k <= n THEN q[k] ELSE NIL BY <1>a, WalkIs
<1>4. DOMAIN at = 0 .. MAX_TIMER
  <2>1. at = [k \in 0 .. MAX_TIMER |-> IF k = 0 THEN tm.t0 ELSE After(tm, at[k - 1])]
    BY WalkUnfolded, Zenon
  <2> QED BY <2>1, Zenon
<1>5. ToSet(at) = {at[k] : k \in 0 .. MAX_TIMER} BY <1>4, Zenon DEF ToSet
<1>6. ASSUME NEW a \in Alarms PROVE a \in ToSet(at) <=> a \in Running
  <2>1. a # NIL BY Sizes DEF Alarms
  <2>2. ASSUME a \in Running PROVE a \in ToSet(at)
    <3>1. PICK k \in 0 .. n : a = q[k] BY <1>1, <2>2
    <3>2. k \in 0 .. MAX_TIMER /\ k <= n BY <1>1, <1>2
    <3> QED BY <1>3, <1>5, <3>1, <3>2
  <2>3. ASSUME a \in ToSet(at) PROVE a \in Running
    <3>1. PICK k \in 0 .. MAX_TIMER : a = at[k] BY <1>5, <2>3
    <3>2. k <= n /\ a = q[k] BY <1>3, <2>1, <3>1
    <3>3. k \in 0 .. n BY <1>1, <3>2
    <3> QED BY <1>1, <3>2, <3>3
  <2> QED BY <2>2, <2>3
<1>7. ListedLeft = [t \in Alarms |-> IF t \in ToSet(at) THEN tm.left[t] ELSE -1]
  BY Zenon DEF ListedLeft, Alarms
<1>8. \A a \in Alarms : tm.left[a] \in Lefts \ {FOREVER}
  <2>1. tm.left \in [Timers -> Lefts] BY ListedTM
  <2> QED BY <1>1, <2>1 DEF Alarms
<1>9. \A a \in Alarms : /\ a \in Running => ListedLeft[a] = tm.left[a]
                        /\ a \notin Running => ListedLeft[a] = -1
  BY <1>6, <1>7
<1>10. ListedLeft \in [Alarms -> (Lefts \ {FOREVER}) \cup {-1}] BY <1>7, <1>8
<1> QED BY <1>8, <1>9, <1>10 DEF ClockFacts

\* What the clock does when the timers of Running stay as they are.
LEMMA ClockSteady ==
    ASSUME ClockFacts, ClockFacts', Running' = Running,
           \A u \in Running : tm'.left[u] = tm.left[u]
    PROVE  ListedLeft' = ListedLeft
<1>1. /\ ListedLeft \in [Alarms -> (Lefts \ {FOREVER}) \cup {-1}]
      /\ ListedLeft' \in [Alarms -> (Lefts \ {FOREVER}) \cup {-1}]
  BY DEF ClockFacts
<1>2. \A a \in Alarms : ListedLeft'[a] = ListedLeft[a] BY DEF ClockFacts
<1> QED BY <1>1, <1>2

LEMMA ClockCancels ==
    ASSUME ClockFacts, ClockFacts', Running' \in SUBSET Running,
           \A u \in Timers : tm'.left[u] = tm.left[u]
    PROVE  Clock!Cancel
<1>1. ListedLeft' \in [Alarms -> (Lefts \ {FOREVER}) \cup {-1}] BY DEF ClockFacts
<1>2. \A a \in Alarms : ListedLeft'[a] \in {ListedLeft[a], -1} BY DEF ClockFacts, Alarms
<1> QED BY <1>1, <1>2 DEF Clock!Cancel, Clock!Off, Alarms

LEMMA ClockSets ==
    ASSUME ClockFacts, ClockFacts', NEW t \in Alarms \ Running, Running' = Running \cup {t},
           \A u \in Timers : tm'.left[u] = tm.left[u]
    PROVE  \E a \in Alarms, n \in Lefts \ {FOREVER} : Clock!SetAlarm(a, n)
<1> PICK x : x = tm'.left[t] OBVIOUS
<1>1. /\ ListedLeft \in [Alarms -> (Lefts \ {FOREVER}) \cup {-1}]
      /\ ListedLeft' \in [Alarms -> (Lefts \ {FOREVER}) \cup {-1}]
  BY DEF ClockFacts
<1>2. ListedLeft[t] = -1 BY DEF ClockFacts
<1>3. ListedLeft'[t] = x /\ x \in Lefts \ {FOREVER} BY DEF ClockFacts
<1>4. \A a \in Alarms : a # t => ListedLeft'[a] = ListedLeft[a] BY DEF ClockFacts, Alarms
<1>5. ListedLeft' = [ListedLeft EXCEPT ![t] = x] BY <1>1, <1>3, <1>4
<1>6. Clock!SetAlarm(t, x) BY <1>2, <1>5 DEF Clock!SetAlarm, Clock!Off
<1> QED BY <1>3, <1>6

LEMMA ClockTicks ==
    ASSUME ClockFacts, ClockFacts', NEW F \in SUBSET Alarms, TickedLefts(F)
    PROVE  Clock!Tick
<1>1. ListedLeft' \in [Alarms -> (Lefts \ {FOREVER}) \cup {-1}] BY DEF ClockFacts
<1>2. ASSUME NEW a \in Alarms PROVE ListedLeft'[a] \in Clock!Ticked(a)
  <2>1. /\ a \in Running => ListedLeft[a] = tm.left[a] /\ tm.left[a] \in Lefts \ {FOREVER}
        /\ a \notin Running => ListedLeft[a] = -1
        /\ a \in Running' => ListedLeft'[a] = tm'.left[a] /\ tm'.left[a] \in Lefts \ {FOREVER}
        /\ a \notin Running' => ListedLeft'[a] = -1
    BY DEF ClockFacts
  <2>2. /\ a # TASK_TIMER => (a \in Running' <=> a \in Running \ F)
        /\ TASK_TIMER \in Running /\ TASK_TIMER \in Running'
        /\ a \in F => tm.left[a] <= 1
        /\ a \in Running \ F => tm.left[a] > 1 /\ tm'.left[a] = tm.left[a] - 1
        /\ TASK_TIMER \in F => tm'.left[TASK_TIMER] \in Slices
        /\ a \in Timers
    BY DEF TickedLefts, Alarms
  <2>3. \A x \in Lefts \ {FOREVER} : x \in Nat /\ x # -1 BY Longest
  <2>4. CASE a \notin Running
    <3>1. ListedLeft[a] = -1 /\ ListedLeft'[a] = -1 BY <2>1, <2>2, <2>4
    <3> QED BY <3>1 DEF Clock!Ticked, Clock!Off
  <2>5. CASE a \in Running \ F
    <3>1. ListedLeft[a] = tm.left[a] /\ ListedLeft[a] > 1 /\ ListedLeft[a] # -1
          /\ ListedLeft'[a] = ListedLeft[a] - 1
      BY <2>1, <2>2, <2>3, <2>5
    <3> QED BY <3>1 DEF Clock!Ticked, Clock!Off
  <2>6. CASE a \in Running /\ a \in F
    <3>1. ListedLeft[a] # -1 /\ ~(ListedLeft[a] > 1) BY <2>1, <2>2, <2>3, <2>6
    <3>2. ListedLeft'[a] \in ((Lefts \ {FOREVER}) \ {0}) \cup {-1}
      <4>1. CASE a # TASK_TIMER BY <2>1, <2>2, <2>6, <4>1
      <4>2. CASE a = TASK_TIMER
        <5>1. ListedLeft'[a] \in Slices /\ ListedLeft'[a] \in Lefts \ {FOREVER} BY <2>1, <2>2, <2>6, <4>2
        <5>2. ListedLeft'[a] # 0 BY <5>1, TimerAssumption
        <5> QED BY <5>1, <5>2
      <4> QED BY <4>1, <4>2
    <3> QED BY <3>1, <3>2 DEF Clock!Ticked, Clock!Off
  <2> QED BY <2>4, <2>5, <2>6
<1> QED BY <1>1, <1>2 DEF Clock!Tick, Clock!Off, Alarms

LEMMA Running0 ==
    ASSUME tm' = tm, setting' = setting
    PROVE  Running' = Running
BY DEF Running, Setting

LEMMA ConsoleClock ==
    ASSUME IInv, ClockFacts, ClockFacts', NEW c \in Consoles, Step(c) \/ Key(c)
    PROVE  \/ ListedLeft' = ListedLeft
           \/ Clock!Cancel
           \/ \E a \in Alarms, n \in Lefts \ {FOREVER} : Clock!SetAlarm(a, n)
<1>1. Types /\ Held /\ Alive /\ Listed BY DEF IInv
<1>2. ASSUME tm' = tm, setting' = setting PROVE ListedLeft' = ListedLeft
  <2>1. Running' = Running BY <1>2, Running0
  <2> QED BY <1>2, <2>1, ClockSteady
<1>3. ASSUME NEW t \in Timers, t \notin Running, NEW x \in Times, TimerSettime(c, t, x), setting[c] = NIL
      PROVE  ListedLeft' = ListedLeft
  <2>1. Running' = Running /\ \A u \in Timers : u # t => tm'.left[u] = tm.left[u] BY <1>1, <1>3, SetList
  <2>2. \A u \in Running : u # t /\ u \in Timers BY <1>1, <1>3, ListedTM
  <2>3. \A u \in Running : tm'.left[u] = tm.left[u] BY <2>1, <2>2
  <2> QED BY <2>1, <2>3, ClockSteady
<1>4. ASSUME NEW t \in Timers, tm.flags[t] # USING, NEW f \in {FREE, ALLOC},
             tm' = [tm EXCEPT !.flags[t] = f], setting' = setting
      PROVE  ListedLeft' = ListedLeft
  <2>1. Running' = Running /\ \A u \in Timers : tm'.left[u] = tm.left[u] BY <1>1, <1>4, FlagList
  <2>2. \A u \in Running : u \in Timers BY <1>1, ListedTM
  <2>3. \A u \in Running : tm'.left[u] = tm.left[u] BY <2>1, <2>2
  <2> QED BY <2>1, <2>3, ClockSteady
<1>5. \A d \in Consoles : /\ cursor[d] # NIL => cursor[d] \in Timers
                          /\ appTimer[d] # NIL => appTimer[d] \in Timers
  <2>1. cursor \in [Consoles -> Pointers] /\ appTimer \in [Consoles -> Pointers] BY <1>1, TypeFacts
  <2> QED BY <2>1, TypeNames
<1>6. CASE Open(c)
  <2>1. setting[c] = NIL
    <3>1. cursor[c] = NIL /\ appTimer[c] = NIL BY <1>1, <1>6 DEF Held, Open
    <3> QED BY <1>1, <3>1 DEF Held
  <2>2. ASSUME NEW t \in Timers, TimerAlloc(t), TimerSettime(c, t, CursorTime)
        PROVE  ListedLeft' = ListedLeft
    <3>1. t \notin Running BY <1>1, <2>2, AllocIs
    <3> QED BY <1>3, <2>1, <2>2, <3>1, CursorTimes
  <2>3. CASE UNCHANGED <<tm, flags2, owner, cursor, setting>> BY <1>2, <2>3
  <2> QED BY <1>6, <2>2, <2>3 DEF Open
<1>7. CASE LinkTimer(c)
  <2>1. /\ setting[c] \in Timers \ Running /\ Running' = Running \cup {setting[c]}
        /\ \A u \in Timers : tm'.left[u] = tm.left[u]
    BY <1>1, <1>7, LinkList
  <2>2. setting[c] \in Alarms \ Running BY <1>1, <2>1, ListedTM DEF Alarms
  <2> QED BY <2>1, <2>2, ClockSets
<1>8. CASE TakeCursor(c)
  <2>1. setting[c] = NIL /\ fifo[c].q # <<>> /\ Head(fifo[c].q) = CURSOR
        /\ IF cursor[c] # NIL THEN TimerSettime(c, cursor[c], CursorTime) ELSE tm' = tm /\ setting' = setting
    BY <1>8 DEF TakeCursor, Waits, KeepCursor
  <2>2. CASE cursor[c] = NIL BY <1>2, <2>1, <2>2
  <2>3. CASE cursor[c] # NIL
    <3>1. 1 \in Events(fifo[c]) BY <1>1, <1>8, <2>1, FifoGetIs DEF TakeCursor
    <3>2. tm.flags[cursor[c]] # USING BY <1>1, <2>3, <3>1 DEF Alive
    <3>3. cursor[c] \in Timers /\ cursor[c] \notin Running BY <1>1, <1>5, <2>3, <3>2, ListedTM
    <3> QED BY <1>3, <2>1, <2>3, <3>3, CursorTimes
  <2> QED BY <2>2, <2>3
<1>9. CASE TakeOther(c)
  <2>1. tm' = tm /\ setting' = setting BY <1>9 DEF TakeOther
  <2> QED BY <1>2, <2>1
<1>10. CASE Key(c)
  <2>1. tm' = tm /\ setting' = setting BY <1>10 DEF Key
  <2> QED BY <1>2, <2>1
<1>11. CASE Exit(c)
  <2>1. Running' \in SUBSET Running /\ \A u \in Timers : tm'.left[u] = tm.left[u]
    BY <1>11, ExitInv
  <2> QED BY <2>1, ClockCancels
<1>12. CASE CloseWindow(c)
  <2>1. Running' \in SUBSET Running /\ \A u \in Timers : tm'.left[u] = tm.left[u]
    BY <1>12, CloseWindowInv
  <2> QED BY <2>1, ClockCancels
<1>13. CASE AppAlloc(c)
  <2>1. setting' = setting BY <1>13 DEF AppAlloc
  <2>a. PICK t \in Timers : TimerAlloc(t) /\ tm' = [tm EXCEPT !.flags[t] = ALLOC]
    BY <1>13, Zenon DEF AppAlloc
  <2>2. tm.flags[t] # USING /\ ALLOC \in {FREE, ALLOC} BY <2>a, TypeNames DEF TimerAlloc
  <2> QED BY <1>4, <2>1, <2>2, <2>a
<1>14. CASE AppFree(c)
  <2>1. /\ setting' = setting /\ tm' = [tm EXCEPT !.flags[appTimer[c]] = FREE]
        /\ appTimer[c] # NIL /\ tm.flags[appTimer[c]] # USING
    BY <1>14 DEF AppFree, TimerFree, AppIdles
  <2> QED BY <1>4, <1>5, <2>1
<1>15. CASE AppEnd(c)
  <2>1. setting' = setting /\ tm' = TimerCancelall(c) /\ setting[c] = NIL BY <1>15 DEF AppEnd, Runs
  <2>2. tm' = IF appTimer[c] = NIL THEN tm ELSE Gone(appTimer[c]) BY <1>1, <2>1, CancelallIs
  <2>3. CASE appTimer[c] = NIL BY <1>2, <2>1, <2>2, <2>3
  <2>4. CASE appTimer[c] # NIL
    <3> PICK t : t = appTimer[c] OBVIOUS
    <3>1. t \in Timers \ {SENTINEL} /\ \A d \in Consoles : setting[d] # t
      <4>1. t \in Timers \ {SENTINEL} /\ t # NIL /\ owner[t] = c BY <1>1, <1>5, <2>4 DEF Held
      <4>2. ASSUME NEW d \in Consoles, setting[d] = t PROVE FALSE
        <5>1. t = cursor[d] \/ t = appTimer[d] BY <1>1, <4>1, <4>2 DEF Held
        <5>2. owner[t] = d BY <1>1, <4>1, <5>1 DEF Held
        <5> QED BY <2>1, <4>1, <4>2, <5>2
      <4> QED BY <4>1, <4>2
    <3>2. /\ \A u \in Timers : Gone(t).flags[u] = IF u = t THEN FREE ELSE tm.flags[u]
          /\ Gone(t).left = tm.left
      BY <1>1, <3>1, GoneIs
    <3>3. tm' = Gone(t) BY <2>2, <2>4
    <3>4. \A u \in Timers : tm'.left[u] = tm.left[u] BY <3>2, <3>3
    <3>5. \A u \in Timers : tm'.flags[u] = USING => tm.flags[u] = USING BY <3>2, <3>3, TypeNames
    <3>6. Running' \in SUBSET Running BY <2>1, <3>5, Zenon DEF Running, Setting
    <3> QED BY <3>4, <3>6, ClockCancels
  <2> QED BY <2>3, <2>4
<1>16. CASE \E n \in AppTimes : AppSet(c, n)
  <2>a. PICK x \in AppTimes : AppSet(c, x) BY <1>16
  <2>1. /\ setting[c] = NIL /\ appTimer[c] # NIL /\ tm.flags[appTimer[c]] # USING
        /\ TimerSettime(c, appTimer[c], x)
    BY <2>a DEF AppSet, AppIdles, Runs
  <2>2. appTimer[c] \in Timers /\ appTimer[c] \notin Running BY <1>1, <1>5, <2>1, ListedTM
  <2>3. x \in Times BY CursorTimes
  <2> QED BY <1>3, <2>1, <2>2, <2>3
<1> QED BY <1>6, <1>7, <1>8, <1>9, <1>10, <1>11, <1>12, <1>13, <1>14, <1>15, <1>16 DEF Step

LEMMA StepClock ==
    ASSUME IInv, IInv', ClockFacts, ClockFacts', [Next]_vars
    PROVE  [Clock!Next]_ListedLeft
<1>1. CASE Tick
  <2>a. PICK F : TickedList(F) /\ TickedLefts(F) BY <1>1, TickList
  <2>1. F \in SUBSET Alarms
    <3>1. F \in SUBSET (Running \ {SENTINEL}) BY <2>a, Zenon DEF TickedList
    <3>2. Running \in SUBSET Timers BY DEF Running
    <3> QED BY <3>1, <3>2 DEF Alarms
  <2>2. Clock!Tick BY <2>1, <2>a, ClockTicks
  <2> QED BY <2>2 DEF Clock!Next
<1>2. ASSUME NEW c \in Consoles, Step(c) \/ Key(c) PROVE [Clock!Next]_ListedLeft
  <2>1. \/ ListedLeft' = ListedLeft
        \/ Clock!Cancel
        \/ \E a \in Alarms, n \in Lefts \ {FOREVER} : Clock!SetAlarm(a, n)
    BY <1>2, ConsoleClock
  <2> QED BY <2>1 DEF Clock!Next, Alarms
<1>3. CASE UNCHANGED vars
  <2>1. tm' = tm /\ setting' = setting BY <1>3 DEF vars
  <2>2. Running' = Running BY <2>1, Running0
  <2>3. ListedLeft' = ListedLeft BY <2>1, <2>2, ClockSteady
  <2> QED BY <2>3
<1> QED BY <1>1, <1>2, <1>3 DEF Next

\* The list of timer.c, behind timer_settime, timer_cancel and inthandler20,
\* does what a set of alarms does: a timer goes off at the first tick at which
\* its time has run out, with all others that are due, and at no other.
THEOREM ImplementsClock == Spec => ClockSpec
<1>1. IInv => ClockFacts BY ClockIs DEF IInv
<1>2. Init => Clock!Init
  <2> SUFFICES ASSUME Init PROVE Clock!Init OBVIOUS
  <2>1. ClockFacts BY <1>1, InitInv
  <2> QED BY <2>1 DEF ClockFacts, Clock!Init, Clock!Off, Alarms
<1>3. IInv' => ClockFacts' BY <1>1, PTL
<1>4. IInv /\ IInv' /\ [Next]_vars => [Clock!Next]_ListedLeft BY <1>1, <1>3, StepClock
<1> QED BY <1>2, <1>4, Invariance, PTL DEF Spec, ClockSpec, Clock!Spec

=============================================================================
