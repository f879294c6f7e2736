---------------------------- MODULE SheetProofs ----------------------------
(***************************************************************************)
(* Theorems about Sheet, for any number of sheets and pixels and any        *)
(* images: the stack stays sound, map[] and the screen stay what they       *)
(* should be although only parts of them are brought up to date, and        *)
(* sheets do what Layers promises.                                          *)
(***************************************************************************)
EXTENDS Sheet, WellFoundedInduction, FiniteSetTheorems, SequenceTheorems, TLAPS

-----------------------------------------------------------------------------
(* The inductive invariant *)

Stacks == [top : -1 .. (MAX_SHEETS - 1), sheets : [Sids -> Sids],
           height : [Sids -> -1 .. (MAX_SHEETS - 1)]]

\* sheets[] and the heights agree.
Sound(st) ==
    /\ st \in Stacks
    /\ \A h \in 0 .. st.top : st.height[st.sheets[h]] = h
    /\ \A s \in Sids : st.height[s] # -1 =>
          st.height[s] \in 0 .. st.top /\ st.sheets[st.height[s]] = s

\* Sheet s is the uppermost that shows something at p.
OnTop(st, sh, p, s) ==
    /\ st.height[s] # -1 /\ p \in Opaque(sh[s])
    /\ \A t \in Sids : st.height[t] > st.height[s] => p \notin Opaque(sh[t])

Colour(s, p) == s.buf[p - s.vx0]

Painted == UNION {[DOMAIN image -> Paints(image)] : image \in WindowImages}
Shades == {0, CLEAR} \cup UNION {Paints(image) : image \in WindowImages \cup {MouseImage}}

\* Who has which image.
Imaged(sh) ==
    /\ sh \in [Sids -> [used : BOOLEAN, vx0 : Int, buf : Images]]
    /\ sh[SHT_BACK].buf = [x \in Pixels |-> 0]
    /\ sh[SHT_MOUSE].buf = MouseImage
    /\ \A s \in Windows : sh[s].buf \in Painted \cup {NO_IMAGE}

Types ==
    /\ Imaged(sheet)
    /\ map \in [Pixels -> Sids]
    /\ vram \in [Pixels -> Shades]
    /\ booted \in 0 .. 3

\* HariMain puts up background, console and mouse, in this order.
Started ==
    /\ booted < 3 => stack.top = booted - 1
                     /\ \A s \in Sids : stack.height[s] # -1 <=> s < booted
    /\ booted < 3 => \A s \in {SHT_BACK, CONSOLE, SHT_MOUSE} : sheet[s].used
    /\ booted = 3 => stack.height[SHT_BACK] # -1 /\ stack.height[SHT_MOUSE] # -1

Kept == \A s \in Sids : stack.height[s] # -1 => sheet[s].used

Current ==
    \A p \in Pixels, s \in Sids : OnTop(stack, sheet, p, s) =>
        map[p] = s /\ vram[p] = Colour(sheet[s], p)

IInv == Sound(stack) /\ Types /\ Started /\ Kept /\ Current

-----------------------------------------------------------------------------
(* Numbers *)

LEMMA Sizes ==
    /\ MAX_SHEETS \in Nat /\ MAX_SHEETS >= 3
    /\ {SHT_BACK, CONSOLE, SHT_MOUSE} \subseteq Sids
    /\ SHT_BACK = 0 /\ CONSOLE = 1 /\ SHT_MOUSE = 2
    /\ Sids \subseteq Nat /\ Pixels \subseteq Int
BY SheetAssumption DEF Sids, Pixels, SHT_BACK, CONSOLE, SHT_MOUSE

LEMMA LessWellFounded == IsWellFoundedOn({p \in Nat \X Nat : p[1] < p[2]}, Nat)
<1>1. OpToRel(<, Nat) = {p \in Nat \X Nat : p[1] < p[2]} BY Zenon DEF OpToRel
<1> QED BY <1>1, NatLessThanWellFounded, Zenon

LEMMA Smallest ==
    ASSUME NEW S \in SUBSET Nat, S # {}
    PROVE  \E m \in S : \A n \in S : m <= n
<1> PICK R : R = {p \in Nat \X Nat : p[1] < p[2]} OBVIOUS
<1>1. IsWellFoundedOn(R, Nat) BY LessWellFounded
<1>2. PICK m \in S : \A n \in S : <<n, m>> \notin R BY <1>1, WFMin
<1>3. ASSUME NEW n \in S PROVE m <= n
  <2>1. <<n, m>> \notin R /\ <<n, m>> \in Nat \X Nat BY <1>2
  <2>2. ~(n < m) BY <2>1
  <2> QED BY <2>2
<1> QED BY <1>3

LEMMA Largest ==
    ASSUME NEW n \in Nat, NEW S \in SUBSET (0 .. n), S # {}
    PROVE  \E m \in S : \A k \in S : k <= m
<1> DEFINE T == {n - k : k \in S}
<1>1. T \in SUBSET Nat /\ T # {}
  <2>1. \A k \in S : n - k \in Nat OBVIOUS
  <2>2. PICK k \in S : TRUE OBVIOUS
  <2>3. n - k \in T BY <2>2
  <2> QED BY <2>1, <2>3
<1>2. PICK l \in T : \A j \in T : l <= j BY <1>1, Smallest
<1>3. PICK m \in S : l = n - m OBVIOUS
<1>4. \A k \in S : n - m <= n - k BY <1>2, <1>3
<1> HIDE DEF T
<1>5. \A k \in S : k <= m BY <1>4
<1> QED BY <1>5

-----------------------------------------------------------------------------
(* The stack *)

LEMMA StackTypes ==
    ASSUME NEW st, Sound(st)
    PROVE  /\ st.top \in -1 .. (MAX_SHEETS - 1) /\ st.sheets \in [Sids -> Sids]
           /\ st.height \in [Sids -> -1 .. (MAX_SHEETS - 1)]
           /\ \A h \in 0 .. st.top : h \in Sids /\ st.height[st.sheets[h]] = h
           /\ \A s \in Sids : st.height[s] \in Int /\ st.height[s] >= -1
           /\ \A s \in Sids : st.height[s] # -1 =>
                st.height[s] \in 0 .. st.top /\ st.sheets[st.height[s]] = s
BY Sizes DEF Sound, Stacks, Sids

\* The sheets at some heights change place with their neighbours: they leave the heights
\* above or below them.
LEMMA ShiftResult ==
    ASSUME Sound(stack), NEW d \in {-1, 1}, NEW hs \in SUBSET Sids, \A k \in hs : k + d \in 0 .. stack.top
    PROVE  /\ Shift(hs, d).top = stack.top
           /\ Shift(hs, d).sheets = [h \in Sids |-> IF h \in hs THEN stack.sheets[h + d] ELSE stack.sheets[h]]
           /\ Shift(hs, d).height = [s \in Sids |-> IF stack.height[s] - d \in hs THEN stack.height[s] - d
                                                   ELSE stack.height[s]]
           /\ DOMAIN Shift(hs, d) = {"top", "sheets", "height"}
           /\ Shift(hs, d) = [top |-> Shift(hs, d).top, sheets |-> Shift(hs, d).sheets,
                              height |-> Shift(hs, d).height]
<1>1. /\ stack \in Stacks /\ stack.sheets \in [Sids -> Sids] /\ stack.height \in [Sids -> -1 .. (MAX_SHEETS - 1)]
      /\ \A h \in 0 .. stack.top : h \in Sids /\ stack.height[stack.sheets[h]] = h
      /\ \A s \in Sids : stack.height[s] # -1 =>
            stack.height[s] \in 0 .. stack.top /\ stack.sheets[stack.height[s]] = s
  BY StackTypes DEF Sound
<1>2. ASSUME NEW s \in Sids, NEW k \in hs
      PROVE  stack.sheets[k + d] = s <=> k = stack.height[s] - d
  <2>1. k \in Int /\ k + d \in 0 .. stack.top BY Sizes
  <2>2. stack.height[s] \in Int BY <1>1, Sizes
  <2>3. stack.sheets[k + d] = s => stack.height[s] = k + d BY <1>1, <2>1
  <2>4. stack.height[s] = k + d => stack.sheets[k + d] = s
    <3>1. k + d # -1 BY <2>1
    <3> QED BY <1>1, <3>1
  <2> QED BY <2>1, <2>2, <2>3, <2>4
<1> DEFINE low(s) == IF \E k \in hs : stack.sheets[k + d] = s
                     THEN CHOOSE k \in hs : stack.sheets[k + d] = s ELSE stack.height[s]
<1>3. ASSUME NEW s \in Sids
      PROVE  low(s) = IF stack.height[s] - d \in hs THEN stack.height[s] - d ELSE stack.height[s]
  <2>1. CASE \E k \in hs : stack.sheets[k + d] = s
    <3>1. low(s) \in hs /\ stack.sheets[low(s) + d] = s BY <2>1
    <3> HIDE DEF low
    <3>2. low(s) = stack.height[s] - d BY <3>1, <1>2
    <3> QED BY <3>1, <3>2
  <2>2. CASE ~\E k \in hs : stack.sheets[k + d] = s
    <3>1. stack.height[s] - d \notin hs BY <2>2, <1>2
    <3> QED BY <2>2, <3>1
  <2> QED BY <2>1, <2>2
<1>4. Shift(hs, d) = [stack EXCEPT
        !.sheets = [h \in Sids |-> IF h \in hs THEN stack.sheets[h + d] ELSE stack.sheets[h]],
        !.height = [s \in Sids |-> low(s)]]
  BY <1>1 DEF Shift, Stacks
<1>5. [s \in Sids |-> low(s)] = [s \in Sids |-> IF stack.height[s] - d \in hs THEN stack.height[s] - d
                                                   ELSE stack.height[s]]
  BY <1>3
<1> HIDE DEF low
<1> QED BY <1>1, <1>4, <1>5 DEF Stacks

\* Arrays that are inverse to each other make a sound stack.
LEMMA Arranged ==
    ASSUME NEW top \in -1 .. (MAX_SHEETS - 1), NEW sheets \in [Sids -> Sids], NEW height,
           height = [t \in Sids |-> height[t]],
           \A k \in 0 .. top : height[sheets[k]] = k,
           \A t \in Sids : height[t] # -1 => height[t] \in 0 .. top /\ sheets[height[t]] = t
    PROVE  Sound([top |-> top, sheets |-> sheets, height |-> height])
<1>1. \A t \in Sids : height[t] \in -1 .. (MAX_SHEETS - 1) BY Sizes
<1>2. height \in [Sids -> -1 .. (MAX_SHEETS - 1)] BY <1>1
<1> QED BY <1>2 DEF Sound, Stacks

\* What sheet_updown does to the stack.  Each lemma gives the new heights, and the new
\* sheets[] as far as it is used.
LEMMA LowerStack ==
    ASSUME Sound(stack), NEW s \in Sids, NEW h \in Nat, h < stack.height[s]
    PROVE  LET old == stack.height[s]
               new == Put(Shift((h + 1) .. old, -1), s, h) IN
           /\ Sound(new) /\ new.top = stack.top
           /\ \A t \in Sids : new.height[t] =
                IF t = s THEN h
                ELSE IF h <= stack.height[t] /\ stack.height[t] < old THEN stack.height[t] + 1
                ELSE stack.height[t]
           /\ \A k \in 0 .. stack.top : new.sheets[k] =
                IF k = h THEN s ELSE IF h < k /\ k <= old THEN stack.sheets[k - 1] ELSE stack.sheets[k]
<1> PICK top, sheets, height : top = stack.top /\ sheets = stack.sheets /\ height = stack.height OBVIOUS
<1> PICK old : old = height[s] OBVIOUS
<1> PICK hs : hs = (h + 1) .. old OBVIOUS
<1>1. /\ top \in Int /\ sheets \in [Sids -> Sids]
      /\ \A t \in Sids : height[t] \in Int
      /\ \A k \in 0 .. top : k \in Sids /\ height[sheets[k]] = k
      /\ \A t \in Sids : height[t] # -1 => height[t] \in 0 .. top /\ sheets[height[t]] = t
  BY StackTypes
<1>2. old \in 0 .. top /\ sheets[old] = s /\ h < old /\ h \in 0 .. top /\ h \in Sids BY <1>1
<1> PICK d : d = -1 OBVIOUS
<1>3. hs \in SUBSET Sids /\ d \in {-1, 1} /\ \A k \in hs : k + d \in 0 .. top BY <1>1, <1>2
<1> PICK moved : moved = Shift(hs, d) OBVIOUS
<1>4. /\ moved.top = top
      /\ moved.sheets = [k \in Sids |-> IF k \in hs THEN sheets[k + d] ELSE sheets[k]]
      /\ moved.height = [t \in Sids |-> IF height[t] - d \in hs THEN height[t] - d ELSE height[t]]
      /\ moved = [top |-> moved.top, sheets |-> moved.sheets, height |-> moved.height]
  <2>1. /\ Shift(hs, d).top = stack.top
        /\ Shift(hs, d).sheets = [k \in Sids |-> IF k \in hs THEN stack.sheets[k + d] ELSE stack.sheets[k]]
        /\ Shift(hs, d).height = [t \in Sids |-> IF stack.height[t] - d \in hs THEN stack.height[t] - d
                                                  ELSE stack.height[t]]
        /\ Shift(hs, d) = [top |-> Shift(hs, d).top, sheets |-> Shift(hs, d).sheets,
                           height |-> Shift(hs, d).height]
    BY <1>3, ShiftResult, Zenon
  <2> QED BY <2>1, Zenon
<1> PICK new : new = Put(moved, s, h) OBVIOUS
<1> PICK sheets2, height2 : sheets2 = new.sheets /\ height2 = new.height OBVIOUS
<1>5. /\ new.top = top
      /\ sheets2 = [moved.sheets EXCEPT ![h] = s]
      /\ height2 = [moved.height EXCEPT ![s] = h]
      /\ new = [top |-> top, sheets |-> sheets2, height |-> height2]
  BY <1>4 DEF Put
<1>6. /\ height2 = [t \in Sids |-> height2[t]]
      /\ \A t \in Sids : height2[t] =
           IF t = s THEN h ELSE IF h <= height[t] /\ height[t] < old THEN height[t] + 1 ELSE height[t]
  <2>1. /\ height2 = [t \in Sids |-> height2[t]]
        /\ \A t \in Sids : height2[t] = IF t = s THEN h ELSE moved.height[t]
    <3>1. moved.height = [t \in Sids |-> moved.height[t]] BY <1>4, Zenon
    <3> QED BY <1>5, <3>1, Zenon
  <2>2. ASSUME NEW t \in Sids
        PROVE  moved.height[t] = IF h <= height[t] /\ height[t] < old THEN height[t] + 1 ELSE height[t]
    <3>1. moved.height[t] = IF height[t] - d \in hs THEN height[t] - d ELSE height[t] BY <1>4, Zenon
    <3>2. height[t] - d = height[t] + 1 /\ height[t] \in Int /\ h \in Int /\ old \in Int BY <1>1, <1>2
    <3>3. height[t] + 1 \in hs <=> h <= height[t] /\ height[t] < old BY <3>2
    <3> QED BY <3>1, <3>2, <3>3, Zenon
  <2> QED BY <2>1, <2>2
<1>7. /\ sheets2 = [k \in Sids |-> sheets2[k]]
      /\ \A k \in Sids : sheets2[k] = IF k = h THEN s ELSE IF k \in hs THEN sheets[k - 1] ELSE sheets[k]
  BY <1>2, <1>4, <1>5
<1>8. ASSUME NEW k \in 0 .. top PROVE height2[sheets2[k]] = k
  <2>1. CASE k = h BY <1>1, <1>2, <1>6, <1>7, <2>1
  <2>2. CASE k \in hs
    <3>1. k - 1 \in 0 .. top /\ k # h /\ k - 1 # old /\ h <= k - 1 /\ k - 1 < old /\ k \in Sids BY <1>1, <1>2, <2>2
    <3>2. sheets2[k] = sheets[k - 1] /\ height[sheets[k - 1]] = k - 1 /\ sheets[k - 1] \in Sids BY <1>1, <1>7, <2>2, <3>1
    <3>3. sheets[k - 1] # s BY <3>1, <3>2
    <3> QED BY <1>6, <3>1, <3>2, <3>3
  <2>3. CASE k # h /\ k \notin hs
    <3>1. k \in Sids /\ k # old /\ ~(h <= k /\ k < old) BY <1>1, <1>2, <2>3
    <3>2. sheets2[k] = sheets[k] /\ height[sheets[k]] = k /\ sheets[k] \in Sids BY <1>1, <1>7, <2>3, <3>1
    <3>3. sheets[k] # s BY <3>1, <3>2
    <3>4. height2[sheets[k]] = height[sheets[k]] BY ZenonT(60), <1>6, <3>1, <3>2, <3>3
    <3> QED BY <3>2, <3>4
  <2> QED BY <2>1, <2>2, <2>3
<1>9. ASSUME NEW t \in Sids, height2[t] # -1 PROVE height2[t] \in 0 .. top /\ sheets2[height2[t]] = t
  <2>1. CASE t = s BY <1>2, <1>6, <1>7, <2>1
  <2>2. CASE t # s /\ h <= height[t] /\ height[t] < old
    <3>1. height2[t] = height[t] + 1 /\ height[t] \in 0 .. top /\ sheets[height[t]] = t BY <1>1, <1>6, <2>2
    <3>2. height[t] + 1 \in 0 .. top /\ height[t] + 1 \in hs /\ height[t] + 1 # h
      <4>1. height[t] \in Int /\ top \in Int /\ old \in 0 .. top BY <1>1, <1>2
      <4> QED BY <4>1, <2>2
    <3>3. sheets2[height[t] + 1] = sheets[(height[t] + 1) - 1] BY <1>1, <1>7, <3>2
    <3>4. (height[t] + 1) - 1 = height[t] BY <1>1
    <3> QED BY <3>1, <3>2, <3>3, <3>4
  <2>3. CASE t # s /\ ~(h <= height[t] /\ height[t] < old)
    <3>1. height2[t] = height[t] /\ height[t] \in 0 .. top /\ sheets[height[t]] = t BY <1>1, <1>6, <1>9, <2>3
    <3>2. height[t] # old BY <1>2, <2>3, <3>1
    <3>3. height[t] \notin hs /\ height[t] # h BY <1>2, <2>3, <3>1, <3>2
    <3> QED BY <1>1, <1>7, <3>1, <3>3
  <2> QED BY <2>1, <2>2, <2>3
<1>10. Sound(new)
  <2>1. sheets2 \in [Sids -> Sids]
    <3>1. \A k \in Sids : k # h /\ k \in hs => k - 1 \in Sids BY <1>1, <1>3
    <3>2. \A k \in Sids : sheets2[k] \in Sids BY <1>1, <1>7, <3>1
    <3> QED BY <1>7, <3>2
  <2>2. top \in -1 .. (MAX_SHEETS - 1) BY StackTypes
  <2>3. height2 = [t \in Sids |-> height2[t]] BY <1>6
  <2>4. Sound([top |-> top, sheets |-> sheets2, height |-> height2])
    BY <1>8, <1>9, <2>1, <2>2, <2>3, Arranged
  <2> QED BY <1>5, <2>4
<1>11. \A k \in 0 .. top : sheets2[k] =
         IF k = h THEN s ELSE IF h < k /\ k <= old THEN sheets[k - 1] ELSE sheets[k]
  BY <1>1, <1>7
<1> QED BY <1>5, <1>6, <1>10, <1>11

LEMMA RaiseStack ==
    ASSUME Sound(stack), NEW s \in Sids, NEW h \in 0 .. stack.top,
           0 <= stack.height[s], stack.height[s] < h
    PROVE  LET old == stack.height[s]
               new == Put(Shift(old .. (h - 1), 1), s, h) IN
           /\ Sound(new) /\ new.top = stack.top
           /\ \A t \in Sids : new.height[t] =
                IF t = s THEN h
                ELSE IF old < stack.height[t] /\ stack.height[t] <= h THEN stack.height[t] - 1
                ELSE stack.height[t]
           /\ \A k \in 0 .. stack.top : new.sheets[k] =
                IF k = h THEN s ELSE IF old <= k /\ k < h THEN stack.sheets[k + 1] ELSE stack.sheets[k]
<1> PICK top, sheets, height : top = stack.top /\ sheets = stack.sheets /\ height = stack.height OBVIOUS
<1> PICK old : old = height[s] OBVIOUS
<1> PICK hs : hs = old .. (h - 1) OBVIOUS
<1>1. /\ top \in Int /\ sheets \in [Sids -> Sids]
      /\ \A t \in Sids : height[t] \in Int
      /\ \A k \in 0 .. top : k \in Sids /\ height[sheets[k]] = k
      /\ \A t \in Sids : height[t] # -1 => height[t] \in 0 .. top /\ sheets[height[t]] = t
  BY StackTypes
<1>2. old \in 0 .. top /\ sheets[old] = s /\ old < h /\ h \in 0 .. top /\ h \in Sids BY <1>1
<1> PICK d : d = 1 OBVIOUS
<1>3. hs \in SUBSET Sids /\ d \in {-1, 1} /\ \A k \in hs : k + d \in 0 .. top BY <1>1, <1>2
<1> PICK moved : moved = Shift(hs, d) OBVIOUS
<1>4. /\ moved.top = top
      /\ moved.sheets = [k \in Sids |-> IF k \in hs THEN sheets[k + d] ELSE sheets[k]]
      /\ moved.height = [t \in Sids |-> IF height[t] - d \in hs THEN height[t] - d ELSE height[t]]
      /\ moved = [top |-> moved.top, sheets |-> moved.sheets, height |-> moved.height]
  <2>1. /\ Shift(hs, d).top = stack.top
        /\ Shift(hs, d).sheets = [k \in Sids |-> IF k \in hs THEN stack.sheets[k + d] ELSE stack.sheets[k]]
        /\ Shift(hs, d).height = [t \in Sids |-> IF stack.height[t] - d \in hs THEN stack.height[t] - d
                                                  ELSE stack.height[t]]
        /\ Shift(hs, d) = [top |-> Shift(hs, d).top, sheets |-> Shift(hs, d).sheets,
                           height |-> Shift(hs, d).height]
    BY <1>3, ShiftResult, Zenon
  <2> QED BY <2>1, Zenon
<1> PICK new : new = Put(moved, s, h) OBVIOUS
<1> PICK sheets2, height2 : sheets2 = new.sheets /\ height2 = new.height OBVIOUS
<1>5. /\ new.top = top
      /\ sheets2 = [moved.sheets EXCEPT ![h] = s]
      /\ height2 = [moved.height EXCEPT ![s] = h]
      /\ new = [top |-> top, sheets |-> sheets2, height |-> height2]
  BY <1>4 DEF Put
<1>6. /\ height2 = [t \in Sids |-> height2[t]]
      /\ \A t \in Sids : height2[t] =
           IF t = s THEN h ELSE IF old < height[t] /\ height[t] <= h THEN height[t] - 1 ELSE height[t]
  BY <1>1, <1>2, <1>4, <1>5
<1>7. /\ sheets2 = [k \in Sids |-> sheets2[k]]
      /\ \A k \in Sids : sheets2[k] = IF k = h THEN s ELSE IF k \in hs THEN sheets[k + 1] ELSE sheets[k]
  BY <1>2, <1>4, <1>5
<1>8. ASSUME NEW k \in 0 .. top PROVE height2[sheets2[k]] = k
  <2>1. CASE k = h BY <1>1, <1>2, <1>6, <1>7, <2>1
  <2>2. CASE k \in hs
    <3>1. k + 1 \in 0 .. top /\ k # h /\ k + 1 # old /\ old < k + 1 /\ k + 1 <= h /\ k \in Sids BY <1>1, <1>2, <2>2
    <3>2. sheets2[k] = sheets[k + 1] /\ height[sheets[k + 1]] = k + 1 /\ sheets[k + 1] \in Sids BY <1>1, <1>7, <2>2, <3>1
    <3>3. sheets[k + 1] # s BY <3>1, <3>2
    <3> QED BY <1>6, <3>1, <3>2, <3>3
  <2>3. CASE k # h /\ k \notin hs
    <3>1. k \in Sids /\ k # old /\ ~(old < k /\ k <= h) BY <1>1, <1>2, <2>3
    <3>2. sheets2[k] = sheets[k] /\ height[sheets[k]] = k /\ sheets[k] \in Sids BY <1>1, <1>7, <2>3, <3>1
    <3>3. sheets[k] # s BY <3>1, <3>2
    <3>4. height2[sheets[k]] = height[sheets[k]] BY ZenonT(60), <1>6, <3>1, <3>2, <3>3
    <3> QED BY <3>2, <3>4
  <2> QED BY <2>1, <2>2, <2>3
<1>9. ASSUME NEW t \in Sids, height2[t] # -1 PROVE height2[t] \in 0 .. top /\ sheets2[height2[t]] = t
  <2>1. CASE t = s BY <1>2, <1>6, <1>7, <2>1
  <2>2. CASE t # s /\ old < height[t] /\ height[t] <= h
    <3>1. height2[t] = height[t] - 1 /\ height[t] \in 0 .. top /\ sheets[height[t]] = t BY <1>1, <1>2, <1>6, <2>2
    <3>2. height[t] - 1 \in 0 .. top /\ height[t] - 1 \in hs /\ height[t] - 1 # h
      <4>1. height[t] \in Int /\ top \in Int /\ old \in 0 .. top BY <1>1, <1>2
      <4> QED BY <4>1, <2>2
    <3>3. sheets2[height[t] - 1] = sheets[(height[t] - 1) + 1] BY <1>1, <1>7, <3>2
    <3>4. (height[t] - 1) + 1 = height[t] BY <1>1
    <3> QED BY <3>1, <3>2, <3>3, <3>4
  <2>3. CASE t # s /\ ~(old < height[t] /\ height[t] <= h)
    <3>1. height2[t] = height[t] /\ height[t] \in 0 .. top /\ sheets[height[t]] = t BY <1>1, <1>6, <1>9, <2>3
    <3>2. height[t] # old BY <1>2, <2>3, <3>1
    <3>3. height[t] \notin hs /\ height[t] # h BY <1>2, <2>3, <3>1, <3>2
    <3> QED BY <1>1, <1>7, <3>1, <3>3
  <2> QED BY <2>1, <2>2, <2>3
<1>10. Sound(new)
  <2>1. sheets2 \in [Sids -> Sids]
    <3>1. \A k \in Sids : k # h /\ k \in hs => k + 1 \in Sids BY <1>1, <1>3
    <3>2. \A k \in Sids : sheets2[k] \in Sids BY <1>1, <1>7, <3>1
    <3> QED BY <1>7, <3>2
  <2>2. top \in -1 .. (MAX_SHEETS - 1) BY StackTypes
  <2>3. height2 = [t \in Sids |-> height2[t]] BY <1>6
  <2>4. Sound([top |-> top, sheets |-> sheets2, height |-> height2])
    BY <1>8, <1>9, <2>1, <2>2, <2>3, Arranged
  <2> QED BY <1>5, <2>4
<1>11. \A k \in 0 .. top : sheets2[k] =
         IF k = h THEN s ELSE IF old <= k /\ k < h THEN sheets[k + 1] ELSE sheets[k]
  BY <1>1, <1>7
<1> QED BY <1>5, <1>6, <1>10, <1>11

LEMMA UnstackStack ==
    ASSUME Sound(stack), NEW s \in Sids, 0 <= stack.height[s]
    PROVE  LET old == stack.height[s]
               new == [Shift(old .. (stack.top - 1), 1) EXCEPT !.height[s] = -1, !.top = @ - 1] IN
           /\ Sound(new) /\ new.top = stack.top - 1
           /\ \A t \in Sids : new.height[t] =
                IF t = s THEN -1 ELSE IF old < stack.height[t] THEN stack.height[t] - 1 ELSE stack.height[t]
           /\ \A k \in 0 .. (stack.top - 1) : new.sheets[k] =
                IF old <= k THEN stack.sheets[k + 1] ELSE stack.sheets[k]
<1> PICK top, sheets, height : top = stack.top /\ sheets = stack.sheets /\ height = stack.height OBVIOUS
<1> PICK old : old = height[s] OBVIOUS
<1> PICK hs : hs = old .. (top - 1) OBVIOUS
<1>1. /\ top \in Int /\ sheets \in [Sids -> Sids]
      /\ \A t \in Sids : height[t] \in Int
      /\ \A k \in 0 .. top : k \in Sids /\ height[sheets[k]] = k
      /\ \A t \in Sids : height[t] # -1 => height[t] \in 0 .. top /\ sheets[height[t]] = t
  BY StackTypes
<1>2. old \in 0 .. top /\ sheets[old] = s BY <1>1
<1> PICK d : d = 1 OBVIOUS
<1>3. hs \in SUBSET Sids /\ d \in {-1, 1} /\ \A k \in hs : k + d \in 0 .. top BY <1>1, <1>2
<1> PICK moved : moved = Shift(hs, d) OBVIOUS
<1>4. /\ moved.top = top
      /\ moved.sheets = [k \in Sids |-> IF k \in hs THEN sheets[k + d] ELSE sheets[k]]
      /\ moved.height = [t \in Sids |-> IF height[t] - d \in hs THEN height[t] - d ELSE height[t]]
      /\ moved = [top |-> moved.top, sheets |-> moved.sheets, height |-> moved.height]
  <2>1. /\ Shift(hs, d).top = stack.top
        /\ Shift(hs, d).sheets = [k \in Sids |-> IF k \in hs THEN stack.sheets[k + d] ELSE stack.sheets[k]]
        /\ Shift(hs, d).height = [t \in Sids |-> IF stack.height[t] - d \in hs THEN stack.height[t] - d
                                                  ELSE stack.height[t]]
        /\ Shift(hs, d) = [top |-> Shift(hs, d).top, sheets |-> Shift(hs, d).sheets,
                           height |-> Shift(hs, d).height]
    BY <1>3, ShiftResult, Zenon
  <2> QED BY <2>1, Zenon
<1>a. PICK new : new = [moved EXCEPT !.height[s] = -1, !.top = @ - 1] OBVIOUS
<1> PICK sheets2, height2 : sheets2 = new.sheets /\ height2 = new.height OBVIOUS
<1>5. /\ new.top = top - 1
      /\ sheets2 = moved.sheets
      /\ height2 = [moved.height EXCEPT ![s] = -1]
      /\ new = [top |-> top - 1, sheets |-> sheets2, height |-> height2]
  BY <1>4, <1>a
<1>6. /\ height2 = [t \in Sids |-> height2[t]]
      /\ \A t \in Sids : height2[t] =
           IF t = s THEN -1 ELSE IF old < height[t] THEN height[t] - 1 ELSE height[t]
  <2>1. height2 = [t \in Sids |-> height2[t]] BY <1>4, <1>5
  <2>2. ASSUME NEW t \in Sids
        PROVE  height2[t] = IF t = s THEN -1 ELSE IF height[t] - d \in hs THEN height[t] - d ELSE height[t]
    BY <1>4, <1>5
  <2>3. \A t \in Sids : height[t] - d \in hs <=> old < height[t] BY <1>1, <1>2
  <2> QED BY <2>1, <2>2, <2>3
<1>7. /\ sheets2 = [k \in Sids |-> sheets2[k]]
      /\ \A k \in Sids : sheets2[k] = IF k \in hs THEN sheets[k + 1] ELSE sheets[k]
  BY <1>2, <1>4, <1>5
<1>8. ASSUME NEW k \in 0 .. (top - 1) PROVE height2[sheets2[k]] = k
  <2>2. CASE k \in hs
    <3>1. k + 1 \in 0 .. top /\ k + 1 # old /\ old < k + 1 /\ k \in Sids BY <1>1, <1>2, <2>2
    <3>2. sheets2[k] = sheets[k + 1] /\ height[sheets[k + 1]] = k + 1 /\ sheets[k + 1] \in Sids BY <1>1, <1>7, <2>2, <3>1
    <3>3. sheets[k + 1] # s BY <3>1, <3>2
    <3> QED BY <1>6, <3>1, <3>2, <3>3
  <2>3. CASE k \notin hs
    <3>1. k \in Sids /\ k # old /\ ~(old < k) /\ k \in 0 .. top BY <1>1, <1>2, <2>3
    <3>2. sheets2[k] = sheets[k] /\ height[sheets[k]] = k /\ sheets[k] \in Sids BY <1>1, <1>7, <2>3, <3>1
    <3>3. sheets[k] # s BY <3>1, <3>2
    <3>4. height2[sheets[k]] = height[sheets[k]] BY <1>6, <3>1, <3>2, <3>3
    <3> QED BY <3>2, <3>4
  <2> QED BY <2>2, <2>3
<1>9. ASSUME NEW t \in Sids, height2[t] # -1 PROVE height2[t] \in 0 .. (top - 1) /\ sheets2[height2[t]] = t
  <2>1. t # s BY <1>6, <1>9
  <2>2. CASE old < height[t]
    <3>1. height2[t] = height[t] - 1 /\ height[t] \in 0 .. top /\ sheets[height[t]] = t BY <1>1, <1>2, <1>6, <2>1, <2>2
    <3>2. height[t] - 1 \in 0 .. (top - 1) /\ height[t] - 1 \in hs
      <4>1. height[t] \in Int /\ top \in Int /\ old \in 0 .. top BY <1>1, <1>2
      <4> QED BY <4>1, <2>2, <3>1
    <3>3. sheets2[height[t] - 1] = sheets[(height[t] - 1) + 1] BY <1>1, <1>3, <1>7, <3>2
    <3>4. (height[t] - 1) + 1 = height[t] BY <1>1
    <3> QED BY <3>1, <3>2, <3>3, <3>4
  <2>3. CASE ~(old < height[t])
    <3>1. height2[t] = height[t] /\ height[t] \in 0 .. top /\ sheets[height[t]] = t BY <1>1, <1>6, <1>9, <2>1, <2>3
    <3>2. height[t] # old BY <1>2, <2>1, <3>1
    <3>3. height[t] \notin hs /\ height[t] \in 0 .. (top - 1) BY <1>1, <1>2, <2>3, <3>1, <3>2
    <3> QED BY <1>1, <1>7, <3>1, <3>3
  <2> QED BY <2>2, <2>3
<1>10. Sound(new)
  <2>1. sheets2 \in [Sids -> Sids]
    <3>1. \A k \in Sids : k \in hs => k + 1 \in Sids BY <1>1, <1>3
    <3>2. \A k \in Sids : sheets2[k] \in Sids BY <1>1, <1>7, <3>1
    <3> QED BY <1>7, <3>2
  <2>2. top - 1 \in -1 .. (MAX_SHEETS - 1) BY StackTypes, <1>1, <1>2, Sizes
  <2> PICK b : b = top - 1 OBVIOUS
  <2>3. b \in -1 .. (MAX_SHEETS - 1) BY <2>2
  <2>4. \A k \in 0 .. b : height2[sheets2[k]] = k BY <1>8
  <2>5. \A t \in Sids : height2[t] # -1 => height2[t] \in 0 .. b /\ sheets2[height2[t]] = t BY <1>9
  <2>6. Sound([top |-> b, sheets |-> sheets2, height |-> height2])
    <3>1. height2 = [t \in Sids |-> height2[t]] BY <1>6
    <3> QED BY <2>1, <2>3, <2>4, <2>5, <3>1, Arranged
  <2> QED BY <1>5, <2>6
<1>11. \A k \in 0 .. (top - 1) : sheets2[k] = IF old <= k THEN sheets[k + 1] ELSE sheets[k]
  BY <1>1, <1>7
<1>12. new = [Shift(stack.height[s] .. (stack.top - 1), 1) EXCEPT !.height[s] = -1, !.top = @ - 1] BY <1>a
<1> QED BY ZenonT(60), <1>5, <1>6, <1>10, <1>11, <1>12

\* A sheet that is not in the stack leaves room for itself.
LEMMA RoomForOne ==
    ASSUME NEW st, Sound(st), NEW s \in Sids, st.height[s] = -1
    PROVE  st.top + 1 \in Sids
<1> PICK n : n = MAX_SHEETS - 1 OBVIOUS
<1>1. n \in Nat /\ Sids = 0 .. n /\ st.top \in -1 .. n BY Sizes, StackTypes DEF Sids
<1>2. CASE st.top = n
  <2> PICK f : f = st.sheets OBVIOUS
  <2>1. \A h \in Sids : f[h] \in Sids /\ st.height[f[h]] = h BY <1>1, <1>2, StackTypes
  <2>2. \A h \in Sids : f[h] # s BY <1>1, <2>1
  <2>3. f \in [Sids -> Sids \ {s}] BY <2>1, <2>2, StackTypes
  <2>4. IsFiniteSet(Sids) /\ Cardinality(Sids) = n + 1
    <3>1. 0 \in Int /\ n \in Int BY <1>1
    <3>2. IsFiniteSet(0 .. n) /\ Cardinality(0 .. n) = IF 0 > n THEN 0 ELSE n - 0 + 1 BY <3>1, FS_Interval, Zenon
    <3> QED BY <1>1, <3>2
  <2>5. IsFiniteSet(Sids \ {s}) /\ Cardinality(Sids \ {s}) = n
    <3>1. IsFiniteSet(Sids \ {s}) /\ Cardinality(Sids \ {s}) = Cardinality(Sids) - 1
      BY <2>4, FS_RemoveElement, Zenon
    <3> QED BY <1>1, <2>4, <3>1
  <2>6. Cardinality(Sids \ {s}) < Cardinality(Sids) BY <1>1, <2>4, <2>5
  <2>7. PICK h, k \in Sids : h # k /\ f[h] = f[k] BY <2>3, <2>4, <2>5, <2>6, FS_PigeonHole
  <2> QED BY <2>1, <2>7
<1>3. CASE st.top # n BY <1>1, <1>3
<1> QED BY <1>2, <1>3

LEMMA ShowStack ==
    ASSUME Sound(stack), NEW s \in Sids, stack.height[s] = -1, NEW h \in 0 .. (stack.top + 1)
    PROVE  LET new == [Put(Shift((h + 1) .. (stack.top + 1), -1), s, h) EXCEPT !.top = @ + 1] IN
           /\ Sound(new) /\ new.top = stack.top + 1
           /\ \A t \in Sids : new.height[t] =
                IF t = s THEN h ELSE IF h <= stack.height[t] THEN stack.height[t] + 1 ELSE stack.height[t]
           /\ \A k \in 0 .. (stack.top + 1) : new.sheets[k] =
                IF k = h THEN s ELSE IF h < k THEN stack.sheets[k - 1] ELSE stack.sheets[k]
<1> PICK top, sheets, height : top = stack.top /\ sheets = stack.sheets /\ height = stack.height OBVIOUS
<1> PICK hs : hs = (h + 1) .. (top + 1) OBVIOUS
<1>1. /\ top \in Int /\ top >= -1 /\ sheets \in [Sids -> Sids]
      /\ \A t \in Sids : height[t] \in Int
      /\ \A k \in 0 .. top : k \in Sids /\ height[sheets[k]] = k
      /\ \A t \in Sids : height[t] # -1 => height[t] \in 0 .. top /\ sheets[height[t]] = t
  BY StackTypes
<1>2. h \in 0 .. (top + 1) /\ top + 1 \in Sids /\ h \in Sids /\ height[s] = -1
      /\ \A k \in 0 .. (top + 1) : k \in Sids
  <2>1. top + 1 \in Sids BY RoomForOne
  <2>2. PICK n \in Nat : Sids = 0 .. n BY Sizes DEF Sids
  <2>3. h \in Nat /\ h <= top + 1 /\ top + 1 <= n /\ top + 1 \in Nat BY <1>1, <2>1, <2>2
  <2>4. h \in Sids BY <2>2, <2>3
  <2>5. \A k \in 0 .. (top + 1) : k \in Sids BY <1>1, <2>2, <2>3
  <2> QED BY <2>1, <2>4, <2>5
<1> PICK d : d = -1 OBVIOUS
<1>3. hs \in SUBSET Sids /\ d \in {-1, 1} /\ \A k \in hs : k + d \in 0 .. top BY <1>1, <1>2
<1> PICK moved : moved = Shift(hs, d) OBVIOUS
<1>4. /\ moved.top = top
      /\ moved.sheets = [k \in Sids |-> IF k \in hs THEN sheets[k + d] ELSE sheets[k]]
      /\ moved.height = [t \in Sids |-> IF height[t] - d \in hs THEN height[t] - d ELSE height[t]]
      /\ moved = [top |-> moved.top, sheets |-> moved.sheets, height |-> moved.height]
  <2>1. /\ Shift(hs, d).top = stack.top
        /\ Shift(hs, d).sheets = [k \in Sids |-> IF k \in hs THEN stack.sheets[k + d] ELSE stack.sheets[k]]
        /\ Shift(hs, d).height = [t \in Sids |-> IF stack.height[t] - d \in hs THEN stack.height[t] - d
                                                  ELSE stack.height[t]]
        /\ Shift(hs, d) = [top |-> Shift(hs, d).top, sheets |-> Shift(hs, d).sheets,
                           height |-> Shift(hs, d).height]
    BY <1>3, ShiftResult, Zenon
  <2> QED BY <2>1, Zenon
<1> PICK new : new = [Put(moved, s, h) EXCEPT !.top = @ + 1] OBVIOUS
<1> PICK sheets2, height2 : sheets2 = new.sheets /\ height2 = new.height OBVIOUS
<1>5. /\ new.top = top + 1
      /\ sheets2 = [moved.sheets EXCEPT ![h] = s]
      /\ height2 = [moved.height EXCEPT ![s] = h]
      /\ new = [top |-> top + 1, sheets |-> sheets2, height |-> height2]
  BY <1>4 DEF Put
<1>6. /\ height2 = [t \in Sids |-> height2[t]]
      /\ \A t \in Sids : height2[t] =
           IF t = s THEN h ELSE IF h <= height[t] THEN height[t] + 1 ELSE height[t]
  BY <1>1, <1>2, <1>4, <1>5
<1>7. /\ sheets2 = [k \in Sids |-> sheets2[k]]
      /\ \A k \in Sids : sheets2[k] = IF k = h THEN s ELSE IF k \in hs THEN sheets[k - 1] ELSE sheets[k]
  BY <1>2, <1>4, <1>5
<1>8. ASSUME NEW k \in 0 .. (top + 1) PROVE height2[sheets2[k]] = k
  <2>1. CASE k = h BY <1>1, <1>2, <1>6, <1>7, <2>1
  <2>2. CASE k \in hs
    <3>1. k - 1 \in 0 .. top /\ k # h /\ h <= k - 1 /\ k \in Sids BY <1>1, <1>2, <2>2
    <3>2. sheets2[k] = sheets[k - 1] /\ height[sheets[k - 1]] = k - 1 /\ sheets[k - 1] \in Sids BY <1>1, <1>7, <2>2, <3>1
    <3>3. sheets[k - 1] # s BY <1>2, <3>1, <3>2
    <3> QED BY <1>6, <3>1, <3>2, <3>3
  <2>3. CASE k # h /\ k \notin hs
    <3>1. k \in Sids /\ k \in 0 .. top /\ ~(h <= k) BY <1>1, <1>2, <2>3
    <3>2. sheets2[k] = sheets[k] /\ height[sheets[k]] = k /\ sheets[k] \in Sids BY <1>1, <1>7, <2>3, <3>1
    <3>3. sheets[k] # s BY <1>2, <3>1, <3>2
    <3>4. height2[sheets[k]] = height[sheets[k]] BY <1>6, <3>1, <3>2, <3>3
    <3> QED BY <3>2, <3>4
  <2> QED BY <2>1, <2>2, <2>3
<1>9. ASSUME NEW t \in Sids, height2[t] # -1 PROVE height2[t] \in 0 .. (top + 1) /\ sheets2[height2[t]] = t
  <2>1. CASE t = s BY <1>2, <1>6, <1>7, <2>1
  <2>2. CASE t # s /\ h <= height[t]
    <3>1. height2[t] = height[t] + 1 /\ height[t] \in 0 .. top /\ sheets[height[t]] = t BY <1>1, <1>2, <1>6, <2>2
    <3>2. height[t] + 1 \in 0 .. (top + 1) /\ height[t] + 1 \in hs /\ height[t] + 1 # h
      <4>1. height[t] \in 0 .. top /\ top \in Int /\ h \in Int BY <1>1, <1>2, <3>1
      <4> QED BY <4>1, <2>2
    <3>3. sheets2[height[t] + 1] = sheets[(height[t] + 1) - 1] BY <1>1, <1>2, <1>7, <3>2
    <3>4. (height[t] + 1) - 1 = height[t] BY <1>1
    <3> QED BY <3>1, <3>2, <3>3, <3>4
  <2>3. CASE t # s /\ ~(h <= height[t])
    <3>1. height2[t] = height[t] /\ height[t] \in 0 .. top /\ sheets[height[t]] = t BY <1>1, <1>6, <1>9, <2>3
    <3>2. height[t] \notin hs /\ height[t] # h /\ height[t] \in 0 .. (top + 1) BY <1>1, <1>2, <2>3, <3>1
    <3> QED BY <1>1, <1>2, <1>7, <3>1, <3>2
  <2> QED BY <2>1, <2>2, <2>3
<1>10. Sound(new)
  <2>1. sheets2 \in [Sids -> Sids]
    <3>1. \A k \in Sids : k # h /\ k \in hs => k - 1 \in Sids BY <1>1, <1>3
    <3>2. \A k \in Sids : sheets2[k] \in Sids BY <1>1, <1>7, <3>1
    <3> QED BY <1>7, <3>2
  <2>2. top + 1 \in -1 .. (MAX_SHEETS - 1) BY <1>1, <1>2, Sizes DEF Sids
  <2>3. height2 = [t \in Sids |-> height2[t]] BY <1>6
  <2>4. Sound([top |-> top + 1, sheets |-> sheets2, height |-> height2])
    BY <1>8, <1>9, <2>1, <2>2, <2>3, Arranged
  <2> QED BY <1>5, <2>4
<1>11. \A k \in 0 .. (top + 1) : sheets2[k] =
         IF k = h THEN s ELSE IF h < k THEN sheets[k - 1] ELSE sheets[k]
  BY <1>1, <1>2, <1>7
<1> QED BY <1>5, <1>6, <1>10, <1>11

-----------------------------------------------------------------------------
(* Painting *)

LEMMA TopAlone ==
    ASSUME NEW st, Sound(st), NEW sh, NEW p, NEW t \in Sids, OnTop(st, sh, p, t)
    PROVE  /\ st.height[t] \in 0 .. st.top /\ st.sheets[st.height[t]] = t
           /\ \A k \in 0 .. st.top : st.height[t] < k => p \notin Opaque(sh[st.sheets[k]])
<1>1. st.height[t] \in 0 .. st.top /\ st.sheets[st.height[t]] = t
  BY StackTypes DEF OnTop
<1>2. ASSUME NEW k \in 0 .. st.top, st.height[t] < k PROVE p \notin Opaque(sh[st.sheets[k]])
  <2>1. st.sheets[k] \in Sids /\ st.height[st.sheets[k]] = k BY StackTypes
  <2> QED BY <1>2, <2>1 DEF OnTop
<1> QED BY <1>1, <1>2

\* sheet_refreshmap finds the sheet that shows at a pixel, if it starts low enough.
LEMMA RefreshmapResult ==
    ASSUME NEW st, Sound(st), NEW sh, NEW m, NEW area, NEW h0 \in Nat,
           NEW p \in Pixels, NEW t \in Sids, OnTop(st, sh, p, t)
    PROVE  Refreshmap(st, sh, m, area, h0)[p] = IF p \in area /\ st.height[t] >= h0 THEN t ELSE m[p]
<1> DEFINE here == {h \in h0 .. st.top : p \in Opaque(sh[st.sheets[h]])}
<1>1. Refreshmap(st, sh, m, area, h0)[p] =
        IF p \in area /\ here # {} THEN st.sheets[CHOOSE h \in here : \A k \in here : k <= h] ELSE m[p]
  BY DEF Refreshmap
<1>2. st.top \in Int BY StackTypes, Sizes
<1>3. st.height[t] \in 0 .. st.top /\ st.sheets[st.height[t]] = t BY TopAlone
<1>4. p \in Opaque(sh[t]) BY DEF OnTop
<1>5. ASSUME NEW k \in here PROVE k <= st.height[t]
  <2>1. k \in 0 .. st.top /\ p \in Opaque(sh[st.sheets[k]]) BY <1>2
  <2> QED BY <1>2, <1>3, <2>1, TopAlone
<1>6. here \in SUBSET Int BY <1>2
<1>7. CASE st.height[t] >= h0
  <2>1. st.height[t] \in here BY <1>2, <1>3, <1>4, <1>7
  <2> HIDE DEF here
  <2> PICK c : c = CHOOSE h \in here : \A k \in here : k <= h OBVIOUS
  <2>2. c \in here /\ \A k \in here : k <= c BY <1>5, <2>1
  <2>3. c = st.height[t] BY <1>3, <1>5, <1>6, <2>1, <2>2
  <2> QED BY <1>1, <1>3, <1>7, <2>1, <2>3
<1>8. CASE ~(st.height[t] >= h0)
  <2>1. here = {}
    <3>1. ASSUME NEW k \in here PROVE FALSE
      <4>1. k <= st.height[t] /\ k >= h0 /\ k \in Int BY <1>2, <1>5
      <4> QED BY <1>2, <1>3, <1>8, <4>1
    <3> QED BY <3>1
  <2> QED BY <1>1, <1>8, <2>1
<1> QED BY <1>7, <1>8

LEMMA RefreshmapTypes ==
    ASSUME NEW st, Sound(st), NEW sh, NEW m \in [Pixels -> Sids], NEW area, NEW h0 \in Nat
    PROVE  Refreshmap(st, sh, m, area, h0) \in [Pixels -> Sids]
<1>1. st.top \in Int /\ st.sheets \in [Sids -> Sids] BY StackTypes, Sizes
<1>2. ASSUME NEW p \in Pixels PROVE Refreshmap(st, sh, m, area, h0)[p] \in Sids
  <2> DEFINE here == {h \in h0 .. st.top : p \in Opaque(sh[st.sheets[h]])}
  <2>1. Refreshmap(st, sh, m, area, h0)[p] =
          IF p \in area /\ here # {} THEN st.sheets[CHOOSE h \in here : \A k \in here : k <= h] ELSE m[p]
    BY DEF Refreshmap
  <2>2. CASE here = {} BY <2>1, <2>2
  <2>3. CASE here # {}
    <3>1. st.top \in Nat /\ here \in SUBSET (0 .. st.top) BY <1>1, <2>3
    <3>2. here \in SUBSET Sids BY <3>1, StackTypes
    <3> HIDE DEF here
    <3>3. \E h \in here : \A k \in here : k <= h BY <2>3, <3>1, Largest
    <3> PICK c : c = CHOOSE h \in here : \A k \in here : k <= h OBVIOUS
    <3>4. c \in here BY <3>3
    <3> QED BY <1>1, <2>1, <3>2, <3>4
  <2> QED BY <2>2, <2>3
<1>3. Refreshmap(st, sh, m, area, h0) = [p \in Pixels |-> Refreshmap(st, sh, m, area, h0)[p]]
  BY DEF Refreshmap
<1> QED BY <1>2, <1>3

\* sheet_refreshsub paints what the map gives to one of the sheets in question.
LEMMA RefreshsubResult ==
    ASSUME NEW st, Sound(st), NEW sh, NEW m, NEW v, NEW area, NEW h0 \in Nat, NEW h1 \in Int, h1 <= st.top,
           NEW p \in Pixels, NEW t \in Sids, OnTop(st, sh, p, t), m[p] = t
    PROVE  Refreshsub(st, sh, m, v, area, h0, h1)[p] =
             IF p \in area /\ st.height[t] \in h0 .. h1 THEN Colour(sh[t], p) ELSE v[p]
<1>1. Refreshsub(st, sh, m, v, area, h0, h1)[p] =
        IF p \in area \cap Area(sh[t]) /\ \E h \in h0 .. h1 : st.sheets[h] = t THEN Colour(sh[t], p) ELSE v[p]
  BY DEF Refreshsub, Colour
<1>2. p \in Area(sh[t]) BY DEF OnTop, Opaque
<1>3. st.height[t] \in 0 .. st.top /\ st.sheets[st.height[t]] = t BY TopAlone
<1>4. ASSUME NEW h \in h0 .. h1, st.sheets[h] = t PROVE st.height[t] = h
  <2>1. h \in 0 .. st.top BY StackTypes, Sizes
  <2> QED BY <1>4, <2>1, StackTypes
<1>5. (\E h \in h0 .. h1 : st.sheets[h] = t) <=> st.height[t] \in h0 .. h1 BY <1>3, <1>4
<1> QED BY <1>1, <1>2, <1>5

LEMMA RefreshsubOne ==
    ASSUME NEW st, Sound(st), NEW sh, NEW m, NEW v, NEW area, NEW h \in Nat, h <= st.top,
           NEW p \in Pixels, NEW t \in Sids, OnTop(st, sh, p, t), m[p] = t
    PROVE  Refreshsub(st, sh, m, v, area, h, h)[p] =
             IF p \in area /\ st.height[t] = h THEN Colour(sh[t], p) ELSE v[p]
<1>1. h \in Int OBVIOUS
<1>2. Refreshsub(st, sh, m, v, area, h, h)[p] =
        IF p \in area /\ st.height[t] \in h .. h THEN Colour(sh[t], p) ELSE v[p]
  <2>1. PICK h1 : h1 = h OBVIOUS
  <2>2. h1 \in Int /\ h1 <= st.top BY <2>1
  <2>3. Refreshsub(st, sh, m, v, area, h, h1)[p] =
          IF p \in area /\ st.height[t] \in h .. h1 THEN Colour(sh[t], p) ELSE v[p]
    BY <2>2, RefreshsubResult
  <2> QED BY <2>1, <2>3
<1>3. st.height[t] \in Int BY StackTypes
<1>4. st.height[t] \in h .. h <=> st.height[t] = h BY <1>3
<1> QED BY <1>2, <1>4

LEMMA ImageColours ==
    ASSUME NEW sh, Imaged(sh), NEW s \in Sids, NEW p \in Area(sh[s]) PROVE Colour(sh[s], p) \in Shades
<1> PICK x : x = p - sh[s].vx0 OBVIOUS
<1>1. x \in DOMAIN sh[s].buf BY DEF Area
<1>2. CASE s = SHT_BACK
  <2>1. sh[s].buf = [y \in Pixels |-> 0] BY <1>2 DEF Imaged
  <2>2. sh[s].buf[x] = 0 BY <1>1, <2>1
  <2> QED BY <2>2 DEF Shades, Colour
<1>3. CASE s = SHT_MOUSE
  <2>1. sh[s].buf = MouseImage BY <1>3 DEF Imaged
  <2>2. MouseImage[x] \in Paints(MouseImage) BY <1>1, <2>1 DEF Paints
  <2> QED BY <2>1, <2>2 DEF Shades, Colour
<1>4. CASE s \in Windows
  <2>1. sh[s].buf \in Painted \cup {NO_IMAGE} BY <1>4 DEF Imaged
  <2>2. sh[s].buf # NO_IMAGE BY <1>1 DEF NO_IMAGE
  <2>3. PICK image \in WindowImages : sh[s].buf \in [DOMAIN image -> Paints(image)]
    BY <2>1, <2>2 DEF Painted
  <2>4. sh[s].buf[x] \in Paints(image) BY <1>1, <2>3
  <2> QED BY <2>4 DEF Shades, Colour
<1> QED BY <1>2, <1>3, <1>4 DEF Windows

LEMMA RefreshsubTypes ==
    ASSUME NEW sh, Imaged(sh), NEW st, NEW m \in [Pixels -> Sids], NEW v \in [Pixels -> Shades],
           NEW area, NEW h0, NEW h1
    PROVE  Refreshsub(st, sh, m, v, area, h0, h1) \in [Pixels -> Shades]
<1> PICK r : r = Refreshsub(st, sh, m, v, area, h0, h1) OBVIOUS
<1>1. ASSUME NEW p \in Pixels PROVE r[p] \in Shades
  <2>1. m[p] \in Sids /\ v[p] \in Shades OBVIOUS
  <2>2. r[p] = v[p] \/ (p \in Area(sh[m[p]]) /\ r[p] = Colour(sh[m[p]], p))
    BY DEF Refreshsub, Colour
  <2> QED BY <2>1, <2>2, ImageColours
<1>2. r = [p \in Pixels |-> r[p]] BY DEF Refreshsub
<1> QED BY <1>1, <1>2

-----------------------------------------------------------------------------
(* Moving a sheet in the stack *)

\* The sheets that are in the stack look the same.
SameShown == \A t \in Sids : stack.height[t] # -1 =>
                 sheet'[t].vx0 = sheet[t].vx0 /\ sheet'[t].buf = sheet[t].buf

LEMMA SameLook ==
    ASSUME SameShown, NEW t \in Sids, stack.height[t] # -1
    PROVE  /\ Area(sheet'[t]) = Area(sheet[t]) /\ Opaque(sheet'[t]) = Opaque(sheet[t])
           /\ \A p : Colour(sheet'[t], p) = Colour(sheet[t], p)
<1>1. sheet'[t].vx0 = sheet[t].vx0 /\ sheet'[t].buf = sheet[t].buf BY DEF SameShown
<1>2. Area(sheet'[t]) = Area(sheet[t]) BY <1>1 DEF Area
<1>3. Opaque(sheet'[t]) = Opaque(sheet[t]) BY <1>1, <1>2 DEF Opaque
<1> QED BY <1>1, <1>2, <1>3 DEF Colour

\* A repaint is enough if, wherever it does not paint, the sheet that shows is the one
\* that showed before.
LEMMA Repainted ==
    ASSUME Current, NEW st, Sound(st), NEW s \in Sids, NEW h0 \in Nat, NEW h1 \in Int, h1 <= st.top,
           Repaint(st, s, h0, h0, h1), SameShown,
           \A p \in Pixels, t \in Sids :
               /\ OnTop(st, sheet', p, t)
               /\ ~(p \in Area(sheet'[s]) /\ st.height[t] \in h0 .. h1)
               => OnTop(stack, sheet, p, t)
    PROVE  Current'
<1>1. /\ stack' = st
      /\ map' = Refreshmap(st, sheet', map, Area(sheet'[s]), h0)
      /\ vram' = Refreshsub(st, sheet', map', vram, Area(sheet'[s]), h0, h1)
  BY DEF Repaint
<1>2. ASSUME NEW p \in Pixels, NEW t \in Sids, OnTop(stack', sheet', p, t)
      PROVE  map'[p] = t /\ vram'[p] = Colour(sheet'[t], p)
  <2> PICK area : area = Area(sheet'[s]) OBVIOUS
  <2>1. OnTop(st, sheet', p, t) BY <1>1, <1>2
  <2>2. map'[p] = IF p \in area /\ st.height[t] >= h0 THEN t ELSE map[p]
    BY <1>1, <2>1, RefreshmapResult
  <2>3. st.height[t] \in Int BY StackTypes
  <2>4. CASE p \in area /\ st.height[t] \in h0 .. h1
    <3>1. map'[p] = t BY <2>2, <2>3, <2>4
    <3>2. vram'[p] = IF p \in area /\ st.height[t] \in h0 .. h1 THEN Colour(sheet'[t], p) ELSE vram[p]
      BY <1>1, <2>1, <3>1, RefreshsubResult
    <3> QED BY <2>4, <3>1, <3>2
  <2>5. CASE ~(p \in area /\ st.height[t] \in h0 .. h1)
    <3>1. OnTop(stack, sheet, p, t) BY <2>1, <2>5
    <3>2. map[p] = t /\ vram[p] = Colour(sheet[t], p) BY <3>1 DEF Current
    <3>3. map'[p] = t BY <2>2, <3>2
    <3>4. vram'[p] = IF p \in area /\ st.height[t] \in h0 .. h1 THEN Colour(sheet'[t], p) ELSE vram[p]
      BY <1>1, <2>1, <3>3, RefreshsubResult
    <3>5. Colour(sheet'[t], p) = Colour(sheet[t], p) BY <3>1, SameLook DEF OnTop
    <3> QED BY <2>5, <3>2, <3>3, <3>4, <3>5
  <2> QED BY <2>4, <2>5
<1> QED BY <1>2 DEF Current

\* What a sheet that is taken to another place leaves as it was.
LEMMA StillOnTop ==
    ASSUME Sound(stack), SameShown, NEW st, NEW s \in Sids, NEW p \in Pixels, NEW t \in Sids, OnTop(st, sheet', p, t),
           stack.height[t] # -1,
           \A u \in Sids : stack.height[u] > stack.height[t] =>
               st.height[u] > st.height[t] \/ (stack.height[u] # -1 /\ p \notin Area(sheet'[u]))
    PROVE  OnTop(stack, sheet, p, t)
<1>1. p \in Opaque(sheet[t]) BY SameLook DEF OnTop
<1>2. ASSUME NEW u \in Sids, stack.height[u] > stack.height[t] PROVE p \notin Opaque(sheet[u])
  <2>1. CASE st.height[u] > st.height[t] /\ stack.height[u] # -1
    <3>1. p \notin Opaque(sheet'[u]) BY <2>1 DEF OnTop
    <3> QED BY <2>1, <3>1, SameLook
  <2>2. CASE p \notin Area(sheet'[u]) /\ stack.height[u] # -1
    <3>1. p \notin Area(sheet[u]) BY <2>2, SameLook
    <3> QED BY <3>1 DEF Opaque
  <2>3. stack.height[u] # -1 BY <1>2, StackTypes
  <2> QED BY <1>2, <2>1, <2>2, <2>3
<1> QED BY <1>1, <1>2 DEF OnTop

\* What a call to sheet_updown meets, and what it leaves: a sound stack in which no other
\* sheet came or went, and a map and a screen that are up to date.
Meets == Sound(stack) /\ Current /\ SameShown /\ Imaged(sheet')
             /\ map \in [Pixels -> Sids] /\ vram \in [Pixels -> Shades]

\* How many sheets the stack has besides s, and the k-th of them.
Others(st, s) == IF st.height[s] = -1 THEN st.top + 1 ELSE st.top
Other(st, s, k) == IF st.height[s] = -1 \/ k <= st.height[s] THEN st.sheets[k - 1] ELSE st.sheets[k]

SameOthers(st, s) ==
    /\ Others(st, s) = Others(stack, s)
    /\ \A k \in 1 .. Others(stack, s) : Other(st, s, k) = Other(stack, s, k)

Leaves(s, h) ==
    /\ Sound(stack') /\ Current' /\ map' \in [Pixels -> Sids] /\ vram' \in [Pixels -> Shades]
    /\ stack'.height[s] = h
    /\ \A t \in Sids \ {s} : stack'.height[t] = -1 <=> stack.height[t] = -1
    /\ SameOthers(stack', s)

LEMMA RepaintTypes ==
    ASSUME Meets, NEW st, Sound(st), NEW s, NEW h0 \in Nat, NEW h1, Repaint(st, s, h0, h0, h1)
    PROVE  map' \in [Pixels -> Sids] /\ vram' \in [Pixels -> Shades]
<1>1. map' \in [Pixels -> Sids] BY RefreshmapTypes DEF Meets, Repaint
<1>2. vram' \in [Pixels -> Shades] BY <1>1, RefreshsubTypes DEF Meets, Repaint
<1> QED BY <1>1, <1>2

LEMMA LowerLeaves ==
    ASSUME Meets, NEW s \in Sids, NEW h \in Int, Lower(s, h)
    PROVE  Leaves(s, h)
<1> PICK old, height : old = stack.height[s] /\ height = stack.height OBVIOUS
<1>1. old > h /\ h \in Nat BY DEF Lower
<1>2. PICK st : st = Put(Shift((h + 1) .. old, -1), s, h) OBVIOUS
<1>3. Repaint(st, s, h + 1, h + 1, old) BY <1>2 DEF Lower
<1>4. Sound(st) /\ st.top = stack.top
  BY <1>1, <1>2, LowerStack, Zenon DEF Meets
<1>5. \A t \in Sids : st.height[t] =
        IF t = s THEN h ELSE IF h <= height[t] /\ height[t] < old THEN height[t] + 1 ELSE height[t]
  BY <1>1, <1>2, LowerStack DEF Meets
<1>6. /\ \A t \in Sids : height[t] \in Int /\ height[t] >= -1
      /\ old \in 0 .. stack.top
  BY <1>1, StackTypes DEF Meets
<1>7. ASSUME NEW p \in Pixels, NEW t \in Sids, OnTop(st, sheet', p, t),
             ~(p \in Area(sheet'[s]) /\ st.height[t] \in (h + 1) .. old)
      PROVE  OnTop(stack, sheet, p, t)
  <2>1. height[t] # -1 BY <1>1, <1>5, <1>6, <1>7 DEF OnTop
  <2>2. ASSUME NEW u \in Sids, height[u] > height[t]
        PROVE  st.height[u] > st.height[t] \/ (height[u] # -1 /\ p \notin Area(sheet'[u]))
    <3>1. CASE u = s /\ h <= height[t]
      <4>1. st.height[t] = height[t] + 1 /\ st.height[t] \in (h + 1) .. old
        BY <1>1, <1>5, <1>6, <2>2, <3>1
      <4> QED BY <1>6, <1>7, <3>1, <4>1
    <3>2. CASE u = s /\ ~(h <= height[t]) BY <1>1, <1>5, <1>6, <2>2, <3>2
    <3>3. CASE u # s
      <4>1. height[u] \in Int /\ height[t] \in Int /\ old \in Int BY <1>6
      <4>2. st.height[u] = IF h <= height[u] /\ height[u] < old THEN height[u] + 1 ELSE height[u]
        BY <1>5, <3>3
      <4>3. st.height[t] = IF t = s THEN h
              ELSE IF h <= height[t] /\ height[t] < old THEN height[t] + 1 ELSE height[t]
        BY <1>5
      <4>4. height[u] # old
        <5>1. stack.sheets[height[u]] = u /\ stack.sheets[old] = s
          BY <1>1, <1>6, <2>1, <2>2, StackTypes DEF Meets
        <5> QED BY <3>3, <5>1
      <4> QED BY <1>1, <2>2, <4>1, <4>2, <4>3, <4>4
    <3> QED BY <3>1, <3>2, <3>3
  <2> QED BY <1>7, <2>1, <2>2, StillOnTop DEF Meets
<1>8. Current' BY <1>1, <1>3, <1>4, <1>6, <1>7, Repainted DEF Meets
<1>9. map' \in [Pixels -> Sids] /\ vram' \in [Pixels -> Shades]
  BY <1>1, <1>3, <1>4, RepaintTypes
<1>10. stack' = st BY <1>3 DEF Repaint
<1>11. st.height[s] = h /\ \A t \in Sids \ {s} : st.height[t] = -1 <=> height[t] = -1
  BY <1>1, <1>5, <1>6
<1>12. \A k \in 0 .. stack.top : st.sheets[k] =
        IF k = h THEN s ELSE IF h < k /\ k <= old THEN stack.sheets[k - 1] ELSE stack.sheets[k]
  BY <1>1, <1>2, LowerStack DEF Meets
<1>13. SameOthers(st, s)
  <2>1. old # -1 /\ h # -1 /\ st.height[s] = h /\ old \in Int /\ stack.top \in Int
    BY <1>1, <1>6, <1>11, StackTypes, Sizes DEF Meets
  <2>2. ASSUME NEW k \in 1 .. stack.top PROVE Other(st, s, k) = Other(stack, s, k)
    <3>1. Other(stack, s, k) = IF k <= old THEN stack.sheets[k - 1] ELSE stack.sheets[k] BY <2>1 DEF Other
    <3>2. Other(st, s, k) = IF k <= h THEN st.sheets[k - 1] ELSE st.sheets[k] BY <2>1 DEF Other
    <3>3. k - 1 \in 0 .. stack.top /\ k \in 0 .. stack.top BY <2>1
    <3>4. CASE k <= h
      <4>1. st.sheets[k - 1] = stack.sheets[k - 1] BY <1>1, <1>12, <2>1, <3>3, <3>4
      <4> QED BY <1>1, <2>1, <3>1, <3>2, <3>4, <4>1
    <3>5. CASE ~(k <= h) BY <1>1, <1>12, <2>1, <3>1, <3>2, <3>3, <3>5
    <3> QED BY <3>4, <3>5
  <2> QED BY <1>4, <2>1, <2>2 DEF SameOthers, Others
<1> QED BY <1>4, <1>8, <1>9, <1>10, <1>11, <1>13 DEF Leaves

LEMMA RaiseLeaves ==
    ASSUME Meets, NEW s \in Sids, NEW h \in Int, h <= stack.top, Raise(s, h)
    PROVE  Leaves(s, h)
<1> PICK old, height : old = stack.height[s] /\ height = stack.height OBVIOUS
<1>1. 0 <= old /\ old < h /\ h \in 0 .. stack.top
  <2>1. old \in Int /\ stack.top \in Int BY StackTypes, Sizes DEF Meets
  <2> QED BY <2>1 DEF Raise
<1>2. PICK st : st = Put(Shift(old .. (h - 1), 1), s, h) OBVIOUS
<1>3. Repaint(st, s, h, h, h) BY <1>2 DEF Raise
<1>4. Sound(st) /\ st.top = stack.top
  BY <1>1, <1>2, RaiseStack, Zenon DEF Meets
<1>5. \A t \in Sids : st.height[t] =
        IF t = s THEN h ELSE IF old < height[t] /\ height[t] <= h THEN height[t] - 1 ELSE height[t]
  BY <1>1, <1>2, RaiseStack DEF Meets
<1>6. /\ \A t \in Sids : height[t] \in Int /\ height[t] >= -1
      /\ h \in Nat /\ h <= st.top
  BY <1>1, <1>4, StackTypes DEF Meets
<1>7. ASSUME NEW p \in Pixels, NEW t \in Sids, OnTop(st, sheet', p, t),
             ~(p \in Area(sheet'[s]) /\ st.height[t] \in h .. h)
      PROVE  OnTop(stack, sheet, p, t)
  <2>1. height[t] # -1 BY <1>1, <1>5, <1>6, <1>7 DEF OnTop
  <2>2. t # s BY <1>5, <1>6, <1>7 DEF OnTop, Opaque
  <2>3. ASSUME NEW u \in Sids, height[u] > height[t] PROVE st.height[u] > st.height[t]
    <3>1. CASE u = s BY <1>1, <1>5, <1>6, <2>2, <2>3, <3>1
    <3>2. CASE u # s
      <4>1. height[u] \in Int /\ height[t] \in Int /\ old \in Int BY <1>1, <1>6
      <4>2. st.height[u] = IF old < height[u] /\ height[u] <= h THEN height[u] - 1 ELSE height[u]
        BY <1>5, <3>2
      <4>3. st.height[t] = IF old < height[t] /\ height[t] <= h THEN height[t] - 1 ELSE height[t]
        BY <1>5, <2>2
      <4>4. height[t] # old
        <5>1. stack.sheets[height[t]] = t /\ stack.sheets[old] = s BY <1>1, <2>1, StackTypes DEF Meets
        <5> QED BY <2>2, <5>1
      <4>5. height[u] # old
        <5>1. stack.sheets[height[u]] = u /\ stack.sheets[old] = s BY <1>1, <1>6, <2>1, <2>3, StackTypes DEF Meets
        <5> QED BY <3>2, <5>1
      <4> QED BY <1>1, <1>6, <2>3, <4>1, <4>2, <4>3, <4>4, <4>5
    <3> QED BY <3>1, <3>2
  <2> QED BY <1>7, <2>1, <2>3, StillOnTop DEF Meets
<1>8. Current' BY <1>1, <1>3, <1>4, <1>6, <1>7, Repainted DEF Meets
<1>9. map' \in [Pixels -> Sids] /\ vram' \in [Pixels -> Shades]
  BY <1>6, <1>3, <1>4, RepaintTypes
<1>10. stack' = st BY <1>3 DEF Repaint
<1>11. st.height[s] = h /\ \A t \in Sids \ {s} : st.height[t] = -1 <=> height[t] = -1
  BY <1>1, <1>5, <1>6
<1>12. \A k \in 0 .. stack.top : st.sheets[k] =
        IF k = h THEN s ELSE IF old <= k /\ k < h THEN stack.sheets[k + 1] ELSE stack.sheets[k]
  BY <1>1, <1>2, RaiseStack DEF Meets
<1>13. SameOthers(st, s)
  <2>1. old # -1 /\ h # -1 /\ st.height[s] = h /\ old \in Int /\ stack.top \in Int
    BY <1>1, <1>6, <1>11, StackTypes, Sizes DEF Meets
  <2>2. ASSUME NEW k \in 1 .. stack.top PROVE Other(st, s, k) = Other(stack, s, k)
    <3>1. Other(stack, s, k) = IF k <= old THEN stack.sheets[k - 1] ELSE stack.sheets[k] BY <2>1 DEF Other
    <3>2. Other(st, s, k) = IF k <= h THEN st.sheets[k - 1] ELSE st.sheets[k] BY <2>1 DEF Other
    <3>3. k - 1 \in 0 .. stack.top /\ k \in 0 .. stack.top /\ (k - 1) + 1 = k BY <2>1
    <3>4. CASE k <= h
      <4>1. st.sheets[k - 1] = IF old <= k - 1 THEN stack.sheets[k] ELSE stack.sheets[k - 1]
        BY <1>1, <1>12, <2>1, <3>3, <3>4
      <4> QED BY <1>1, <2>1, <3>1, <3>2, <3>4, <4>1
    <3>5. CASE ~(k <= h) BY <1>1, <1>12, <2>1, <3>1, <3>2, <3>3, <3>5
    <3> QED BY <3>4, <3>5
  <2> QED BY <1>4, <2>1, <2>2 DEF SameOthers, Others
<1> QED BY <1>4, <1>8, <1>9, <1>10, <1>11, <1>13 DEF Leaves

LEMMA UnstackLeaves ==
    ASSUME Meets, NEW s \in Sids, stack.height[s] # -1, Unstack(s)
    PROVE  Leaves(s, -1)
<1> PICK old, height : old = stack.height[s] /\ height = stack.height OBVIOUS
<1>1. 0 <= old /\ old \in 0 .. stack.top /\ stack.top \in Int BY StackTypes, Sizes DEF Meets
<1>2. PICK st : st = [Shift(old .. (stack.top - 1), 1) EXCEPT !.height[s] = -1, !.top = @ - 1] OBVIOUS
<1>3. Repaint(st, s, 0, 0, old - 1) BY <1>2 DEF Unstack
<1>4. Sound(st) /\ st.top = stack.top - 1
  BY <1>1, <1>2, UnstackStack, Zenon DEF Meets
<1>5. \A t \in Sids : st.height[t] =
        IF t = s THEN -1 ELSE IF old < height[t] THEN height[t] - 1 ELSE height[t]
  <2>1. \A t \in Sids : st.height[t] =
          IF t = s THEN -1
          ELSE IF stack.height[s] < stack.height[t] THEN stack.height[t] - 1 ELSE stack.height[t]
    BY ZenonT(60), <1>1, <1>2, UnstackStack DEF Meets
  <2> QED BY <2>1
<1>6. /\ \A t \in Sids : height[t] \in Int /\ height[t] >= -1
      /\ old - 1 \in Int /\ old - 1 <= st.top
  BY <1>1, <1>4, StackTypes DEF Meets
<1>7. ASSUME NEW p \in Pixels, NEW t \in Sids, OnTop(st, sheet', p, t),
             ~(p \in Area(sheet'[s]) /\ st.height[t] \in 0 .. (old - 1))
      PROVE  OnTop(stack, sheet, p, t)
  <2>1. t # s /\ height[t] # -1 BY <1>1, <1>5, <1>6, <1>7 DEF OnTop
  <2>2. ASSUME NEW u \in Sids, height[u] > height[t]
        PROVE  st.height[u] > st.height[t] \/ (height[u] # -1 /\ p \notin Area(sheet'[u]))
    <3>1. CASE u = s
      <4>1. st.height[t] \in 0 .. (old - 1) BY <1>1, <1>5, <1>6, <2>1, <2>2, <3>1
      <4> QED BY <1>1, <1>7, <3>1, <4>1
    <3>2. CASE u # s
      <4>1. height[u] \in Int /\ height[t] \in Int /\ old \in Int BY <1>1, <1>6
      <4>2. st.height[u] = IF old < height[u] THEN height[u] - 1 ELSE height[u] BY <1>5, <3>2
      <4>3. st.height[t] = IF old < height[t] THEN height[t] - 1 ELSE height[t] BY <1>5, <2>1
      <4>4. height[t] # old
        <5>1. stack.sheets[height[t]] = t /\ stack.sheets[old] = s BY <1>1, <2>1, StackTypes DEF Meets
        <5> QED BY <2>1, <5>1
      <4> QED BY <1>1, <2>2, <4>1, <4>2, <4>3, <4>4
    <3> QED BY <3>1, <3>2
  <2> QED BY <1>7, <2>1, <2>2, StillOnTop DEF Meets
<1>8. Current' BY <1>1, <1>3, <1>4, <1>6, <1>7, Repainted DEF Meets
<1>9. map' \in [Pixels -> Sids] /\ vram' \in [Pixels -> Shades]
  BY <1>3, <1>4, RepaintTypes
<1>10. stack' = st BY <1>3 DEF Repaint
<1>11. st.height[s] = -1 /\ \A t \in Sids \ {s} : st.height[t] = -1 <=> height[t] = -1
  BY <1>1, <1>5, <1>6
<1>12. \A k \in 0 .. (stack.top - 1) : st.sheets[k] =
        IF old <= k THEN stack.sheets[k + 1] ELSE stack.sheets[k]
  <2>1. \A k \in 0 .. (stack.top - 1) : st.sheets[k] =
          IF stack.height[s] <= k THEN stack.sheets[k + 1] ELSE stack.sheets[k]
    BY <1>1, <1>2, UnstackStack, Zenon DEF Meets
  <2> QED BY <2>1
<1>13. SameOthers(st, s)
  <2>1. old # -1 /\ st.height[s] = -1 /\ old \in Int /\ stack.top \in Int BY <1>1, <1>11
  <2>2. ASSUME NEW k \in 1 .. stack.top PROVE Other(st, s, k) = Other(stack, s, k)
    <3>1. Other(stack, s, k) = IF k <= old THEN stack.sheets[k - 1] ELSE stack.sheets[k] BY <2>1 DEF Other
    <3>2. Other(st, s, k) = st.sheets[k - 1] BY <2>1 DEF Other
    <3>3. k - 1 \in 0 .. (stack.top - 1) /\ (k - 1) + 1 = k BY <2>1
    <3> QED BY <1>12, <2>1, <3>1, <3>2, <3>3
  <2>3. (stack.top - 1) + 1 = stack.top BY <2>1
  <2> QED BY <1>4, <2>1, <2>2, <2>3 DEF SameOthers, Others
<1> QED BY <1>4, <1>8, <1>9, <1>10, <1>11, <1>13 DEF Leaves

LEMMA ShowLeaves ==
    ASSUME Meets, NEW s \in Sids, NEW h \in Int, h <= stack.top + 1, Show(s, h)
    PROVE  Leaves(s, h) /\ stack'.top = stack.top + 1
<1> PICK height : height = stack.height OBVIOUS
<1>1. height[s] = -1 /\ h \in 0 .. (stack.top + 1)
  <2>1. stack.top \in Int BY StackTypes, Sizes DEF Meets
  <2> QED BY <2>1 DEF Show
<1>2. PICK st : st = [Put(Shift((h + 1) .. (stack.top + 1), -1), s, h) EXCEPT !.top = @ + 1] OBVIOUS
<1>3. Repaint(st, s, h, h, h) BY <1>2 DEF Show
<1>4. Sound(st) /\ st.top = stack.top + 1
  BY <1>1, <1>2, ShowStack, Zenon DEF Meets
<1>5. \A t \in Sids : st.height[t] =
        IF t = s THEN h ELSE IF h <= height[t] THEN height[t] + 1 ELSE height[t]
  BY <1>1, <1>2, ShowStack DEF Meets
<1>6. /\ \A t \in Sids : height[t] \in Int /\ height[t] >= -1
      /\ h \in Nat /\ h <= st.top
  BY <1>1, <1>4, StackTypes DEF Meets
<1>7. ASSUME NEW p \in Pixels, NEW t \in Sids, OnTop(st, sheet', p, t),
             ~(p \in Area(sheet'[s]) /\ st.height[t] \in h .. h)
      PROVE  OnTop(stack, sheet, p, t)
  <2>1. t # s BY <1>5, <1>6, <1>7 DEF OnTop, Opaque
  <2>2. height[t] # -1 BY <1>1, <1>5, <1>6, <1>7, <2>1 DEF OnTop
  <2>3. ASSUME NEW u \in Sids, height[u] > height[t] PROVE st.height[u] > st.height[t]
    <3>1. u # s BY <1>1, <1>6, <2>2, <2>3
    <3> QED BY <1>1, <1>5, <1>6, <2>1, <2>3, <3>1
  <2> QED BY <1>7, <2>2, <2>3, StillOnTop DEF Meets
<1>8. Current' BY <1>1, <1>3, <1>4, <1>6, <1>7, Repainted DEF Meets
<1>9. map' \in [Pixels -> Sids] /\ vram' \in [Pixels -> Shades]
  BY <1>6, <1>3, <1>4, RepaintTypes
<1>10. stack' = st BY <1>3 DEF Repaint
<1>11. st.height[s] = h /\ \A t \in Sids \ {s} : st.height[t] = -1 <=> height[t] = -1
  BY <1>1, <1>5, <1>6
<1>12. \A k \in 0 .. (stack.top + 1) : st.sheets[k] =
        IF k = h THEN s ELSE IF h < k THEN stack.sheets[k - 1] ELSE stack.sheets[k]
  BY <1>1, <1>2, ShowStack DEF Meets
<1>13. SameOthers(st, s)
  <2>1. stack.height[s] = -1 /\ st.height[s] = h /\ h # -1 /\ h \in Int /\ stack.top \in Int
    BY <1>1, <1>6, <1>11, StackTypes, Sizes DEF Meets
  <2>2. ASSUME NEW k \in 1 .. (stack.top + 1) PROVE Other(st, s, k) = Other(stack, s, k)
    <3>1. Other(stack, s, k) = stack.sheets[k - 1] BY <2>1 DEF Other
    <3>2. Other(st, s, k) = IF k <= h THEN st.sheets[k - 1] ELSE st.sheets[k] BY <2>1 DEF Other
    <3>3. k - 1 \in 0 .. (stack.top + 1) /\ k \in 0 .. (stack.top + 1) BY <2>1
    <3>4. CASE k <= h
      <4>1. st.sheets[k - 1] = stack.sheets[k - 1] BY <1>12, <2>1, <3>3, <3>4
      <4> QED BY <3>1, <3>2, <3>4, <4>1
    <3>5. CASE ~(k <= h)
      <4>1. st.sheets[k] = stack.sheets[k - 1] BY <1>12, <2>1, <3>3, <3>5
      <4> QED BY <3>1, <3>2, <3>5, <4>1
    <3> QED BY <3>4, <3>5
  <2> QED BY <1>4, <2>1, <2>2 DEF SameOthers, Others
<1> QED BY <1>4, <1>8, <1>9, <1>10, <1>11, <1>13 DEF Leaves

LEMMA NothingLeaves ==
    ASSUME Meets, NEW s \in Sids, UNCHANGED <<stack, map, vram>>
    PROVE  Leaves(s, stack.height[s])
<1>1. ASSUME NEW p \in Pixels, NEW t \in Sids, OnTop(stack', sheet', p, t)
      PROVE  map'[p] = t /\ vram'[p] = Colour(sheet'[t], p)
  <2>1. OnTop(stack, sheet', p, t) /\ stack.height[t] # -1 BY <1>1 DEF OnTop
  <2>2. OnTop(stack, sheet, p, t) BY <2>1, StillOnTop DEF Meets
  <2>3. map[p] = t /\ vram[p] = Colour(sheet[t], p) BY <2>2 DEF Meets, Current
  <2>4. Colour(sheet'[t], p) = Colour(sheet[t], p) BY <2>1, SameLook DEF Meets
  <2> QED BY <2>3, <2>4
<1>2. Current' BY <1>1 DEF Current
<1> QED BY <1>2 DEF Leaves, Meets, SameOthers

\* sheet_updown puts the sheet where it should be; it is not asked to take a sheet that is
\* in the stack above its top, which it could not.
LEMMA UpdownLeaves ==
    ASSUME Meets, NEW s \in Sids, NEW height \in Int, SheetUpdown(s, height),
           stack.height[s] = -1 \/ height <= stack.top
    PROVE  /\ Leaves(s, Clipped(height))
           /\ stack.height[s] = -1 /\ Clipped(height) # -1 => stack'.top = stack.top + 1
<1> PICK h : h = Clipped(height) OBVIOUS
<1>1. /\ stack.top \in Int /\ stack.top >= -1 /\ stack.height[s] \in Int /\ stack.height[s] >= -1
  BY StackTypes, Sizes DEF Meets
<1>2. h \in Int /\ h >= -1 /\ h <= stack.top + 1 /\ (height <= stack.top => h <= stack.top)
  BY <1>1 DEF Clipped
<1>3. CASE Lower(s, h) BY <1>1, <1>2, <1>3, LowerLeaves DEF Lower
<1>4. CASE Hide(s, h) BY <1>1, <1>2, <1>4, UnstackLeaves DEF Hide
<1>5. CASE Raise(s, h)
  <2>1. stack.height[s] # -1 BY <1>5 DEF Raise
  <2> QED BY <1>1, <1>2, <1>5, <2>1, RaiseLeaves
<1>6. CASE Show(s, h) BY <1>1, <1>2, <1>6, ShowLeaves
<1>7. CASE stack.height[s] = h /\ UNCHANGED <<stack, map, vram>>
  BY <1>7, NothingLeaves
<1> QED BY <1>3, <1>4, <1>5, <1>6, <1>7 DEF SheetUpdown

\* sheet_slide repaints what the sheet leaves, from the bottom, and what it now covers,
\* from itself on.
LEMMA SlideCurrent ==
    ASSUME Sound(stack), Current, sheet \in [Sids -> [used : BOOLEAN, vx0 : Int, buf : Images]],
           NEW s \in Sids, NEW x \in Int, SheetSlide(s, x)
    PROVE  Current'
<1> PICK h, old, new : h = stack.height[s] /\ old = Area(sheet[s]) /\ new = Area(sheet'[s]) OBVIOUS
<1>1. stack' = stack /\ \A t \in Sids : stack.height[t] \in Int /\ stack.height[t] >= -1
  BY StackTypes DEF SheetSlide
<1>2. ASSUME NEW t \in Sids, t # s PROVE sheet'[t] = sheet[t]
  BY <1>2 DEF SheetSlide
<1>3. ASSUME NEW p \in Pixels, NEW t \in Sids, OnTop(stack, sheet', p, t), t # s,
             h < stack.height[t] \/ p \notin old
      PROVE  /\ map[p] = t /\ vram[p] = Colour(sheet'[t], p)
  <2>1. OnTop(stack, sheet, p, t)
    <3>1. stack.height[t] # -1 /\ p \in Opaque(sheet[t]) BY <1>2, <1>3 DEF OnTop
    <3>2. ASSUME NEW u \in Sids, stack.height[u] > stack.height[t] PROVE p \notin Opaque(sheet[u])
      <4>1. CASE u = s BY <1>1, <1>3, <3>2, <4>1 DEF Opaque
      <4>2. CASE u # s BY <1>2, <1>3, <3>2, <4>2 DEF OnTop
      <4> QED BY <4>1, <4>2
    <3> QED BY <3>1, <3>2 DEF OnTop
  <2> QED BY <1>2, <1>3, <2>1 DEF Current
<1>4. CASE h = -1
  <2>1. map' = map /\ vram' = vram BY <1>4 DEF SheetSlide
  <2>2. ASSUME NEW p \in Pixels, NEW t \in Sids, OnTop(stack, sheet', p, t)
        PROVE  map[p] = t /\ vram[p] = Colour(sheet'[t], p)
    <3>1. stack.height[t] # -1 BY <2>2 DEF OnTop
    <3>2. t # s BY <1>4, <3>1
    <3>3. h < stack.height[t] BY <1>1, <1>4, <3>1
    <3> QED BY <1>3, <2>2, <3>2, <3>3
  <2> QED BY <1>1, <2>1, <2>2 DEF Current
<1>5. CASE h # -1
  <2>1. PICK map1, vram1 :
          /\ map1 = Refreshmap(stack, sheet', map, old, 0)
          /\ map' = Refreshmap(stack, sheet', map1, new, h)
          /\ vram1 = Refreshsub(stack, sheet', map', vram, old, 0, h - 1)
          /\ vram' = Refreshsub(stack, sheet', map', vram1, new, h, h)
    BY <1>5 DEF SheetSlide
  <2>2. h \in 0 .. stack.top /\ stack.top \in Int /\ h \in Nat /\ h - 1 \in Int
        /\ h - 1 <= stack.top /\ h <= stack.top
    BY <1>5, StackTypes, Sizes
  <2>3. ASSUME NEW p \in Pixels, NEW t \in Sids, OnTop(stack, sheet', p, t)
        PROVE  map'[p] = t /\ vram'[p] = Colour(sheet'[t], p)
    <3>1. stack.height[t] \in 0 .. stack.top BY <2>3, StackTypes DEF OnTop
    <3>2. map1[p] = IF p \in old /\ stack.height[t] >= 0 THEN t ELSE map[p]
      BY <2>1, <2>3, RefreshmapResult
    <3>3. map'[p] = IF p \in new /\ stack.height[t] >= h THEN t ELSE map1[p]
      BY <2>1, <2>2, <2>3, RefreshmapResult
    <3>4. map'[p] = t => vram1[p] =
            IF p \in old /\ stack.height[t] \in 0 .. (h - 1) THEN Colour(sheet'[t], p) ELSE vram[p]
      BY <2>1, <2>2, <2>3, RefreshsubResult
    <3>5. map'[p] = t => vram'[p] =
            IF p \in new /\ stack.height[t] = h THEN Colour(sheet'[t], p) ELSE vram1[p]
      BY <2>1, <2>2, <2>3, RefreshsubOne
    <3>6. CASE t = s
      <4>1. p \in new BY <2>3, <3>6 DEF OnTop, Opaque
      <4> QED BY <1>1, <3>1, <3>3, <3>5, <3>6, <4>1
    <3>7. CASE t # s /\ (h < stack.height[t] \/ p \notin old)
      <4>1. map[p] = t /\ vram[p] = Colour(sheet'[t], p) BY <1>3, <2>3, <3>7
      <4>2. map'[p] = t BY <3>2, <3>3, <4>1
      <4> QED BY <3>4, <3>5, <4>1, <4>2
    <3>8. CASE t # s /\ ~(h < stack.height[t]) /\ p \in old
      <4>1. stack.height[t] # h
        <5>1. stack.sheets[stack.height[t]] = t /\ stack.sheets[h] = s BY <1>5, <2>3, StackTypes DEF OnTop
        <5> QED BY <3>8, <5>1
      <4>2. stack.height[t] \in 0 .. (h - 1) BY <1>1, <2>2, <3>1, <3>8, <4>1
      <4>3. map'[p] = t BY <3>1, <3>2, <3>3, <3>8
      <4>4. vram1[p] = Colour(sheet'[t], p) BY <3>4, <3>8, <4>2, <4>3
      <4> QED BY <3>5, <4>3, <4>4
    <3> QED BY <3>6, <3>7, <3>8
  <2> QED BY <1>1, <2>3 DEF Current
<1> QED BY <1>4, <1>5

\* sheet_refresh after drawing, which makes no pixel transparent and none opaque.
Drawn(s, x, color) ==
    /\ x \in DOMAIN sheet[s].buf /\ sheet[s].buf[x] # CLEAR
    /\ sheet' = [sheet EXCEPT ![s].buf[x] = color]

LEMMA DrawCurrent ==
    ASSUME Sound(stack), Current, Imaged(sheet), NEW s \in Sids, NEW x \in Int, NEW color \in Nat,
           Drawn(s, x, color), SheetRefresh(s, x)
    PROVE  Current'
<1> PICK h, b, x0 : h = stack.height[s] /\ b = sheet[s].buf /\ x0 = sheet[s].vx0 OBVIOUS
<1>1. /\ \A t \in Sids \ {s} : sheet'[t] = sheet[t]
      /\ sheet'[s].vx0 = x0 /\ sheet'[s].buf = [b EXCEPT ![x] = color]
      /\ stack' = stack /\ map' = map /\ x0 \in Int
  BY DEF Imaged, SheetRefresh, Drawn
<1>2. Area(sheet'[s]) = Area(sheet[s])
  <2>1. DOMAIN sheet'[s].buf = DOMAIN b BY <1>1
  <2> QED BY <1>1, <2>1 DEF Area
<1>3. ASSUME NEW p \in Area(sheet[s])
      PROVE  sheet'[s].buf[p - x0] = IF p - x0 = x THEN color ELSE b[p - x0]
  <2>1. p - x0 \in DOMAIN b BY DEF Area
  <2> QED BY <1>1, <2>1
<1>4. Opaque(sheet'[s]) = Opaque(sheet[s])
  <2>1. color # CLEAR /\ b[x] # CLEAR BY DEF CLEAR, Drawn
  <2>2. ASSUME NEW p \in Area(sheet[s]) PROVE sheet'[s].buf[p - x0] # CLEAR <=> b[p - x0] # CLEAR
    BY <1>3, <2>1
  <2> QED BY <1>1, <1>2, <2>2 DEF Opaque
<1>5. ASSUME NEW p \in Pixels, NEW t \in Sids, OnTop(stack, sheet', p, t)
      PROVE  map'[p] = t /\ vram'[p] = Colour(sheet'[t], p)
  <2>1. OnTop(stack, sheet, p, t)
    <3>1. \A u \in Sids : Opaque(sheet'[u]) = Opaque(sheet[u]) BY <1>1, <1>4
    <3> QED BY <1>5, <3>1 DEF OnTop
  <2>2. map'[p] = t /\ map[p] = t /\ vram[p] = Colour(sheet[t], p) BY <1>1, <2>1 DEF Current
  <2>3. CASE h = -1
    <3>1. t # s BY <2>1, <2>3 DEF OnTop
    <3>2. vram' = vram BY <2>3 DEF SheetRefresh
    <3> QED BY <1>1, <2>2, <3>1, <3>2
  <2>4. CASE h # -1
    <3>1. h \in 0 .. stack.top /\ stack.top \in Int /\ stack.height[t] \in 0 .. stack.top
      BY <2>1, <2>4, StackTypes, Sizes DEF OnTop
    <3>2. vram' = Refreshsub(stack, sheet', map, vram, {sheet'[s].vx0 + x}, h, h)
      BY <2>4 DEF SheetRefresh
    <3>3. vram'[p] = IF p \in {sheet'[s].vx0 + x} /\ stack.height[t] = h
                     THEN Colour(sheet'[t], p) ELSE vram[p]
      <4> PICK area : area = {sheet'[s].vx0 + x} OBVIOUS
      <4>1. h \in Nat /\ h <= stack.top BY <3>1
      <4> PICK sh : sh = sheet' OBVIOUS
      <4>2. OnTop(stack, sh, p, t) BY <1>5
      <4>3. map[p] = t BY <2>2
      <4>4. Refreshsub(stack, sh, map, vram, area, h, h)[p] =
              IF p \in area /\ stack.height[t] = h THEN Colour(sh[t], p) ELSE vram[p]
        BY <4>1, <4>2, <4>3, RefreshsubOne
      <4> QED BY <3>2, <4>4
    <3>4. CASE t = s
      <4>1. p \in Area(sheet[s]) /\ p \in Int BY <2>1, <3>4, Sizes DEF OnTop, Opaque
      <4>2. Colour(sheet'[t], p) = IF p - x0 = x THEN color ELSE Colour(sheet[t], p)
        BY <1>1, <1>3, <3>4, <4>1 DEF Colour
      <4>3. CASE p - x0 = x
        <5>1. p = sheet'[s].vx0 + x BY <1>1, <4>1, <4>3
        <5> QED BY <2>2, <3>1, <3>3, <3>4, <5>1
      <4>4. CASE p - x0 # x BY <2>2, <3>3, <4>2, <4>4
      <4> QED BY <4>3, <4>4
    <3>5. CASE t # s
      <4>1. sheet'[t] = sheet[t] BY <1>1, <3>5
      <4> QED BY <2>2, <3>3, <4>1
    <3> QED BY <3>4, <3>5
  <2> QED BY <2>3, <2>4
<1>6. \A p \in Pixels, t \in Sids : OnTop(stack', sheet', p, t) =>
        map'[p] = t /\ vram'[p] = Colour(sheet'[t], p)
  BY <1>1, <1>5
<1> QED BY <1>6 DEF Current

-----------------------------------------------------------------------------
(* The steps *)

\* Images are among those TypeOK knows.
LEMMA KnownImages ==
    /\ [x \in Pixels |-> 0] \in Images /\ MouseImage \in Images /\ NO_IMAGE \in Images
    /\ Painted \subseteq Images
    /\ WindowImages \subseteq Painted
<1>1. ASSUME NEW image \in WindowImages PROVE image \in Painted
  <2>1. image \in [DOMAIN image -> Int] BY SheetAssumption
  <2>2. \A x \in DOMAIN image : image[x] \in Paints(image) BY DEF Paints
  <2>3. image \in [DOMAIN image -> Paints(image)] BY <2>1, <2>2
  <2> QED BY <2>3 DEF Painted
<1>2. [x \in Pixels |-> 0] \in [Pixels -> {0}] OBVIOUS
<1> QED BY <1>1, <1>2 DEF Images, Painted

\* One sheet gets another place or another image.
LEMMA Reimaged ==
    ASSUME NEW sh, Imaged(sh), NEW sh2, sh2 = [t \in Sids |-> sh2[t]], NEW s \in Windows,
           \A t \in Sids \ {s} : sh2[t] = sh[t],
           NEW u \in BOOLEAN, NEW v \in Int, NEW b \in Painted \cup {NO_IMAGE},
           sh2[s] = [used |-> u, vx0 |-> v, buf |-> b]
    PROVE  Imaged(sh2)
<1> PICK R : R = [used : BOOLEAN, vx0 : Int, buf : Images] OBVIOUS
<1>1. b \in Images /\ s \in Sids /\ s \notin {SHT_BACK, SHT_MOUSE} BY KnownImages DEF Windows
<1>2. sh2[s] \in R BY <1>1
<1>3. \A t \in Sids \ {s} : sh2[t] \in R BY DEF Imaged
<1>4. sh2 \in [Sids -> R] BY <1>2, <1>3
<1>5. sh2[s].buf = b OBVIOUS
<1>6. \A t \in Windows : sh2[t].buf \in Painted \cup {NO_IMAGE} BY <1>5 DEF Imaged, Windows
<1>7. sh2[SHT_BACK] = sh[SHT_BACK] /\ sh2[SHT_MOUSE] = sh[SHT_MOUSE] BY <1>1, Sizes
<1> QED BY <1>4, <1>6, <1>7 DEF Imaged

LEMMA SheetRecord ==
    ASSUME NEW u \in BOOLEAN, NEW v \in Int, NEW b \in Images
    PROVE  [used |-> u, vx0 |-> v, buf |-> b] \in [used : BOOLEAN, vx0 : Int, buf : Images]
OBVIOUS

LEMMA InitInv == Init => IInv
<1> SUFFICES ASSUME Init PROVE IInv OBVIOUS
<1>1. stack = [top |-> -1, sheets |-> [h \in Sids |-> SHT_BACK], height |-> [s \in Sids |-> -1]]
  BY DEF Init
<1>2. PICK image \in WindowImages, w, m \in Pixels :
        sheet = [s \in Sids |->
                 CASE s = SHT_BACK -> [used |-> TRUE, vx0 |-> 0, buf |-> [x \in Pixels |-> 0]]
                   [] s = CONSOLE -> [used |-> TRUE, vx0 |-> w, buf |-> image]
                   [] s = SHT_MOUSE -> [used |-> TRUE, vx0 |-> m, buf |-> MouseImage]
                   [] OTHER -> [used |-> FALSE, vx0 |-> 0, buf |-> NO_IMAGE]]
  BY DEF Init
<1>3. Sound(stack)
  <2>1. stack \in Stacks BY <1>1, Sizes DEF Stacks
  <2> QED BY <1>1, <2>1 DEF Sound
<1> PICK back : back = [x \in Pixels |-> 0] OBVIOUS
<1>4. /\ sheet[SHT_BACK] = [used |-> TRUE, vx0 |-> 0, buf |-> back]
      /\ sheet[CONSOLE] = [used |-> TRUE, vx0 |-> w, buf |-> image]
      /\ sheet[SHT_MOUSE] = [used |-> TRUE, vx0 |-> m, buf |-> MouseImage]
      /\ \A s \in Sids \ {SHT_BACK, CONSOLE, SHT_MOUSE} :
            sheet[s] = [used |-> FALSE, vx0 |-> 0, buf |-> NO_IMAGE]
      /\ sheet = [s \in Sids |-> sheet[s]]
  BY <1>2, Sizes
<1>5. Imaged(sheet)
  <2>0. TRUE \in BOOLEAN /\ FALSE \in BOOLEAN /\ 0 \in Int OBVIOUS
  <2>1. back \in Images /\ MouseImage \in Images /\ NO_IMAGE \in Images /\ image \in Images /\ image \in Painted
    BY KnownImages
  <2>2. w \in Int /\ m \in Int BY Sizes
  <2>3. ASSUME NEW s \in Sids PROVE sheet[s] \in [used : BOOLEAN, vx0 : Int, buf : Images]
    <3>1. CASE s = SHT_BACK
      <4>1. sheet[s] = [used |-> TRUE, vx0 |-> 0, buf |-> back] BY <1>4, <3>1
      <4> QED BY <2>0, <2>1, <2>2, <4>1, SheetRecord
    <3>2. CASE s = CONSOLE
      <4>1. sheet[s] = [used |-> TRUE, vx0 |-> w, buf |-> image] BY <1>4, <3>2
      <4> QED BY <2>0, <2>1, <2>2, <4>1, SheetRecord
    <3>3. CASE s = SHT_MOUSE
      <4>1. sheet[s] = [used |-> TRUE, vx0 |-> m, buf |-> MouseImage] BY <1>4, <3>3
      <4> QED BY <2>0, <2>1, <2>2, <4>1, SheetRecord
    <3>4. CASE s \notin {SHT_BACK, CONSOLE, SHT_MOUSE}
      <4>1. sheet[s] = [used |-> FALSE, vx0 |-> 0, buf |-> NO_IMAGE] BY <1>4, <3>4
      <4> QED BY <2>0, <2>1, <2>2, <4>1, SheetRecord
    <3> QED BY <3>1, <3>2, <3>3, <3>4
  <2>4. \A s \in Windows : sheet[s].buf \in Painted \cup {NO_IMAGE} BY <1>4, <2>1, Sizes DEF Windows
  <2>5. sheet \in [Sids -> [used : BOOLEAN, vx0 : Int, buf : Images]] BY <1>4, <2>3
  <2> QED BY <1>4, <2>4, <2>5 DEF Imaged
<1>6. Types
  <2>1. map \in [Pixels -> Sids] /\ vram \in [Pixels -> Shades] /\ booted = 0
    BY Sizes DEF Init, Shades
  <2> QED BY <1>5, <2>1 DEF Types
<1>7. booted = 0 BY DEF Init
<1>8. Started BY <1>1, <1>4, <1>7, Sizes DEF Started
<1>9. Kept /\ Current BY <1>1 DEF Kept, Current, OnTop
<1> QED BY <1>3, <1>6, <1>8, <1>9 DEF IInv

LEMMA InvMeets ==
    ASSUME IInv, SameShown, Imaged(sheet')
    PROVE  Meets
BY DEF IInv, Types, Meets

\* When HariMain is done, the mouse is above the background, and both are there to stay.
LEMMA ReadyStack ==
    ASSUME IInv, Ready
    PROVE  /\ booted = 3 /\ booted' = 3
           /\ stack.top \in Int /\ stack.top >= 1
           /\ stack.height[SHT_BACK] # -1 /\ stack.height[SHT_MOUSE] # -1
           /\ sheet[SHT_BACK].used /\ sheet[SHT_MOUSE].used
<1>1. booted = 3 /\ booted' = 3 BY DEF IInv, Types, Ready, SHT_MOUSE
<1>2. stack.height[SHT_BACK] # -1 /\ stack.height[SHT_MOUSE] # -1 BY <1>1 DEF IInv, Started
<1>3. /\ stack.height[SHT_BACK] \in 0 .. stack.top /\ stack.sheets[stack.height[SHT_BACK]] = SHT_BACK
      /\ stack.height[SHT_MOUSE] \in 0 .. stack.top /\ stack.sheets[stack.height[SHT_MOUSE]] = SHT_MOUSE
      /\ stack.top \in Int
  BY <1>2, StackTypes, Sizes DEF IInv
<1>4. stack.height[SHT_BACK] # stack.height[SHT_MOUSE] BY <1>3, Sizes
<1>5. stack.top >= 1 BY <1>3, <1>4
<1> QED BY <1>1, <1>2, <1>3, <1>5, Sizes DEF IInv, Kept

LEMMA UpdownInv ==
    ASSUME IInv, Ready, NEW s \in Sids, NEW h, Leaves(s, h), Imaged(sheet'),
           s \in {SHT_BACK, SHT_MOUSE} => h # -1,
           \A t \in Sids \ {s} : sheet'[t].used = sheet[t].used,
           h # -1 => sheet'[s].used
    PROVE  IInv'
<1>1. booted = 3 /\ booted' = 3 /\ stack.height[SHT_BACK] # -1 /\ stack.height[SHT_MOUSE] # -1
  BY ReadyStack
<1>2. Sound(stack') /\ Current' BY DEF Leaves
<1>3. Types' BY <1>1 DEF Leaves, Types
<1>4. Started'
  <2>1. stack'.height[SHT_BACK] # -1 /\ stack'.height[SHT_MOUSE] # -1
    BY <1>1, Sizes DEF Leaves
  <2> QED BY <1>1, <2>1 DEF Started
<1>5. Kept' BY DEF IInv, Kept, Leaves
<1> QED BY <1>2, <1>3, <1>4, <1>5 DEF IInv

\* The stack stays as it is.
LEMMA StillInv ==
    ASSUME IInv, Ready, UNCHANGED stack, Imaged(sheet'), Current',
           map' \in [Pixels -> Sids], vram' \in [Pixels -> Shades],
           \A t \in Sids : sheet'[t].used = sheet[t].used
    PROVE  IInv'
<1>1. booted = 3 /\ booted' = 3 /\ stack.height[SHT_BACK] # -1 /\ stack.height[SHT_MOUSE] # -1
  BY ReadyStack
<1>2. Types' BY <1>1 DEF Types
<1>3. Started' BY <1>1 DEF Started
<1>4. Kept' BY DEF IInv, Kept
<1> QED BY <1>2, <1>3, <1>4 DEF IInv

\* What a step may do to what can be seen: one sheet is changed or moved.
Step(s) ==
    /\ stack' = stack \/ SameOthers(stack', s)
    /\ \A t \in Sids \ {s} : sheet'[t].vx0 = sheet[t].vx0 /\ sheet'[t].buf = sheet[t].buf

LEMMA BootInv == IInv /\ Boot => IInv' /\ \E s \in Sids : Step(s)
<1> SUFFICES ASSUME IInv, Boot PROVE IInv' /\ \E s \in Sids : Step(s) OBVIOUS
<1> PICK s : s = booted OBVIOUS
<1>1. /\ s \in 0 .. 2 /\ s \in Sids /\ s < 3 /\ sheet' = sheet /\ SheetUpdown(s, s) /\ booted' = s + 1
  BY Sizes DEF IInv, Types, Boot, SHT_MOUSE
<1>2. /\ stack.top = s - 1 /\ \A t \in Sids : stack.height[t] # -1 <=> t < s
      /\ \A t \in {SHT_BACK, CONSOLE, SHT_MOUSE} : sheet[t].used
  BY <1>1 DEF IInv, Started
<1>3. stack.height[s] = -1 BY <1>1, <1>2
<1>4. Clipped(s) = s BY <1>1, <1>2 DEF Clipped
<1>5. Meets BY <1>1, InvMeets DEF IInv, Types, SameShown
<1>6. Leaves(s, s) /\ stack'.top = stack.top + 1
  <2>1. s \in Int /\ s # -1 BY <1>1
  <2> QED BY <1>1, <1>3, <1>4, <1>5, <2>1, UpdownLeaves
<1>7. Sound(stack') /\ Current' BY <1>6 DEF Leaves
<1>8. Types' BY <1>1, <1>6 DEF Leaves, IInv, Types
<1>9. \A t \in Sids : stack'.height[t] # -1 <=> t < s + 1
  <2>1. stack'.height[s] = s /\ s # -1 BY <1>1, <1>6 DEF Leaves
  <2>2. ASSUME NEW t \in Sids, t # s PROVE stack'.height[t] # -1 <=> t < s + 1
    <3>1. stack'.height[t] = -1 <=> stack.height[t] = -1 BY <1>6, <2>2 DEF Leaves
    <3>2. t \in Int BY Sizes
    <3> QED BY <1>1, <1>2, <2>2, <3>1, <3>2
  <2> QED BY <1>1, <2>1, <2>2
<1>10. Started'
  <2>1. stack'.top = (s + 1) - 1 BY <1>1, <1>2, <1>6
  <2>2. s + 1 = 3 => stack'.height[SHT_BACK] # -1 /\ stack'.height[SHT_MOUSE] # -1 BY <1>1, <1>9, Sizes
  <2> QED BY <1>1, <1>2, <1>9, <2>1, <2>2 DEF Started
<1>11. Kept'
  <2>1. ASSUME NEW t \in Sids, stack'.height[t] # -1 PROVE sheet'[t].used
    <3>1. t < s + 1 /\ t \in Int /\ t >= 0 BY <1>9, <2>1, Sizes
    <3>2. t \in {SHT_BACK, CONSOLE, SHT_MOUSE} BY <1>1, <3>1, Sizes
    <3> QED BY <1>1, <1>2, <3>2
  <2> QED BY <2>1 DEF Kept
<1>12. Step(s) BY <1>1, <1>6 DEF Step, Leaves
<1> QED BY <1>1, <1>7, <1>8, <1>10, <1>11, <1>12 DEF IInv

LEMMA SlideInv ==
    ASSUME IInv, Ready, NEW s \in Sids, NEW x \in Int, SheetSlide(s, x)
    PROVE  IInv' /\ Step(s)
<1>1. sheet' = [sheet EXCEPT ![s].vx0 = x] /\ stack' = stack BY DEF SheetSlide
<1>2. Imaged(sheet) /\ map \in [Pixels -> Sids] /\ vram \in [Pixels -> Shades] /\ Sound(stack) /\ Current
  BY DEF IInv, Types
<1>3. Imaged(sheet') BY <1>1, <1>2 DEF Imaged
<1>4. Current' BY <1>2, SlideCurrent DEF Imaged
<1>5. map' \in [Pixels -> Sids] /\ vram' \in [Pixels -> Shades]
  <2>1. CASE stack.height[s] = -1 BY <1>2, <2>1 DEF SheetSlide
  <2>2. CASE stack.height[s] # -1
    <3>1. PICK map1, vram1, h, old, new :
            /\ h = stack.height[s]
            /\ map1 = Refreshmap(stack, sheet', map, old, 0)
            /\ map' = Refreshmap(stack, sheet', map1, new, h)
            /\ vram1 = Refreshsub(stack, sheet', map', vram, old, 0, h - 1)
            /\ vram' = Refreshsub(stack, sheet', map', vram1, new, h, h)
      BY <2>2 DEF SheetSlide
    <3>2. h \in Nat BY <1>2, <2>2, <3>1, StackTypes
    <3>3. map1 \in [Pixels -> Sids] BY <1>2, <3>1, RefreshmapTypes
    <3>4. map' \in [Pixels -> Sids] BY <1>2, <3>1, <3>2, <3>3, RefreshmapTypes
    <3>5. vram1 \in [Pixels -> Shades] BY <1>2, <1>3, <3>1, <3>4, RefreshsubTypes
    <3>6. vram' \in [Pixels -> Shades] BY <1>3, <3>1, <3>4, <3>5, RefreshsubTypes
    <3> QED BY <3>4, <3>6
  <2> QED BY <2>1, <2>2
<1>6. \A t \in Sids : sheet'[t].used = sheet[t].used BY <1>1, <1>2 DEF Imaged
<1>7. Step(s) BY <1>1, <1>2 DEF Step, Imaged
<1> QED BY <1>7, <1>1, <1>3, <1>4, <1>5, <1>6, StillInv

LEMMA DrawInv ==
    ASSUME IInv, NEW s, NEW x \in Pixels, NEW color \in Colors, Draw(s, x, color)
    PROVE  s \in Sids /\ IInv' /\ Step(s)
<1>1. /\ Ready /\ s \in Windows /\ Drawn(s, x, color) /\ SheetRefresh(s, x)
      /\ x \in DOMAIN sheet[s].buf /\ s \in Sids /\ x \in Int /\ color \in Nat
      /\ sheet' = [sheet EXCEPT ![s].buf[x] = color]
  BY Sizes, SheetAssumption DEF Draw, Drawn, Windows
<1>2. Imaged(sheet) /\ map \in [Pixels -> Sids] /\ vram \in [Pixels -> Shades] /\ Sound(stack) /\ Current
  BY DEF IInv, Types
<1> PICK b : b = [sheet[s].buf EXCEPT ![x] = color] OBVIOUS
<1>3. /\ sheet'[s] = [used |-> sheet[s].used, vx0 |-> sheet[s].vx0, buf |-> b]
      /\ \A t \in Sids \ {s} : sheet'[t] = sheet[t]
      /\ sheet' = [t \in Sids |-> sheet'[t]]
      /\ sheet[s].used \in BOOLEAN /\ sheet[s].vx0 \in Int
  BY ZenonT(60), <1>1, <1>2 DEF Imaged
<1>4. b \in Painted
  <2>1. sheet[s].buf \in Painted BY <1>1, <1>2 DEF Imaged, NO_IMAGE
  <2>2. PICK image \in WindowImages : sheet[s].buf \in [DOMAIN image -> Paints(image)]
    BY <2>1 DEF Painted
  <2>3. color \in Paints(image) BY DEF Paints
  <2>4. b \in [DOMAIN image -> Paints(image)] BY <2>2, <2>3
  <2> QED BY <2>4 DEF Painted
<1>5. Imaged(sheet') BY <1>1, <1>2, <1>3, <1>4, Reimaged
<1>6. Current' BY <1>1, <1>2, DrawCurrent
<1>7. stack' = stack /\ map' = map BY <1>1 DEF SheetRefresh
<1>8. vram' \in [Pixels -> Shades] BY <1>1, <1>2, <1>5, RefreshsubTypes DEF SheetRefresh
<1>9. \A t \in Sids : sheet'[t].used = sheet[t].used BY <1>1, <1>2, <1>3 DEF Imaged
<1>10. Step(s) BY <1>3, <1>7 DEF Step
<1> QED BY <1>10, <1>1, <1>2, <1>5, <1>6, <1>7, <1>8, <1>9, StillInv

\* F11, clicks and the close button: no sheet changes.
LEMMA RestackInv ==
    ASSUME IInv, Ready, UNCHANGED sheet, NEW s \in Sids, NEW height \in Int, SheetUpdown(s, height),
           stack.height[s] # -1, height <= stack.top,
           s \in {SHT_BACK, SHT_MOUSE} => height >= 0
    PROVE  IInv' /\ Step(s)
<1>1. Meets BY InvMeets DEF IInv, Types, SameShown
<1>2. Leaves(s, Clipped(height)) BY <1>1, UpdownLeaves
<1>3. height >= 0 => Clipped(height) # -1
  <2>1. stack.top \in Int BY ReadyStack
  <2> QED BY <2>1, ReadyStack DEF Clipped
<1>4. sheet[s].used BY DEF IInv, Kept
<1>5. Step(s) BY <1>2 DEF Step, Leaves
<1> QED BY <1>5, <1>2, <1>3, <1>4, UpdownInv DEF IInv, Types

LEMMA OpenInv ==
    ASSUME IInv, NEW image \in WindowImages, NEW x \in Places, OpenWindow(image, x)
    PROVE  IInv' /\ \E s \in Sids : Step(s)
<1>1. PICK s \in Sids : /\ ~sheet[s].used
                        /\ sheet' = [sheet EXCEPT ![s] = [used |-> TRUE, vx0 |-> x, buf |-> image]]
                        /\ SheetUpdown(s, stack.top)
  BY DEF OpenWindow
<1>2. Ready BY DEF OpenWindow
<1>3. stack.height[s] = -1 BY <1>1 DEF IInv, Kept
<1>4. s \in Windows /\ s \notin {SHT_BACK, SHT_MOUSE} BY <1>1, <1>2, ReadyStack DEF Windows
<1>5. Imaged(sheet) BY DEF IInv, Types
<1>6. /\ \A t \in Sids \ {s} : sheet'[t] = sheet[t]
      /\ sheet'[s] = [used |-> TRUE, vx0 |-> x, buf |-> image]
      /\ sheet' = [t \in Sids |-> sheet'[t]]
  BY <1>1, <1>5 DEF Imaged
<1>7. x \in Int /\ image \in Images /\ image \in Painted BY SheetAssumption, KnownImages
<1>8. Imaged(sheet')
  <2>1. TRUE \in BOOLEAN OBVIOUS
  <2> QED BY <1>4, <1>5, <1>6, <1>7, <2>1, Reimaged
<1>9. SameShown BY <1>3, <1>6 DEF SameShown
<1>10. Meets BY <1>8, <1>9, InvMeets
<1>11. Leaves(s, Clipped(stack.top)) BY <1>1, <1>2, <1>3, <1>10, ReadyStack, UpdownLeaves
<1>12. Step(s) BY <1>6, <1>11 DEF Step, Leaves
<1> QED BY <1>12, <1>2, <1>4, <1>6, <1>8, <1>11, UpdownInv

LEMMA CloseInv ==
    ASSUME IInv, NEW s, CloseWindow(s)
    PROVE  s \in Sids /\ IInv' /\ Step(s)
<1>1. /\ Ready /\ s \in Windows /\ s \in Sids /\ s \notin {SHT_BACK, SHT_MOUSE}
      /\ sheet' = [sheet EXCEPT ![s].used = FALSE]
  BY DEF CloseWindow, SheetFree, Windows
<1>2. Imaged(sheet) BY DEF IInv, Types
<1>3. /\ \A t \in Sids \ {s} : sheet'[t] = sheet[t]
      /\ sheet'[s] = [used |-> FALSE, vx0 |-> sheet[s].vx0, buf |-> sheet[s].buf]
      /\ sheet' = [t \in Sids |-> sheet'[t]]
  BY ZenonT(60), <1>1, <1>2 DEF Imaged
<1>4. Imaged(sheet')
  <2>1. /\ FALSE \in BOOLEAN /\ sheet[s].vx0 \in Int
        /\ sheet[s].buf \in Painted \cup {NO_IMAGE}
    BY <1>1, <1>2 DEF Imaged
  <2> QED BY ZenonT(60), <1>1, <1>2, <1>3, <2>1, Reimaged
<1>5. SameShown BY <1>3 DEF SameShown
<1>6. Meets BY <1>4, <1>5, InvMeets
<1>7. Leaves(s, -1)
  <2>1. CASE stack.height[s] = -1
    <3>1. UNCHANGED <<stack, map, vram>> BY <2>1 DEF CloseWindow, SheetFree
    <3> QED BY <1>1, <1>6, <2>1, <3>1, NothingLeaves
  <2>2. CASE stack.height[s] # -1
    <3>1. SheetUpdown(s, -1) BY <2>2 DEF CloseWindow, SheetFree
    <3>2. stack.top \in Int /\ stack.top >= 1 BY <1>1, ReadyStack
    <3>3. Clipped(-1) = -1 BY <3>2 DEF Clipped
    <3>4. -1 \in Int /\ -1 <= stack.top BY <3>2
    <3> QED BY <1>1, <1>6, <3>1, <3>3, <3>4, UpdownLeaves
  <2> QED BY <2>1, <2>2
<1>8. Step(s) BY <1>3, <1>7 DEF Step, Leaves
<1> QED BY <1>8, <1>1, <1>3, <1>4, <1>7, UpdownInv

LEMMA NextInv == IInv /\ [Next]_vars => IInv' /\ (UNCHANGED vars \/ \E s \in Sids : Step(s))
<1> SUFFICES ASSUME IInv, [Next]_vars PROVE IInv' /\ (UNCHANGED vars \/ \E s \in Sids : Step(s)) OBVIOUS
<1>1. CASE Boot BY <1>1, BootInv, Zenon
<1>2. CASE F11
  <2>1. stack.top \in Int /\ stack.top >= 1 BY <1>2, ReadyStack DEF F11
  <2>2. stack.sheets[1] \in Sids /\ stack.height[stack.sheets[1]] = 1
    <3>1. 1 \in 0 .. stack.top BY <2>1
    <3> QED BY <3>1, StackTypes DEF IInv
  <2>3. stack.top - 1 \in Int /\ stack.top - 1 <= stack.top /\ stack.top - 1 >= 0 BY <2>1
  <2> QED BY <1>2, <2>2, <2>3, RestackInv DEF F11
<1>3. ASSUME NEW p \in Pixels, MoveMouse(p) PROVE IInv' /\ \E u \in Sids : Step(u)
  BY <1>3, Sizes, SlideInv DEF MoveMouse
<1>4. ASSUME NEW p \in Pixels, Click(p) PROVE IInv' /\ \E u \in Sids : Step(u)
  <2>1. PICK h \in Sids : Hit(p, h) /\ SheetUpdown(stack.sheets[h], stack.top - 1) BY <1>4 DEF Click
  <2>2. Ready /\ UNCHANGED sheet BY <1>4 DEF Click
  <2>3. stack.top \in Int /\ stack.top >= 1 BY <2>2, ReadyStack
  <2>4. h \in 0 .. stack.top /\ h # -1 BY <2>1, <2>3, Sizes DEF Hit
  <2>5. stack.sheets[h] \in Sids /\ stack.height[stack.sheets[h]] # -1 BY <2>4, StackTypes DEF IInv
  <2>6. stack.top - 1 \in Int /\ stack.top - 1 <= stack.top /\ stack.top - 1 >= 0 BY <2>3
  <2> QED BY <2>1, <2>2, <2>5, <2>6, RestackInv
<1>5. ASSUME NEW s \in Sids, CloseButton(s) PROVE IInv' /\ \E u \in Sids : Step(u)
  <2>1. /\ Ready /\ UNCHANGED sheet /\ s \notin {SHT_BACK, SHT_MOUSE} /\ SheetUpdown(s, -1)
        /\ stack.height[s] = stack.top - 1 /\ stack.top > 1
    BY <1>5 DEF CloseButton, Windows
  <2>2. stack.top \in Int /\ stack.top >= 1 BY <2>1, ReadyStack
  <2>3. -1 \in Int /\ -1 <= stack.top /\ stack.height[s] # -1 BY <2>1, <2>2
  <2> QED BY <2>1, <2>3, RestackInv
<1>6. ASSUME NEW s \in Sids, CloseWindow(s) PROVE IInv' /\ \E u \in Sids : Step(u) BY <1>6, CloseInv
<1>7. ASSUME NEW s \in Sids, NEW x \in Places, DragWindow(s, x) PROVE IInv' /\ \E u \in Sids : Step(u)
  BY <1>7, SheetAssumption, SlideInv DEF DragWindow
<1>8. ASSUME NEW image \in WindowImages, NEW x \in Places, OpenWindow(image, x) PROVE IInv' /\ \E u \in Sids : Step(u)
  BY <1>8, OpenInv
<1>9. ASSUME NEW s \in Sids, NEW x \in Pixels, NEW color \in Colors, Draw(s, x, color) PROVE IInv' /\ \E u \in Sids : Step(u)
  BY <1>9, DrawInv
<1>10. CASE UNCHANGED vars
  BY <1>10 DEF vars, IInv, Sound, Types, Started, Kept, Current
<1> QED BY <1>1, <1>2, <1>3, <1>4, <1>5, <1>6, <1>7, <1>8, <1>9, <1>10 DEF Next

-----------------------------------------------------------------------------
(* What sheets promise *)

Order(st) == [k \in 1 .. (st.top + 1) |-> st.sheets[k - 1]]

Picture(s) == [p \in Pixels |-> IF p \in Area(s) THEN s.buf[p - s.vx0] ELSE CLEAR]

LEMMA OrderSeq ==
    ASSUME NEW st, Sound(st)
    PROVE  /\ Order(st) \in Seq(Sids) /\ Len(Order(st)) = st.top + 1
           /\ \A k \in 1 .. (st.top + 1) : Order(st)[k] = st.sheets[k - 1]
<1> PICK n : n = st.top + 1 OBVIOUS
<1>1. n \in Nat /\ st.top \in Int BY StackTypes, Sizes
<1>2. \A k \in 1 .. n : st.sheets[k - 1] \in Sids
  <2>1. \A k \in 1 .. n : k - 1 \in 0 .. st.top BY <1>1
  <2> QED BY <2>1, StackTypes
<1>3. Order(st) \in [1 .. n -> Sids] BY <1>2 DEF Order
<1>4. Order(st) \in Seq(Sids) BY <1>1, <1>3, SeqDef
<1>5. Len(Order(st)) = n
  <2>1. DOMAIN Order(st) = 1 .. n BY <1>3
  <2>2. DOMAIN Order(st) = 1 .. Len(Order(st)) /\ Len(Order(st)) \in Nat BY <1>4, LenProperties
  <2> QED BY <1>1, <2>1, <2>2
<1> QED BY <1>4, <1>5 DEF Order

LEMMA RemoveFirstMissing ==
    ASSUME NEW q, NEW e, ~\E i \in 1 .. Len(q) : q[i] = e
    PROVE  Pictures!RemoveFirst(q, e) = q
BY Zenon DEF Pictures!RemoveFirst

LEMMA RemoveFirstIs ==
    ASSUME NEW S, NEW q \in Seq(S), NEW h \in 1 .. Len(q), NEW e, q[h] = e,
           \A k \in 1 .. Len(q) : q[k] = e => k = h
    PROVE  LET rest == Pictures!RemoveFirst(q, e) IN
           /\ rest \in Seq(S) /\ Len(rest) = Len(q) - 1
           /\ \A k \in 1 .. (Len(q) - 1) : rest[k] = IF k < h THEN q[k] ELSE q[k + 1]
<1>0. Pictures!RemoveFirst(q, e) = SubSeq(q, 1, h - 1) \o SubSeq(q, h + 1, Len(q))
  <2> h \in Int BY LenProperties
  <2> DEFINE I == {i \in 1 .. Len(q) : q[i] = e}
             m == CHOOSE x \in I : \A y \in I : x <= y
  <2>1. (\E i \in 1 .. Len(q) : q[i] = e) /\ I # {} OBVIOUS
  <2>2. Pictures!RemoveFirst(q, e) = Pictures!RemoveAt(q, Pictures!SelectInSeq(q, LAMBDA v : v = e))
    BY <2>1, Zenon DEF Pictures!RemoveFirst
  <2>3. Pictures!SelectInSeq(q, LAMBDA v : v = e) = m
    BY <2>1, Zenon DEF Pictures!SelectInSeq, Pictures!Min
  <2>4. I = {h} OBVIOUS
  <2> HIDE DEF I
  <2>5. m = h
    <3>1. h \in I /\ \A y \in I : h <= y BY <2>4
    <3>2. m \in I BY <3>1
    <3> QED BY <2>4, <3>2
  <2> QED BY <2>2, <2>3, <2>5, Zenon DEF Pictures!RemoveAt
<1> PICK n : n = Len(q) OBVIOUS
<1>1. n \in Nat /\ h \in 1 .. n /\ h \in Int /\ n \in Int BY LenProperties
<1>2. PICK a, b : a = SubSeq(q, 1, h - 1) /\ b = SubSeq(q, h + 1, n) OBVIOUS
<1>3. Pictures!RemoveFirst(q, e) = a \o b BY <1>0, <1>2
<1>4. \A k \in 1 .. n : q[k] \in S BY ElementOfSeq
<1>5. a \in Seq(S) /\ Len(a) = h - 1 /\ \A k \in 1 .. (h - 1) : a[k] = q[k]
  <2>1. PICK l : l = h - 1 OBVIOUS
  <2>2. l \in Int /\ l \in Nat /\ 1 \in Int /\ \A k \in 1 .. l : q[k] \in S BY <1>1, <1>4, <2>1
  <2>3. a = SubSeq(q, 1, l) BY <1>2, <2>1
  <2>4. /\ a \in Seq(S) /\ Len(a) = IF 1 <= l THEN l - 1 + 1 ELSE 0
        /\ \A k \in 1 .. l - 1 + 1 : a[k] = q[1 + k - 1]
    BY <2>2, <2>3, SubSeqProperties
  <2>5. Len(a) = l BY <2>2, <2>4
  <2>6. \A k \in 1 .. l : k \in 1 .. l - 1 + 1 /\ 1 + k - 1 = k BY <2>2
  <2> QED BY <2>1, <2>4, <2>5, <2>6
<1>6. b \in Seq(S) /\ Len(b) = n - h /\ \A k \in 1 .. (n - h) : b[k] = q[h + k]
  <2>1. PICK l : l = h + 1 OBVIOUS
  <2>2. l \in Int /\ n \in Int /\ \A k \in l .. n : q[k] \in S BY <1>1, <1>4, <2>1
  <2>3. b = SubSeq(q, l, n) BY <1>2, <2>1
  <2>4. /\ b \in Seq(S) /\ Len(b) = IF l <= n THEN n - l + 1 ELSE 0
        /\ \A k \in 1 .. n - l + 1 : b[k] = q[l + k - 1]
    BY <2>2, <2>3, SubSeqProperties
  <2>5. Len(b) = n - h BY <1>1, <2>1, <2>4
  <2>6. \A k \in 1 .. (n - h) : k \in 1 .. n - l + 1 /\ l + k - 1 = h + k BY <1>1, <2>1
  <2> QED BY <2>4, <2>5, <2>6
<1>7. PICK rest : rest = a \o b OBVIOUS
<1>8. /\ rest \in Seq(S) /\ Len(rest) = Len(a) + Len(b)
      /\ \A k \in 1 .. Len(a) + Len(b) : rest[k] = IF k <= Len(a) THEN a[k] ELSE b[k - Len(a)]
  BY <1>5, <1>6, <1>7, ConcatProperties
<1>9. Len(a) + Len(b) = n - 1 BY <1>1, <1>5, <1>6
<1>10. ASSUME NEW k \in 1 .. (n - 1) PROVE rest[k] = IF k < h THEN q[k] ELSE q[k + 1]
  <2>1. rest[k] = IF k <= h - 1 THEN a[k] ELSE b[k - (h - 1)] BY <1>5, <1>8, <1>9
  <2>2. CASE k < h
    <3>1. k \in 1 .. (h - 1) /\ k <= h - 1 BY <1>1, <2>2
    <3> QED BY <1>5, <2>1, <2>2, <3>1
  <2>3. CASE ~(k < h)
    <3>1. k - (h - 1) \in 1 .. (n - h) /\ h + (k - (h - 1)) = k + 1 /\ ~(k <= h - 1) BY <1>1, <2>3
    <3> QED BY <1>6, <2>1, <2>3, <3>1
  <2> QED BY <2>2, <2>3
<1> QED BY <1>3, <1>7, <1>8, <1>9, <1>10

\* The order without a sheet.
LEMMA OthersSeq ==
    ASSUME NEW st, Sound(st), NEW s \in Sids
    PROVE  LET rest == Pictures!RemoveFirst(Order(st), s) IN
           /\ rest \in Seq(Sids) /\ Len(rest) = Others(st, s)
           /\ \A k \in 1 .. Others(st, s) : rest[k] = Other(st, s, k)
<1>1. PICK q, n, h : q = Order(st) /\ n = st.top + 1 /\ h = st.height[s] OBVIOUS
<1>2. /\ q \in Seq(Sids) /\ Len(q) = n /\ n \in Nat /\ st.top \in Int /\ st.top = n - 1 /\ h \in Int
      /\ \A k \in 1 .. n : q[k] = st.sheets[k - 1]
  <2>1. st.top \in Int /\ st.top + 1 \in Nat /\ st.top = (st.top + 1) - 1 /\ st.height[s] \in Int
    BY StackTypes, Sizes
  <2> QED BY <1>1, <2>1, OrderSeq, Zenon
<1>3. ASSUME NEW k \in 1 .. n, q[k] = s PROVE h = k - 1
  <2>1. k - 1 \in 0 .. st.top BY <1>2
  <2>2. st.height[st.sheets[k - 1]] = k - 1 BY <2>1, StackTypes
  <2> QED BY <1>1, <1>2, <1>3, <2>2
<1>4. PICK rest : rest = Pictures!RemoveFirst(q, s) OBVIOUS
<1>5. CASE h = -1
  <2>1. ~\E k \in 1 .. Len(q) : q[k] = s BY <1>2, <1>3, <1>5
  <2>2. rest = q BY <1>4, <2>1, RemoveFirstMissing, Zenon
  <2>3. \A k \in 1 .. n : rest[k] = Other(st, s, k) BY <1>1, <1>2, <1>5, <2>2 DEF Other
  <2>4. Others(st, s) = n BY <1>1, <1>5 DEF Others
  <2> QED BY <1>1, <1>2, <1>4, <2>2, <2>3, <2>4
<1>6. CASE h # -1
  <2>1. h \in 0 .. st.top /\ st.sheets[h] = s BY <1>1, <1>6, StackTypes
  <2>2. PICK i : i = h + 1 OBVIOUS
  <2>3. i \in 1 .. Len(q) /\ i - 1 = h /\ i \in 1 .. n BY <1>2, <2>1, <2>2
  <2>4. q[i] = s BY <1>2, <2>1, <2>3
  <2>5. \A k \in 1 .. Len(q) : q[k] = s => k = i BY <1>2, <1>3, <2>2
  <2>6. /\ rest \in Seq(Sids) /\ Len(rest) = Len(q) - 1
        /\ \A k \in 1 .. (Len(q) - 1) : rest[k] = IF k < i THEN q[k] ELSE q[k + 1]
    BY ZenonT(60), <1>2, <1>4, <2>3, <2>4, <2>5, RemoveFirstIs
  <2>7. Others(st, s) = n - 1 BY <1>1, <1>2, <1>6 DEF Others
  <2>8. ASSUME NEW k \in 1 .. (n - 1) PROVE rest[k] = Other(st, s, k)
    <3>1. rest[k] = IF k < i THEN q[k] ELSE q[k + 1] BY <1>2, <2>6
    <3>2. Other(st, s, k) = IF k <= h THEN st.sheets[k - 1] ELSE st.sheets[k] BY <1>1, <1>6 DEF Other
    <3>3. k \in 1 .. n /\ k + 1 \in 1 .. n /\ (k + 1) - 1 = k /\ (k < i <=> k <= h)
      BY <1>2, <2>2
    <3>4. q[k] = st.sheets[k - 1] /\ q[k + 1] = st.sheets[k] BY <1>2, <3>3
    <3> QED BY <3>1, <3>2, <3>3, <3>4
  <2> QED BY <1>1, <1>2, <1>4, <2>6, <2>7, <2>8
<1> QED BY <1>5, <1>6

LEMMA SameRest ==
    ASSUME Sound(stack), NEW st, Sound(st), NEW s \in Sids, SameOthers(st, s)
    PROVE  Pictures!RemoveFirst(Order(st), s) = Pictures!RemoveFirst(Order(stack), s)
<1> PICK a, b : a = Pictures!RemoveFirst(Order(st), s) /\ b = Pictures!RemoveFirst(Order(stack), s) OBVIOUS
<1> PICK n : n = Others(stack, s) OBVIOUS
<1>1. a \in Seq(Sids) /\ Len(a) = n /\ \A k \in 1 .. n : a[k] = Other(st, s, k)
  BY OthersSeq DEF SameOthers
<1>2. b \in Seq(Sids) /\ Len(b) = n /\ \A k \in 1 .. n : b[k] = Other(stack, s, k)
  BY OthersSeq
<1>3. \A k \in 1 .. n : a[k] = b[k] BY <1>1, <1>2 DEF SameOthers
<1>4. a = b BY <1>1, <1>2, <1>3, SeqEqual
<1> QED BY <1>4

LEMMA ScreenShows ==
    ASSUME Sound(stack), Current
    PROVE  Pictures!Shows
<1> DEFINE order == [k \in 1 .. (stack.top + 1) |-> stack.sheets[k - 1]]
           picture == [s \in Sids |->
             [p \in Pixels |-> IF p \in Area(sheet[s]) THEN sheet[s].buf[p - sheet[s].vx0] ELSE CLEAR]]
<1>2. DOMAIN order = 1 .. (stack.top + 1) /\ stack.top \in Int BY StackTypes, Sizes
<1>3. ASSUME NEW s \in Sids, NEW p \in Pixels
      PROVE  /\ picture[s][p] # CLEAR <=> p \in Opaque(sheet[s])
             /\ p \in Opaque(sheet[s]) => picture[s][p] = Colour(sheet[s], p)
  BY DEF Opaque, Colour
<1>1. \A j \in DOMAIN order : order[j] = stack.sheets[j - 1] OBVIOUS
<1> HIDE DEF order, picture
<1>4. ASSUME NEW p \in Pixels, NEW k \in DOMAIN order, picture[order[k]][p] # CLEAR,
             \A j \in DOMAIN order : picture[order[j]][p] # CLEAR => j <= k
      PROVE  vram[p] = picture[order[k]][p]
  <2>1. PICK s : s = order[k] OBVIOUS
  <2>2. \A j \in DOMAIN order : j - 1 \in 0 .. stack.top /\ order[j] = stack.sheets[j - 1] /\ order[j] \in Sids
    <3>1. \A j \in DOMAIN order : j - 1 \in 0 .. stack.top BY <1>2
    <3> QED BY <1>1, <1>2, <3>1, StackTypes
  <2>3. s \in Sids /\ stack.height[s] = k - 1 /\ stack.height[s] # -1 /\ k \in Int
    BY <1>2, <2>1, <2>2, StackTypes
  <2>4. p \in Opaque(sheet[s]) BY <1>3, <1>4, <2>1, <2>3
  <2>5. ASSUME NEW t \in Sids, stack.height[t] > stack.height[s], p \in Opaque(sheet[t]) PROVE FALSE
    <3>1. stack.height[t] \in 0 .. stack.top /\ stack.sheets[stack.height[t]] = t
      BY <2>3, <2>5, StackTypes
    <3>2. PICK j : j = stack.height[t] + 1 OBVIOUS
    <3>3. j \in DOMAIN order /\ j - 1 = stack.height[t] BY <1>2, <3>1, <3>2
    <3>4. order[j] = t BY <2>2, <3>1, <3>3
    <3>5. j <= k BY <1>3, <1>4, <2>5, <3>3, <3>4
    <3> QED BY <2>3, <2>5, <3>1, <3>2, <3>5
  <2>6. OnTop(stack, sheet, p, s) BY <2>3, <2>4, <2>5 DEF OnTop
  <2>7. vram[p] = Colour(sheet[s], p) BY <2>3, <2>6 DEF Current
  <2> QED BY <1>3, <2>1, <2>3, <2>4, <2>7
<1>5. \A p \in Pixels :
        LET seen == {k \in DOMAIN order : picture[order[k]][p] # CLEAR} IN
        \A k \in seen : (\A j \in seen : j <= k) => vram[p] = picture[order[k]][p]
  BY <1>4
<1> USE DEF order, picture
<1> QED BY <1>5 DEF Pictures!Shows

LEMMA StepRefines ==
    ASSUME Sound(stack), Sound(stack'), sheet \in [Sids -> [used : BOOLEAN, vx0 : Int, buf : Images]],
           NEW s \in Sids, Step(s)
    PROVE  Pictures!Draw(s) \/ Pictures!Put(s)
<1> DEFINE picture == [t \in Sids |->
             [p \in Pixels |-> IF p \in Area(sheet[t]) THEN sheet[t].buf[p - sheet[t].vx0] ELSE CLEAR]]
<1>1. ASSUME NEW t \in Sids, t # s PROVE picture[t] = picture'[t]
  <2>1. sheet'[t].vx0 = sheet[t].vx0 /\ sheet'[t].buf = sheet[t].buf BY <1>1 DEF Step
  <2>2. Area(sheet'[t]) = Area(sheet[t]) BY <2>1 DEF Area
  <2> QED BY <2>1, <2>2
<1>2. Pictures!OnlyPicture(s) BY <1>1 DEF Pictures!OnlyPicture
<1> HIDE DEF picture
<1>3. CASE stack' = stack BY <1>2, <1>3 DEF Pictures!Draw
<1>4. CASE SameOthers(stack', s)
  <2>1. Pictures!RemoveFirst(Order(stack'), s) = Pictures!RemoveFirst(Order(stack), s) BY <1>4, SameRest
  <2> QED BY <1>2, <2>1 DEF Pictures!Put, Pictures!Others, Order
<1> QED BY <1>3, <1>4 DEF Step

-----------------------------------------------------------------------------
(* Theorems *)

\* The invariant that carries the others holds in every reachable state.
THEOREM Invariance == Spec => []IInv
<1>1. Init => IInv BY InitInv
<1>2. IInv /\ [Next]_vars => IInv' BY NextInv
<1> QED BY <1>1, <1>2, PTL DEF Spec

\* All variables keep their types, whatever is shown, hidden, moved and drawn.
THEOREM TypeCorrect == Spec => []TypeOK
<1>1. IInv => TypeOK BY DEF IInv, Sound, Stacks, Types, Imaged, Shades, TypeOK
<1> QED BY <1>1, Invariance, PTL

\* sheets[] and the heights of the sheets agree after every call to sheet_updown and
\* sheet_free, and no sheet that was given back is left in the stack.
THEOREM StackKept == Spec => []StackSound
<1>1. IInv => StackSound
  <2> SUFFICES ASSUME IInv PROVE StackSound OBVIOUS
  <2>1. /\ \A h \in 0 .. stack.top : stack.height[stack.sheets[h]] = h
        /\ \A s \in Sids : stack.height[s] # -1 =>
              stack.height[s] \in 0 .. stack.top /\ stack.sheets[stack.height[s]] = s
    BY StackTypes DEF IInv
  <2>2. stack.top \in Int BY StackTypes, Sizes DEF IInv
  <2> QED BY <2>1, <2>2 DEF IInv, Kept, StackSound
<1> QED BY <1>1, Invariance, PTL

\* map[] names the uppermost sheet at each pixel, although sheet_refreshmap goes only over
\* the area of the sheet that moved and starts at its height.
THEOREM MapKept == Spec => []MapCurrent
<1>1. IInv => MapCurrent
  <2> SUFFICES ASSUME IInv, NEW p \in Pixels, NEW h \in Covering(p), \A k \in Covering(p) : k <= h
               PROVE  map[p] = stack.sheets[h]
    BY DEF MapCurrent
  <2>1. PICK s : s = stack.sheets[h] OBVIOUS
  <2>2. h \in 0 .. stack.top /\ p \in Opaque(sheet[s]) /\ stack.top \in Int
    BY <2>1, StackTypes, Sizes DEF Covering, IInv
  <2>3. s \in Sids /\ stack.height[s] = h /\ h # -1 BY <2>1, <2>2, StackTypes DEF IInv
  <2>4. ASSUME NEW t \in Sids, stack.height[t] > stack.height[s], p \in Opaque(sheet[t]) PROVE FALSE
    <3>1. stack.height[t] \in Int BY StackTypes DEF IInv
    <3>2. stack.height[t] # -1 BY <2>2, <2>3, <2>4, <3>1
    <3>3. stack.height[t] \in 0 .. stack.top /\ stack.sheets[stack.height[t]] = t
      BY <3>2, StackTypes DEF IInv
    <3>4. stack.height[t] \in Covering(p) BY <2>4, <3>3 DEF Covering
    <3> QED BY <2>2, <2>3, <2>4, <3>1, <3>4
  <2>5. OnTop(stack, sheet, p, s) BY <2>2, <2>3, <2>4 DEF OnTop
  <2> QED BY <2>1, <2>3, <2>5 DEF IInv, Current
<1> QED BY <1>1, Invariance, PTL

\* The arrays of SHTCTL and the partial repaints of sheet.c implement a stack of pictures:
\* every call moves one sheet against the others or changes it, and then the screen shows
\* the uppermost picture at every pixel.
THEOREM ImplementsLayers == Spec => LayersSpec
<1>1. Init => Pictures!Init
  <2> SUFFICES ASSUME Init PROVE Pictures!Init OBVIOUS
  <2>1. stack.top = -1 BY DEF Init
  <2> QED BY <2>1 DEF Pictures!Init
<1>2. IInv => Pictures!Shows BY ScreenShows DEF IInv
<1>3. IInv' => Pictures!Shows' BY <1>2, PTL
<1>4. IInv /\ IInv' /\ [Next]_vars => [Pictures!Next]_(Pictures!layersVars)
  <2> SUFFICES ASSUME IInv, IInv', [Next]_vars PROVE [Pictures!Next]_(Pictures!layersVars) OBVIOUS
  <2>1. CASE UNCHANGED vars BY <2>1 DEF vars, Pictures!layersVars, Area
  <2>2. ASSUME NEW s \in Sids, Step(s) PROVE Pictures!Next
    <3>1. sheet \in [Sids -> [used : BOOLEAN, vx0 : Int, buf : Images]] BY DEF IInv, Types, Imaged
    <3>2. Pictures!Draw(s) \/ Pictures!Put(s) BY <2>2, <3>1, StepRefines DEF IInv
    <3>3. Pictures!Shows' BY <1>3
    <3> QED BY <3>2, <3>3 DEF Pictures!Next
  <2> QED BY <2>1, <2>2, NextInv
<1> QED BY <1>1, <1>4, Invariance, PTL DEF Spec, LayersSpec, Pictures!Spec

=============================================================================
