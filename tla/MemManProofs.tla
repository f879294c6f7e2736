---------------------------- MODULE MemManProofs ----------------------------
(***************************************************************************)
(* Proofs about MemMan for every table size, boot map, page size and set of *)
(* request sizes.                                                           *)
(***************************************************************************)
EXTENDS MemMan, SequenceTheorems, WellFoundedInduction, FiniteSetTheorems, TLAPS

\* memman_alloc_4k passes a natural number on, whatever the word size does to
\* the request.
LEMMA RoundUpNat == \A s \in Sizes : RoundUp(s) \in Nat
<1> SUFFICES ASSUME NEW s \in Sizes PROVE RoundUp(s) \in Nat
  OBVIOUS
<1> DEFINE t == (s + Unit - 1) % Word
<1>1. s \in Nat /\ Unit \in Nat /\ Unit > 0 /\ Word \in Nat /\ Word > 0
  BY MemManAssumption
<1>2. t \in Nat
  BY <1>1
<1> HIDE DEF t
<1>3. t % Unit \in Nat /\ t % Unit <= t
  <2>1. CASE t < Unit
    BY <2>1, <1>1, <1>2
  <2>2. CASE t >= Unit
    BY <2>2, <1>1, <1>2
  <2> QED BY <2>1, <2>2, <1>1, <1>2
<1> QED BY <1>2, <1>3 DEF RoundUp, t

\* The areas HariMain has not released yet are still in its hands.
Pending == \A k \in (booted + 1) .. Len(Boot) : Boot[k] \in owned

SafeInv == TypeOK /\ NoOverlap /\ Pending

LEMMA BootBlocks == /\ Len(Boot) \in Nat
                    /\ \A k \in 1 .. Len(Boot) : Boot[k] \in Blocks /\ Boot[k].size > 0
                    /\ \A i, j \in 1 .. Len(Boot) : i # j =>
                          Apart(Boot[i], Boot[j]) /\ Boot[i] # Boot[j]
<1>1. Boot \in Seq([addr : Nat \ {0}, size : Nat \ {0}])
  BY MemManAssumption
<1>2. Len(Boot) \in Nat /\ \A k \in 1 .. Len(Boot) : Boot[k] \in [addr : Nat \ {0}, size : Nat \ {0}]
  BY <1>1, ElementOfSeq, LenProperties
<1>3. \A i, j \in 1 .. Len(Boot) : i # j => Apart(Boot[i], Boot[j])
  <2> SUFFICES ASSUME NEW i \in 1 .. Len(Boot), NEW j \in 1 .. Len(Boot), i # j
               PROVE Apart(Boot[i], Boot[j])
    OBVIOUS
  <2>1. i < j \/ j < i
    BY <1>2
  <2> QED BY <2>1, MemManAssumption DEF Apart
<1>4. \A i, j \in 1 .. Len(Boot) : i # j => Boot[i] # Boot[j]
  BY <1>2, <1>3 DEF Apart
<1> QED BY <1>2, <1>3, <1>4 DEF Blocks

LEMMA SafeInit == MemmanInit => SafeInv
<1> SUFFICES ASSUME MemmanInit PROVE SafeInv
  OBVIOUS
<1>1. TypeOK
  BY BootBlocks, MemManAssumption DEF MemmanInit, TypeOK, Blocks, Returned
<1>2. NoOverlap
  BY BootBlocks DEF MemmanInit, NoOverlap
<1>3. Pending
  BY BootBlocks DEF MemmanInit, Pending
<1> QED BY <1>1, <1>2, <1>3 DEF SafeInv

\* The table after one entry went out or came in.
LEMMA RemoveEntry ==
  ASSUME TypeOK, NEW i \in 0 .. (frees - 1)
  PROVE  /\ frees - 1 \in 0 .. MEMMAN_FREES
         /\ Remove(i) \in [0 .. (frees - 1 - 1) -> Blocks]
         /\ \A k \in 0 .. (frees - 1 - 1) :
               \E j \in 0 .. (frees - 1) :
                  j = (IF k < i THEN k ELSE k + 1) /\ Remove(i)[k] = free[j]
<1>1. frees \in Nat /\ frees - 1 \in 0 .. MEMMAN_FREES /\ frees - 1 - 1 = frees - 2
  BY MemManAssumption DEF TypeOK
<1>2. \A k \in 0 .. (frees - 2) :
         /\ (IF k < i THEN k ELSE k + 1) \in 0 .. (frees - 1)
         /\ Remove(i)[k] = free[IF k < i THEN k ELSE k + 1]
  BY <1>1 DEF Remove
<1>3. \A k \in 0 .. (frees - 2) : Remove(i)[k] \in Blocks
  BY <1>2 DEF TypeOK
<1>4. Remove(i) \in [0 .. (frees - 2) -> Blocks]
  BY <1>3 DEF Remove
<1> QED BY <1>1, <1>2, <1>4

LEMMA InsertEntry ==
  ASSUME TypeOK, NEW i \in 0 .. frees, NEW b \in Blocks
  PROVE  /\ InsertAt(i, b) \in [0 .. frees -> Blocks]
         /\ InsertAt(i, b)[i] = b
         /\ \A k \in 0 .. frees : k # i =>
               \E j \in 0 .. (frees - 1) :
                  j = (IF k < i THEN k ELSE k - 1) /\ InsertAt(i, b)[k] = free[j]
<1>1. frees \in Nat
  BY MemManAssumption DEF TypeOK
<1>2. InsertAt(i, b)[i] = b
  BY <1>1 DEF InsertAt
<1>3. \A k \in 0 .. frees : k # i =>
         /\ (IF k < i THEN k ELSE k - 1) \in 0 .. (frees - 1)
         /\ InsertAt(i, b)[k] = free[IF k < i THEN k ELSE k - 1]
  BY <1>1 DEF InsertAt
<1>4. \A k \in 0 .. frees : InsertAt(i, b)[k] \in Blocks
  BY <1>2, <1>3 DEF TypeOK
<1>5. InsertAt(i, b) \in [0 .. frees -> Blocks]
  BY <1>4 DEF InsertAt
<1> QED BY <1>1, <1>2, <1>3, <1>5

\* memman_alloc takes the front of one free area and nothing else.
LEMMA AllocSafe ==
  ASSUME SafeInv, NEW n \in Nat, MemmanAlloc(n), UNCHANGED booted
  PROVE  SafeInv'
<1> USE DEF SafeInv
<1>1. CASE /\ \A i \in 0 .. (frees - 1) : free[i].size < n
           /\ ret' = Returned("alloc", n, 0)
           /\ UNCHANGED <<man, owned, leaked>>
  <2>1. TypeOK'
    BY <1>1 DEF TypeOK, man, Returned
  <2>2. NoOverlap' /\ Pending'
    BY <1>1 DEF NoOverlap, Pending, man
  <2> QED BY <2>1, <2>2
<1>2. ASSUME NEW i \in 0 .. (frees - 1),
             FirstFit(i, n),
             IF free[i].size = n
             THEN frees' = frees - 1 /\ free' = Remove(i)
             ELSE /\ free' = [free EXCEPT ![i] =
                                Block(free[i].addr + n, free[i].size - n)]
                  /\ UNCHANGED frees,
             ret' = Returned("alloc", n, free[i].addr),
             owned' = owned \cup {Block(free[i].addr, n)},
             UNCHANGED <<maxfrees, lostsize, losts, leaked>>
      PROVE  SafeInv'
  <2> DEFINE new == Block(free[i].addr, n)
             rest == Block(free[i].addr + n, free[i].size - n)
  <2>1. /\ frees \in Nat /\ free \in [0 .. (frees - 1) -> Blocks]
        /\ free[i] \in Blocks
        /\ free[i].addr \in Nat /\ free[i].size \in Nat /\ free[i].size >= n
        /\ owned \subseteq Blocks /\ leaked \subseteq Blocks
    BY <1>2 DEF TypeOK, Blocks, FirstFit
  <2>2. /\ new \in Blocks /\ rest \in Blocks
        /\ \A b \in Blocks : Apart(b, free[i]) =>
               Apart(b, new) /\ Apart(new, b) /\ Apart(b, rest) /\ Apart(rest, b)
        /\ Apart(new, rest)
    BY <2>1 DEF Block, Blocks, Apart
  <2> HIDE DEF new, rest
  \* Every entry of the new table is an old one, or what is left of entry i.
  <2>3. /\ frees' \in 0 .. MEMMAN_FREES
        /\ free' \in [0 .. (frees' - 1) -> Blocks]
        /\ \A k \in 0 .. (frees' - 1) :
              \/ k = i /\ free'[k] = rest
              \/ \E j \in 0 .. (frees - 1) :
                    /\ j # i /\ free'[k] = free[j]
                    /\ j = k \/ (j = k + 1 /\ frees' # frees)
    <3>1. CASE free[i].size = n
      <4>1. frees' = frees - 1 /\ free' = Remove(i) /\ frees' # frees
        BY <3>1, <1>2, <2>1
      <4>2. \A k \in 0 .. (frees' - 1) :
              \E j \in 0 .. (frees - 1) :
                 j = (IF k < i THEN k ELSE k + 1) /\ free'[k] = free[j]
        BY <4>1, RemoveEntry
      <4>3. \A k \in 0 .. (frees' - 1) :
              \E j \in 0 .. (frees - 1) :
                 j # i /\ free'[k] = free[j] /\ (j = k \/ j = k + 1)
        BY <4>2, <2>1, <4>1
      <4> QED BY <4>1, <4>3, RemoveEntry
    <3>2. CASE free[i].size # n
      <4>1. frees' = frees /\ free' = [free EXCEPT ![i] = rest]
        BY <3>2, <1>2 DEF rest
      <4> QED BY <4>1, <2>1, <2>2 DEF TypeOK
    <3> QED BY <3>1, <3>2
  <2>4. TypeOK'
    <3>1. ret' \in [op : {"init", "alloc", "free"}, size : Nat, val : Int]
      BY <1>2, <2>1 DEF Returned
    <3>2. owned' \subseteq Blocks
      BY <1>2, <2>1, <2>2 DEF new
    <3> QED BY <1>2, <2>3, <3>1, <3>2 DEF TypeOK
  <2>5. \A b \in owned \cup leaked, k \in 0 .. (frees' - 1) : Apart(b, free'[k])
    BY <2>1, <2>2, <2>3 DEF NoOverlap
  <2>6. \A k \in 0 .. (frees' - 1) : Apart(new, free'[k])
    BY <2>1, <2>2, <2>3 DEF NoOverlap
  <2>7. \A j, k \in 0 .. (frees' - 1) : j # k => Apart(free'[j], free'[k])
    <3>1. CASE free[i].size = n
      <4>1. frees' = frees - 1 /\ free' = Remove(i)
        BY <3>1, <1>2
      <4> SUFFICES ASSUME NEW j \in 0 .. (frees - 1 - 1), NEW k \in 0 .. (frees - 1 - 1), j # k
                   PROVE  Apart(Remove(i)[j], Remove(i)[k])
        BY <4>1
      <4>2. PICK p \in 0 .. (frees - 1) :
               p = (IF j < i THEN j ELSE j + 1) /\ Remove(i)[j] = free[p]
        BY RemoveEntry
      <4>3. PICK q \in 0 .. (frees - 1) :
               q = (IF k < i THEN k ELSE k + 1) /\ Remove(i)[k] = free[q]
        BY RemoveEntry
      <4>4. p # q
        BY <4>2, <4>3, <2>1
      <4> QED BY <4>2, <4>3, <4>4 DEF NoOverlap
    <3>2. CASE free[i].size # n
      <4>1. frees' = frees /\ free' = [free EXCEPT ![i] = rest]
        BY <3>2, <1>2 DEF rest
      <4> QED BY <4>1, <2>1, <2>2 DEF NoOverlap
    <3> QED BY <3>1, <3>2
  <2>8. \A b \in owned \cup leaked : Apart(b, new) /\ Apart(new, b)
    BY <2>1, <2>2 DEF NoOverlap
  <2>9. NoOverlap'
    <3>1. \A b \in owned' \cup leaked', k \in 0 .. (frees' - 1) : Apart(b, free'[k])
      BY <1>2, <2>5, <2>6 DEF new
    <3>2. \A b, c \in owned' : b # c => Apart(b, c)
      BY <1>2, <2>8 DEF NoOverlap, new
    <3>3. /\ \A b, c \in leaked' : b # c => Apart(b, c)
          /\ \A b \in owned', c \in leaked' : Apart(b, c)
      BY <1>2, <2>8 DEF NoOverlap, new
    <3> QED BY <3>1, <3>2, <3>3, <2>7 DEF NoOverlap
  <2>10. Pending'
    BY <1>2 DEF Pending
  <2> QED BY <2>4, <2>9, <2>10
<1> QED BY <1>1, <1>2 DEF MemmanAlloc
\* Where memman_free puts a block: the entries before and behind it.
LEMMA FreeTable ==
  ASSUME SafeInv, NEW b \in Blocks, NEW i \in 0 .. frees,
         \A k \in 0 .. (frees - 1) : Apart(b, free[k]),
         JoinBoth(i, b) \/ JoinFront(i, b) \/ JoinBack(i, b) \/ Insert(i, b)
  PROVE  /\ frees' \in 0 .. MEMMAN_FREES
         /\ maxfrees' \in 0 .. MEMMAN_FREES
         /\ free' \in [0 .. (frees' - 1) -> Blocks]
         /\ \A j, k \in 0 .. (frees' - 1) : j # k => Apart(free'[j], free'[k])
         /\ \A c \in Blocks :
               /\ Apart(c, b)
               /\ \A k \in 0 .. (frees - 1) : Apart(c, free[k])
               => \A k \in 0 .. (frees' - 1) : Apart(c, free'[k])
         /\ UNCHANGED <<lostsize, losts>>
<1> USE DEF SafeInv
<1>0. /\ frees \in Nat /\ free \in [0 .. (frees - 1) -> Blocks]
      /\ frees \in 0 .. MEMMAN_FREES /\ maxfrees \in 0 .. MEMMAN_FREES
      /\ \A j, k \in 0 .. (frees - 1) : j # k => Apart(free[j], free[k])
  BY MemManAssumption DEF TypeOK, NoOverlap
<1>1. CASE JoinBoth(i, b)
  <2> DEFINE m == Block(free[i - 1].addr, free[i - 1].size + b.size + free[i].size)
  <2>1. /\ i \in 1 .. (frees - 1) /\ i - 1 \in 0 .. (frees - 1)
        /\ free[i - 1] \in Blocks /\ free[i] \in Blocks
        /\ free[i - 1].addr + free[i - 1].size = b.addr
        /\ b.addr + b.size = free[i].addr
    BY <1>0, <1>1 DEF JoinBoth, JoinsFront, JoinsBack
  <2>2. /\ m \in Blocks
        /\ \A c \in Blocks : Apart(c, b) /\ Apart(c, free[i - 1]) /\ Apart(c, free[i])
                             => Apart(c, m) /\ Apart(m, c)
    BY <2>1 DEF Block, Blocks, Apart
  <2> HIDE DEF m
  <2>3. frees' = frees - 1 /\ free' = [Remove(i) EXCEPT ![i - 1] = m]
    BY <1>1 DEF JoinBoth, m
  <2>4. i - 1 \in 0 .. (frees' - 1) /\ free'[i - 1] = m
    BY <2>1, <2>3, RemoveEntry, <1>0
  <2>5. \A k \in 0 .. (frees' - 1) : k # i - 1 =>
           \E j \in 0 .. (frees - 1) :
              /\ j = (IF k < i THEN k ELSE k + 1) /\ free'[k] = free[j]
              /\ j # i /\ j # i - 1
    <3> SUFFICES ASSUME NEW k \in 0 .. (frees - 1 - 1), k # i - 1
                 PROVE \E j \in 0 .. (frees - 1) :
                          /\ j = (IF k < i THEN k ELSE k + 1) /\ free'[k] = free[j]
                          /\ j # i /\ j # i - 1
      BY <2>3
    <3>1. PICK j \in 0 .. (frees - 1) :
             j = (IF k < i THEN k ELSE k + 1) /\ Remove(i)[k] = free[j]
      BY RemoveEntry, <2>1
    <3>2. free'[k] = Remove(i)[k]
      BY <2>3, RemoveEntry, <2>1
    <3>3. j # i /\ j # i - 1
      BY <3>1, <2>1, <1>0
    <3> QED BY <3>1, <3>2, <3>3
  <2>6. free' \in [0 .. (frees' - 1) -> Blocks] /\ frees' \in 0 .. MEMMAN_FREES
    BY <2>1, <2>2, <2>3, RemoveEntry
  <2>7. \A j, k \in 0 .. (frees' - 1) : j # k => Apart(free'[j], free'[k])
    <3> SUFFICES ASSUME NEW j \in 0 .. (frees' - 1), NEW k \in 0 .. (frees' - 1), j # k
                 PROVE  Apart(free'[j], free'[k])
      OBVIOUS
    <3>0. \A p \in 0 .. (frees - 1) : Apart(free[p], b)
      BY <1>0 DEF Apart, Blocks
    <3>1. CASE j # i - 1 /\ k # i - 1
      <4>1. PICK p \in 0 .. (frees - 1) :
               p = (IF j < i THEN j ELSE j + 1) /\ free'[j] = free[p]
        BY <2>5, <3>1
      <4>2. PICK q \in 0 .. (frees - 1) :
               q = (IF k < i THEN k ELSE k + 1) /\ free'[k] = free[q]
        BY <2>5, <3>1
      <4>3. p # q
        BY <4>1, <4>2, <1>0, <2>3, <2>1
      <4> QED BY <4>1, <4>2, <4>3, <1>0
    <3>2. CASE j = i - 1
      <4>1. PICK q \in 0 .. (frees - 1) : free'[k] = free[q] /\ q # i /\ q # i - 1
        BY <2>5, <3>2
      <4>2. Apart(free[q], free[i]) /\ Apart(free[q], free[i - 1]) /\ Apart(free[q], b)
        BY <4>1, <1>0, <2>1, <3>0
      <4> QED BY <4>1, <4>2, <2>2, <2>4, <3>2, <1>0
    <3>3. CASE k = i - 1
      <4>1. PICK q \in 0 .. (frees - 1) : free'[j] = free[q] /\ q # i /\ q # i - 1
        BY <2>5, <3>3
      <4>2. Apart(free[q], free[i]) /\ Apart(free[q], free[i - 1]) /\ Apart(free[q], b)
        BY <4>1, <1>0, <2>1, <3>0
      <4> QED BY <4>1, <4>2, <2>2, <2>4, <3>3, <1>0
    <3> QED BY <3>1, <3>2, <3>3
  <2>8. \A c \in Blocks :
           /\ Apart(c, b)
           /\ \A k \in 0 .. (frees - 1) : Apart(c, free[k])
           => \A k \in 0 .. (frees' - 1) : Apart(c, free'[k])
    BY <2>1, <2>2, <2>4, <2>5
  <2> QED BY <1>0, <1>1, <2>6, <2>7, <2>8 DEF JoinBoth
<1>2. CASE JoinFront(i, b)
  <2> DEFINE m == Block(free[i - 1].addr, free[i - 1].size + b.size)
  <2>1. /\ i - 1 \in 0 .. (frees - 1) /\ free[i - 1] \in Blocks
        /\ free[i - 1].addr + free[i - 1].size = b.addr
    BY <1>0, <1>2 DEF JoinFront, JoinsFront
  <2>2. /\ m \in Blocks
        /\ \A c \in Blocks : Apart(c, b) /\ Apart(c, free[i - 1])
                             => Apart(c, m) /\ Apart(m, c)
    BY <2>1 DEF Block, Blocks, Apart
  <2> HIDE DEF m
  <2>3. frees' = frees /\ free' = [free EXCEPT ![i - 1] = m]
    BY <1>2 DEF JoinFront, m
  <2>4. \A p \in 0 .. (frees - 1) : Apart(free[p], b)
    BY <1>0 DEF Apart, Blocks
  <2>5. \A j, k \in 0 .. (frees' - 1) : j # k => Apart(free'[j], free'[k])
    BY <1>0, <2>1, <2>2, <2>3, <2>4
  <2>6. \A c \in Blocks :
           /\ Apart(c, b)
           /\ \A k \in 0 .. (frees - 1) : Apart(c, free[k])
           => \A k \in 0 .. (frees' - 1) : Apart(c, free'[k])
    BY <1>0, <2>1, <2>2, <2>3
  <2> QED BY <1>0, <1>2, <2>1, <2>2, <2>3, <2>5, <2>6 DEF JoinFront
<1>3. CASE JoinBack(i, b)
  <2> DEFINE m == Block(b.addr, free[i].size + b.size)
  <2>1. /\ i \in 0 .. (frees - 1) /\ free[i] \in Blocks
        /\ b.addr + b.size = free[i].addr
    BY <1>0, <1>3 DEF JoinBack, JoinsBack
  <2>2. /\ m \in Blocks
        /\ \A c \in Blocks : Apart(c, b) /\ Apart(c, free[i])
                             => Apart(c, m) /\ Apart(m, c)
    BY <2>1 DEF Block, Blocks, Apart
  <2> HIDE DEF m
  <2>3. frees' = frees /\ free' = [free EXCEPT ![i] = m]
    BY <1>3 DEF JoinBack, m
  <2>4. \A p \in 0 .. (frees - 1) : Apart(free[p], b)
    BY <1>0 DEF Apart, Blocks
  <2>5. \A j, k \in 0 .. (frees' - 1) : j # k => Apart(free'[j], free'[k])
    BY <1>0, <2>1, <2>2, <2>3, <2>4
  <2>6. \A c \in Blocks :
           /\ Apart(c, b)
           /\ \A k \in 0 .. (frees - 1) : Apart(c, free[k])
           => \A k \in 0 .. (frees' - 1) : Apart(c, free'[k])
    BY <1>0, <2>1, <2>2, <2>3
  <2> QED BY <1>0, <1>3, <2>1, <2>2, <2>3, <2>5, <2>6 DEF JoinBack
<1>4. CASE Insert(i, b)
  <2>0. /\ InsertAt(i, b) \in [0 .. frees -> Blocks]
        /\ InsertAt(i, b)[i] = b
        /\ \A k \in 0 .. frees : k # i =>
              \E j \in 0 .. (frees - 1) :
                 j = (IF k < i THEN k ELSE k - 1) /\ InsertAt(i, b)[k] = free[j]
    BY InsertEntry
  <2>1. frees' = frees + 1 /\ free' = InsertAt(i, b) /\ frees < MEMMAN_FREES
    BY <1>4 DEF Insert
  <2>2. frees' \in 0 .. MEMMAN_FREES /\ maxfrees' \in 0 .. MEMMAN_FREES
    BY <1>0, <1>4, <2>1, MemManAssumption DEF Insert
  <2>3. \A k \in 0 .. (frees' - 1) :
           \/ k = i /\ free'[k] = b
           \/ \E j \in 0 .. (frees - 1) :
                 /\ k # i /\ free'[k] = free[j]
                 /\ j = (IF k < i THEN k ELSE k - 1)
    BY <2>0, <2>1, <1>0
  <2>4. \A p \in 0 .. (frees - 1) : Apart(free[p], b)
    BY <1>0 DEF Apart, Blocks
  <2>5. \A j, k \in 0 .. (frees' - 1) : j # k => Apart(free'[j], free'[k])
    <3> SUFFICES ASSUME NEW j \in 0 .. (frees' - 1), NEW k \in 0 .. (frees' - 1), j # k
                 PROVE  Apart(free'[j], free'[k])
      OBVIOUS
    <3>1. CASE j # i /\ k # i
      <4>1. PICK p \in 0 .. (frees - 1) :
               p = (IF j < i THEN j ELSE j - 1) /\ free'[j] = free[p]
        BY <2>3, <3>1
      <4>2. PICK q \in 0 .. (frees - 1) :
               q = (IF k < i THEN k ELSE k - 1) /\ free'[k] = free[q]
        BY <2>3, <3>1
      <4>3. p # q
        BY <4>1, <4>2, <3>1, <1>0, <2>1
      <4> QED BY <4>1, <4>2, <4>3, <1>0
    <3>2. CASE j = i
      BY <2>3, <3>2
    <3>3. CASE k = i
      BY <2>3, <2>4, <3>3
    <3> QED BY <3>1, <3>2, <3>3
  <2>6. \A c \in Blocks :
           /\ Apart(c, b)
           /\ \A k \in 0 .. (frees - 1) : Apart(c, free[k])
           => \A k \in 0 .. (frees' - 1) : Apart(c, free'[k])
    BY <2>3
  <2>7. free' \in [0 .. (frees' - 1) -> Blocks]
    BY <2>0, <2>1, <1>0
  <2> QED BY <1>4, <2>2, <2>5, <2>6, <2>7 DEF Insert
<1> QED BY <1>1, <1>2, <1>3, <1>4
\* A release gives its bytes to the table or to leaked, and leaves the other
\* owners alone.
LEMMA FreeSafe ==
  ASSUME SafeInv, NEW b \in owned, MemmanFree(b)
  PROVE  /\ frees' \in 0 .. MEMMAN_FREES /\ maxfrees' \in 0 .. MEMMAN_FREES
         /\ free' \in [0 .. (frees' - 1) -> Blocks]
         /\ lostsize' \in Nat /\ losts' \in Nat
         /\ ret' \in [op : {"init", "alloc", "free"}, size : Nat, val : Int]
         /\ owned' = owned \ {b} /\ leaked' \subseteq Blocks
         /\ NoOverlap'
<1> USE DEF SafeInv
<1>0. /\ b \in Blocks /\ owned \subseteq Blocks /\ leaked \subseteq Blocks
      /\ b.size \in Nat /\ \A k \in 0 .. (frees - 1) : Apart(b, free[k])
      /\ lostsize \in Nat /\ losts \in Nat
      /\ frees \in Nat /\ free \in [0 .. (frees - 1) -> Blocks]
  BY SMTT(60), MemManAssumption DEF TypeOK, NoOverlap, Blocks
<1>1. owned' = owned \ {b}
  BY DEF MemmanFree
<1>2. PICK i \in 0 .. frees :
         \/ /\ JoinBoth(i, b) \/ JoinFront(i, b) \/ JoinBack(i, b) \/ Insert(i, b)
            /\ ret' = Returned("free", b.size, 0)
            /\ UNCHANGED leaked
         \/ /\ Lose(i, b)
            /\ ret' = Returned("free", b.size, -1)
            /\ leaked' = leaked \cup {b}
  BY DEF MemmanFree
<1>3. ret' \in [op : {"init", "alloc", "free"}, size : Nat, val : Int]
  BY <1>0, <1>2 DEF Returned
<1>4. CASE /\ JoinBoth(i, b) \/ JoinFront(i, b) \/ JoinBack(i, b) \/ Insert(i, b)
           /\ UNCHANGED leaked
  <2>1. /\ frees' \in 0 .. MEMMAN_FREES /\ maxfrees' \in 0 .. MEMMAN_FREES
        /\ free' \in [0 .. (frees' - 1) -> Blocks]
        /\ \A j, k \in 0 .. (frees' - 1) : j # k => Apart(free'[j], free'[k])
        /\ \A c \in Blocks :
              /\ Apart(c, b)
              /\ \A k \in 0 .. (frees - 1) : Apart(c, free[k])
              => \A k \in 0 .. (frees' - 1) : Apart(c, free'[k])
        /\ UNCHANGED <<lostsize, losts>>
    BY <1>0, <1>4, FreeTable
  <2>2. \A c \in owned' \cup leaked' : Apart(c, b)
    <3>1. \A x, y \in Blocks : Apart(x, y) => Apart(y, x)
      BY DEF Apart, Blocks
    <3> QED BY <1>0, <1>1, <1>4, <3>1 DEF NoOverlap
  <2>3. \A c \in owned' \cup leaked', k \in 0 .. (frees' - 1) : Apart(c, free'[k])
    BY <1>0, <1>1, <1>4, <2>1, <2>2 DEF NoOverlap
  <2>4. NoOverlap'
    BY <1>1, <1>4, <2>1, <2>3 DEF NoOverlap
  <2> QED BY <1>0, <1>1, <1>3, <1>4, <2>1, <2>4
<1>5. CASE Lose(i, b) /\ leaked' = leaked \cup {b}
  <2>1. /\ UNCHANGED <<frees, free, maxfrees>>
        /\ losts' = losts + 1 /\ lostsize' = lostsize + b.size
    BY <1>5 DEF Lose
  <2>2. NoOverlap'
    <3>1. \A x, y \in Blocks : Apart(x, y) => Apart(y, x)
      BY DEF Apart, Blocks
    <3>2. \A c \in owned' \cup leaked', k \in 0 .. (frees' - 1) : Apart(c, free'[k])
      BY <1>1, <1>5, <2>1 DEF NoOverlap
    <3>3. \A c, d \in leaked' : c # d => Apart(c, d)
      BY <1>0, <1>5, <3>1 DEF NoOverlap
    <3>4. \A c \in owned', d \in leaked' : Apart(c, d)
      BY <1>0, <1>1, <1>5 DEF NoOverlap
    <3> QED BY <1>1, <2>1, <3>2, <3>3, <3>4 DEF NoOverlap
  <2> QED BY SMTT(60), <1>0, <1>1, <1>3, <1>5, <2>1, <2>2 DEF TypeOK
<1> QED BY <1>2, <1>4, <1>5

LEMMA SafeStep == SafeInv /\ [Next]_vars => SafeInv'
<1> SUFFICES ASSUME SafeInv, [Next]_vars PROVE SafeInv'
  OBVIOUS
<1> USE DEF SafeInv
<1>1. CASE HariMainDonates
  <2> DEFINE b == Boot[booted + 1]
  <2>1. /\ booted \in 0 .. Len(Boot) /\ booted + 1 \in 1 .. Len(Boot)
        /\ booted' = booted + 1 /\ MemmanFree(b)
    BY <1>1, BootBlocks DEF HariMainDonates, TypeOK
  <2>2. b \in owned
    BY <2>1, BootBlocks DEF Pending
  <2> HIDE DEF b
  <2>3. /\ owned' = owned \ {b} /\ NoOverlap'
        /\ TypeOK'
    BY SMTT(30), <2>1, <2>2, FreeSafe DEF TypeOK
  <2>4. Pending'
    <3> SUFFICES ASSUME NEW k \in (booted' + 1) .. Len(Boot)
                 PROVE  Boot[k] \in owned'
      BY DEF Pending
    <3>1. k \in (booted + 1) .. Len(Boot) /\ k # booted + 1 /\ k \in 1 .. Len(Boot)
      BY <2>1, BootBlocks
    <3>2. Boot[k] # b
      BY <3>1, <2>1, BootBlocks DEF b
    <3> QED BY <3>1, <3>2, <2>3 DEF Pending
  <2> QED BY <2>3, <2>4
<1>2. ASSUME NEW size \in Sizes, MemmanAlloc4k(size)
      PROVE  SafeInv'
  BY <1>2, AllocSafe, RoundUpNat DEF MemmanAlloc4k
<1>3. ASSUME NEW b \in owned, NEW size \in Sizes, MemmanFree4k(b, size)
      PROVE  SafeInv'
  <2>1. Block(b.addr, RoundUp(size)) = b
    BY <1>3 DEF MemmanFree4k, Block, TypeOK, Blocks
  <2>2. MemmanFree(b) /\ booted = Len(Boot) /\ UNCHANGED booted
    BY <1>3, <2>1 DEF MemmanFree4k
  <2>3. owned' = owned \ {b} /\ NoOverlap' /\ TypeOK'
    BY <2>2, FreeSafe DEF TypeOK
  <2>4. Pending'
    BY <2>2, BootBlocks DEF Pending
  <2> QED BY <2>3, <2>4
<1>4. CASE UNCHANGED vars
  BY <1>4 DEF vars, man, TypeOK, NoOverlap, Pending
<1> QED BY <1>1, <1>2, <1>3, <1>4 DEF Next

\* Every variable of the manager keeps its type; in particular the table never
\* holds more entries than struct MEMMAN has room for.
THEOREM TypeCorrect == Spec => []TypeOK
<1>1. SafeInv => TypeOK
  BY DEF SafeInv
<1> QED BY <1>1, SafeInit, SafeStep, PTL DEF Spec

\* No byte is ever in the hands of two callers, or in use and in the free table
\* at once, for every table size, memory map and set of request sizes, empty
\* requests included.
THEOREM NoDoubleAllocation == Spec => []NoOverlap
<1>1. SafeInv => NoOverlap
  BY DEF SafeInv
<1> QED BY <1>1, SafeInit, SafeStep, PTL DEF Spec
-----------------------------------------------------------------------------
\* While nobody asks for nothing, the table stays sorted and fully joined.

SortedInv == SafeInv /\ Coalesced /\ \A b \in owned : b.size > 0

LEMMA AllocSorted ==
  ASSUME SortedInv, NEW n \in Nat, n > 0, MemmanAlloc(n)
  PROVE  Coalesced' /\ \A b \in owned' : b.size > 0
<1> USE DEF SortedInv, SafeInv
<1>0. frees \in Nat /\ free \in [0 .. (frees - 1) -> Blocks]
  BY MemManAssumption DEF TypeOK
<1>1. CASE UNCHANGED <<man, owned, leaked>>
  BY <1>1 DEF man, Coalesced
<1>2. ASSUME NEW i \in 0 .. (frees - 1),
             FirstFit(i, n),
             IF free[i].size = n
             THEN frees' = frees - 1 /\ free' = Remove(i)
             ELSE /\ free' = [free EXCEPT ![i] =
                                Block(free[i].addr + n, free[i].size - n)]
                  /\ UNCHANGED frees,
             owned' = owned \cup {Block(free[i].addr, n)}
      PROVE  Coalesced' /\ \A b \in owned' : b.size > 0
  <2>1. \A b \in owned' : b.size > 0
    BY <1>2 DEF Block
  <2>2. CASE free[i].size = n
    <3>1. frees' = frees - 1 /\ free' = Remove(i)
      BY <1>2, <2>2
    <3>2. \A k \in 0 .. (frees - 1 - 1) :
             \E j \in 0 .. (frees - 1) :
                j = (IF k < i THEN k ELSE k + 1) /\ free'[k] = free[j]
      BY <3>1, RemoveEntry
    <3>3. \A k \in 0 .. (frees' - 1) : free'[k].size > 0
      BY <3>1, <3>2 DEF Coalesced
    <3>4. ASSUME NEW j \in 0 .. (frees' - 1), NEW k \in 0 .. (frees' - 1), j < k
          PROVE  free'[j].addr + free'[j].size < free'[k].addr
      <4>1. PICK p \in 0 .. (frees - 1) :
               p = (IF j < i THEN j ELSE j + 1) /\ free'[j] = free[p]
        BY <3>1, <3>2
      <4>2. PICK q \in 0 .. (frees - 1) :
               q = (IF k < i THEN k ELSE k + 1) /\ free'[k] = free[q]
        BY <3>1, <3>2
      <4>3. p < q
        BY <4>1, <4>2, <3>4, <1>0, <3>1
      <4> QED BY <4>1, <4>2, <4>3 DEF Coalesced
    <3> QED BY <2>1, <3>3, <3>4 DEF Coalesced
  <2>3. CASE free[i].size # n
    <3> DEFINE rest == Block(free[i].addr + n, free[i].size - n)
    <3>1. frees' = frees /\ free' = [free EXCEPT ![i] = rest]
      BY <1>2, <2>3
    <3>2. /\ rest.size > 0 /\ free[i].addr <= rest.addr /\ rest \in Blocks
          /\ rest.addr + rest.size = free[i].addr + free[i].size
      BY <1>0, <1>2, <2>3 DEF FirstFit, Block, Blocks
    <3> HIDE DEF rest
    <3>3. \A k \in 0 .. (frees' - 1) : free'[k].size > 0
      BY <1>0, <3>1, <3>2 DEF Coalesced
    <3>4. \A j, k \in 0 .. (frees' - 1) :
             j < k => free'[j].addr + free'[j].size < free'[k].addr
      BY <1>0, <3>1, <3>2 DEF Coalesced, Blocks
    <3> QED BY <2>1, <3>3, <3>4 DEF Coalesced
  <2> QED BY <2>2, <2>3
<1> QED BY <1>1, <1>2 DEF MemmanAlloc

LEMMA FreeSorted ==
  ASSUME SortedInv, NEW b \in owned, MemmanFree(b)
  PROVE  Coalesced' /\ \A c \in owned' : c.size > 0
<1> USE DEF SortedInv, SafeInv
<1>0. /\ frees \in Nat /\ free \in [0 .. (frees - 1) -> Blocks]
      /\ b \in Blocks /\ b.addr \in Nat /\ b.size \in Nat /\ b.size > 0
      /\ \A k \in 0 .. (frees - 1) :
            /\ free[k].addr \in Nat /\ free[k].size \in Nat /\ free[k].size > 0
            /\ \/ b.addr + b.size <= free[k].addr
               \/ free[k].addr + free[k].size <= b.addr
  <2>1. /\ frees \in Nat /\ free \in [0 .. (frees - 1) -> Blocks]
        /\ b \in Blocks /\ b.size > 0
    BY MemManAssumption DEF TypeOK
  <2>2. \A k \in 0 .. (frees - 1) :
           free[k] \in Blocks /\ free[k].size > 0 /\ Apart(b, free[k])
    BY <2>1 DEF NoOverlap, Coalesced
  <2> QED BY <2>1, <2>2 DEF Apart, Blocks
<1>1. \A j, k \in 0 .. (frees - 1) :
         j < k => free[j].addr + free[j].size < free[k].addr
  BY DEF Coalesced
<1>a. \A k \in 0 .. (frees - 1) :
         free[k].addr \in Nat /\ free[k].addr + free[k].size \in Nat
  BY <1>0
<1>b. b.addr + b.size \in Nat
  BY <1>0
<1>c. \A j, k \in 0 .. (frees - 1) :
         j <= k => /\ free[j].addr <= free[k].addr
                   /\ free[j].addr + free[j].size <= free[k].addr + free[k].size
  <2> SUFFICES ASSUME NEW j \in 0 .. (frees - 1), NEW k \in 0 .. (frees - 1), j < k
               PROVE  /\ free[j].addr <= free[k].addr
                      /\ free[j].addr + free[j].size <= free[k].addr + free[k].size
    BY <1>a, <1>0
  <2>1. free[j].addr + free[j].size < free[k].addr
    BY <1>1
  <2> QED BY <2>1, <1>0
<1>2. owned' = owned \ {b} /\ \A c \in owned' : c.size > 0
  BY DEF MemmanFree
<1>3. PICK i \in 0 .. frees :
         /\ Position(i, b.addr)
         /\ JoinBoth(i, b) \/ JoinFront(i, b) \/ JoinBack(i, b)
               \/ Insert(i, b) \/ Lose(i, b)
  BY DEF MemmanFree
\* Entries before i end before b starts, entries from i on start behind b.
<1>4. \A k \in 0 .. (frees - 1) :
         /\ k < i => free[k].addr + free[k].size <= b.addr
         /\ k >= i => b.addr + b.size <= free[k].addr
  <2>1. ASSUME NEW k \in 0 .. (frees - 1), k < i
        PROVE  free[k].addr + free[k].size <= b.addr
    <3>1. free[k].addr <= b.addr
      BY <1>3, <2>1 DEF Position
    <3>2. /\ free[k].addr \in Nat /\ b.addr \in Nat /\ b.size \in Nat /\ b.size > 0
          /\ b.addr + b.size <= free[k].addr \/ free[k].addr + free[k].size <= b.addr
      BY <1>0
    <3> QED BY <3>1, <3>2
  <2>2. ASSUME NEW k \in 0 .. (frees - 1), k >= i
        PROVE  b.addr + b.size <= free[k].addr
    <3>1. free[i].addr > b.addr /\ i \in 0 .. (frees - 1)
      BY <1>0, <1>3, <2>2 DEF Position
    <3>2. free[k].addr >= free[i].addr
      BY SMTT(60), <3>1, <2>2, <1>0, <1>1
    <3>3. /\ free[i].addr \in Nat /\ free[k].addr \in Nat /\ free[k].size \in Nat
          /\ b.addr \in Nat /\ b.size \in Nat /\ free[k].size > 0
      BY <3>1, <1>0
    <3>4. b.addr + b.size <= free[k].addr \/ free[k].addr + free[k].size <= b.addr
      BY <1>0
    <3>5. free[k].addr + free[k].size > b.addr
      BY <3>1, <3>2, <3>3
    <3> QED BY <3>4, <3>5, <3>3
  <2> QED BY <2>1, <2>2
<1>5. CASE JoinBoth(i, b)
  <2> DEFINE m == Block(free[i - 1].addr, free[i - 1].size + b.size + free[i].size)
  <2>1. /\ i \in 1 .. (frees - 1) /\ i - 1 \in 0 .. (frees - 1)
        /\ free[i - 1].addr + free[i - 1].size = b.addr
        /\ b.addr + b.size = free[i].addr
    BY <1>0, <1>5 DEF JoinBoth, JoinsFront, JoinsBack
  <2>2. /\ m.size > 0 /\ m.addr = free[i - 1].addr
        /\ m.addr + m.size = free[i].addr + free[i].size
    BY SMTT(60), <1>0, <2>1 DEF Block
  <2> HIDE DEF m
  <2>3. frees' = frees - 1 /\ free' = [Remove(i) EXCEPT ![i - 1] = m]
    BY <1>5 DEF JoinBoth, m
  <2>4. /\ free'[i - 1] = m
        /\ \A k \in 0 .. (frees' - 1) : k # i - 1 =>
              \E j \in 0 .. (frees - 1) :
                 j = (IF k < i THEN k ELSE k + 1) /\ free'[k] = free[j]
    <3>1. /\ Remove(i) \in [0 .. (frees - 1 - 1) -> Blocks]
          /\ \A k \in 0 .. (frees - 1 - 1) :
                \E j \in 0 .. (frees - 1) :
                   j = (IF k < i THEN k ELSE k + 1) /\ Remove(i)[k] = free[j]
      <4>1. i \in 0 .. (frees - 1) /\ TypeOK
        BY <2>1, <1>0
      <4> QED BY <4>1, RemoveEntry
    <3>2. i - 1 \in 0 .. (frees - 1 - 1)
      BY <2>1, <1>0
    <3>3. free'[i - 1] = m
      BY <2>3, <3>1, <3>2
    <3>4. \A k \in 0 .. (frees - 1 - 1) : k # i - 1 => free'[k] = Remove(i)[k]
      BY <2>3, <3>1
    <3> QED BY <2>3, <3>1, <3>3, <3>4
  <2>5. \A k \in 0 .. (frees' - 1) : free'[k].size > 0
    BY <2>2, <2>4, <1>0
  <2>6. ASSUME NEW j \in 0 .. (frees' - 1), NEW k \in 0 .. (frees' - 1), j < k
        PROVE  free'[j].addr + free'[j].size < free'[k].addr
    <3>1. CASE j # i - 1 /\ k # i - 1
      <4>1. PICK p \in 0 .. (frees - 1) :
               p = (IF j < i THEN j ELSE j + 1) /\ free'[j] = free[p]
        BY <2>4, <3>1
      <4>2. PICK q \in 0 .. (frees - 1) :
               q = (IF k < i THEN k ELSE k + 1) /\ free'[k] = free[q]
        BY <2>4, <3>1
      <4>3. p < q
        BY <4>1, <4>2, <2>6, <1>0, <2>3
      <4> QED BY <4>1, <4>2, <4>3, <1>1
    <3>2. CASE j = i - 1
      <4>1. PICK q \in 0 .. (frees - 1) : q > i /\ free'[k] = free[q]
        <5>1. PICK q \in 0 .. (frees - 1) :
                 q = (IF k < i THEN k ELSE k + 1) /\ free'[k] = free[q]
          BY <2>4, <2>6, <3>2
        <5> QED BY <5>1, <2>6, <3>2, <2>1, <1>0
      <4> QED BY <4>1, <2>1, <2>2, <2>4, <3>2, <1>1
    <3>3. CASE k = i - 1
      <4>1. PICK q \in 0 .. (frees - 1) : q < i - 1 /\ free'[j] = free[q]
        <5>1. PICK q \in 0 .. (frees - 1) :
                 q = (IF j < i THEN j ELSE j + 1) /\ free'[j] = free[q]
          BY <2>4, <2>6, <3>3
        <5> QED BY <5>1, <2>6, <3>3, <2>1, <1>0
      <4> QED BY <4>1, <2>1, <2>2, <2>4, <3>3, <1>1
    <3> QED BY <3>1, <3>2, <3>3
  <2> QED BY <1>2, <2>5, <2>6 DEF Coalesced
<1>6. CASE JoinFront(i, b)
  <2> DEFINE m == Block(free[i - 1].addr, free[i - 1].size + b.size)
  <2>1. /\ i - 1 \in 0 .. (frees - 1)
        /\ free[i - 1].addr + free[i - 1].size = b.addr
        /\ i < frees => b.addr + b.size # free[i].addr
    BY <1>0, <1>6 DEF JoinFront, JoinsFront, JoinsBack
  <2>2. m.size > 0 /\ m.addr = free[i - 1].addr /\ m.addr + m.size = b.addr + b.size
    BY <1>0, <2>1 DEF Block
  <2> HIDE DEF m
  <2>3. frees' = frees /\ free' = [free EXCEPT ![i - 1] = m]
    BY <1>6 DEF JoinFront, m
  <2>4. \A k \in 0 .. (frees - 1) : k >= i => b.addr + b.size < free[k].addr
    <3> SUFFICES ASSUME NEW k \in 0 .. (frees - 1), k >= i
                 PROVE  b.addr + b.size < free[k].addr
      OBVIOUS
    <3>0. i \in 0 .. (frees - 1) /\ i < frees /\ i >= i
      BY <1>0
    <3>1. b.addr + b.size < free[i].addr /\ i \in 0 .. (frees - 1)
      <4>1. b.addr + b.size <= free[i].addr
        BY <3>0, <1>4
      <4> QED BY <3>0, <4>1, <1>a, <1>b, <1>0, <2>1
    <3>2. free[i].addr <= free[k].addr
      BY <3>1, <1>0, <1>c
    <3> QED BY <3>1, <3>2, <1>0
  <2>5. \A k \in 0 .. (frees' - 1) : free'[k].size > 0
    BY <1>0, <2>1, <2>2, <2>3
  <2>6. \A j, k \in 0 .. (frees' - 1) :
           j < k => free'[j].addr + free'[j].size < free'[k].addr
    BY <1>0, <1>1, <2>1, <2>2, <2>3, <2>4
  <2> QED BY <1>2, <2>5, <2>6 DEF Coalesced
<1>7. CASE JoinBack(i, b)
  <2> DEFINE m == Block(b.addr, free[i].size + b.size)
  <2>1. /\ i \in 0 .. (frees - 1)
        /\ b.addr + b.size = free[i].addr
        /\ i > 0 => free[i - 1].addr + free[i - 1].size # b.addr
    BY <1>0, <1>7 DEF JoinBack, JoinsFront, JoinsBack
  <2>2. /\ m.size > 0 /\ m.addr = b.addr
        /\ m.addr + m.size = free[i].addr + free[i].size
    BY <1>0, <2>1 DEF Block
  <2> HIDE DEF m
  <2>3. frees' = frees /\ free' = [free EXCEPT ![i] = m]
    BY <1>7 DEF JoinBack, m
  <2>4. \A k \in 0 .. (frees - 1) : k < i => free[k].addr + free[k].size < b.addr
    <3> SUFFICES ASSUME NEW k \in 0 .. (frees - 1), k < i
                 PROVE  free[k].addr + free[k].size < b.addr
      OBVIOUS
    <3>0. i - 1 \in 0 .. (frees - 1) /\ i > 0 /\ i - 1 < i
      BY <1>0
    <3>1. i - 1 \in 0 .. (frees - 1) /\ free[i - 1].addr + free[i - 1].size < b.addr
      <4>1. free[i - 1].addr + free[i - 1].size <= b.addr
        BY <3>0, <1>4
      <4> QED BY <3>0, <4>1, <1>a, <1>b, <1>0, <2>1
    <3>2. free[k].addr + free[k].size <= free[i - 1].addr + free[i - 1].size
      BY <3>1, <1>0, <1>c
    <3> QED BY <3>1, <3>2, <1>0
  <2>5. \A k \in 0 .. (frees' - 1) : free'[k].size > 0
    BY <1>0, <2>1, <2>2, <2>3
  <2>6. \A j, k \in 0 .. (frees' - 1) :
           j < k => free'[j].addr + free'[j].size < free'[k].addr
    BY <1>0, <1>1, <2>1, <2>2, <2>3, <2>4
  <2> QED BY <1>2, <2>5, <2>6 DEF Coalesced
<1>8. CASE Insert(i, b)
  <2>1. /\ frees' = frees + 1 /\ free' = InsertAt(i, b)
        /\ i > 0 => free[i - 1].addr + free[i - 1].size # b.addr
        /\ i < frees => b.addr + b.size # free[i].addr
    BY <1>8 DEF Insert, JoinsFront, JoinsBack
  <2>2. /\ free'[i] = b
        /\ \A k \in 0 .. (frees' - 1) : k # i =>
              \E j \in 0 .. (frees - 1) :
                 j = (IF k < i THEN k ELSE k - 1) /\ free'[k] = free[j]
    <3>1. /\ InsertAt(i, b)[i] = b
          /\ \A k \in 0 .. frees : k # i =>
                \E j \in 0 .. (frees - 1) :
                   j = (IF k < i THEN k ELSE k - 1) /\ InsertAt(i, b)[k] = free[j]
      <4>1. TypeOK /\ i \in 0 .. frees /\ b \in Blocks BY <1>0
      <4> QED BY <4>1, InsertEntry, ZenonT(60)
    <3> QED BY <3>1, <2>1, <1>0
  <2>3. /\ \A k \in 0 .. (frees - 1) : k < i => free[k].addr + free[k].size < b.addr
        /\ \A k \in 0 .. (frees - 1) : k >= i => b.addr + b.size < free[k].addr
    <3>1. ASSUME NEW k \in 0 .. (frees - 1), k < i
          PROVE  free[k].addr + free[k].size < b.addr
      <4>0. i - 1 \in 0 .. (frees - 1) /\ i > 0 /\ i - 1 < i
        BY <1>0, <3>1
      <4>1. i - 1 \in 0 .. (frees - 1) /\ free[i - 1].addr + free[i - 1].size < b.addr
        <5>1. free[i - 1].addr + free[i - 1].size <= b.addr
          BY <4>0, <1>4
        <5> QED BY <4>0, <5>1, <1>a, <1>b, <1>0, <2>1
      <4>2. free[k].addr + free[k].size <= free[i - 1].addr + free[i - 1].size
        BY <4>1, <1>0, <1>c, <3>1
      <4> QED BY <4>1, <4>2, <1>0
    <3>2. ASSUME NEW k \in 0 .. (frees - 1), k >= i
          PROVE  b.addr + b.size < free[k].addr
      <4>0. i \in 0 .. (frees - 1) /\ i < frees /\ i >= i
        BY <1>0, <3>2
      <4>1. b.addr + b.size < free[i].addr /\ i \in 0 .. (frees - 1)
        <5>1. b.addr + b.size <= free[i].addr
          BY <4>0, <1>4
        <5> QED BY <4>0, <5>1, <1>a, <1>b, <1>0, <2>1
      <4>2. free[i].addr <= free[k].addr
        BY <4>1, <1>0, <1>c, <3>2
      <4> QED BY <4>1, <4>2, <1>0
    <3> QED BY <3>1, <3>2
  <2>4. \A k \in 0 .. (frees' - 1) : free'[k].size > 0
    BY <2>2, <1>0
  <2>5. ASSUME NEW j \in 0 .. (frees' - 1), NEW k \in 0 .. (frees' - 1), j < k
        PROVE  free'[j].addr + free'[j].size < free'[k].addr
    <3>1. CASE j # i /\ k # i
      <4>1. PICK p \in 0 .. (frees - 1) :
               p = (IF j < i THEN j ELSE j - 1) /\ free'[j] = free[p]
        BY <2>2, <3>1
      <4>2. PICK q \in 0 .. (frees - 1) :
               q = (IF k < i THEN k ELSE k - 1) /\ free'[k] = free[q]
        BY <2>2, <3>1
      <4>3. p < q
        BY <4>1, <4>2, <3>1, <2>5, <1>0, <2>1
      <4> QED BY <4>1, <4>2, <4>3, <1>1
    <3>2. CASE j = i
      <4>1. PICK q \in 0 .. (frees - 1) : q >= i /\ free'[k] = free[q]
        <5>1. PICK q \in 0 .. (frees - 1) :
                 q = (IF k < i THEN k ELSE k - 1) /\ free'[k] = free[q]
          BY <2>2, <2>5, <3>2
        <5> QED BY <5>1, <2>5, <3>2, <1>0
      <4> QED BY <4>1, <2>2, <2>3, <3>2
    <3>3. CASE k = i
      <4>1. PICK q \in 0 .. (frees - 1) : q < i /\ free'[j] = free[q]
        <5>1. PICK q \in 0 .. (frees - 1) :
                 q = (IF j < i THEN j ELSE j - 1) /\ free'[j] = free[q]
          BY <2>2, <2>5, <3>3
        <5> QED BY <5>1, <2>5, <3>3, <1>0
      <4> QED BY <4>1, <2>2, <2>3, <3>3
    <3> QED BY <3>1, <3>2, <3>3
  <2> QED BY <1>2, <2>4, <2>5 DEF Coalesced
<1>9. CASE Lose(i, b)
  BY <1>2, <1>9 DEF Lose, Coalesced
<1> QED BY <1>3, <1>5, <1>6, <1>7, <1>8, <1>9

LEMMA SortedStep == NonEmptyRequests /\ SortedInv /\ [Next]_vars => SortedInv'
<1> SUFFICES ASSUME NonEmptyRequests, SortedInv, [Next]_vars PROVE SortedInv'
  OBVIOUS
<1>0. SafeInv'
  BY SafeStep DEF SortedInv
<1> SUFFICES Coalesced' /\ \A b \in owned' : b.size > 0
  BY <1>0 DEF SortedInv
<1>1. CASE HariMainDonates
  <2>1. booted + 1 \in (booted + 1) .. Len(Boot) /\ MemmanFree(Boot[booted + 1])
    BY <1>1, BootBlocks DEF HariMainDonates, SortedInv, SafeInv, TypeOK
  <2>2. Boot[booted + 1] \in owned
    BY <2>1 DEF SortedInv, SafeInv, Pending
  <2> QED BY <2>1, <2>2, FreeSorted
<1>2. ASSUME NEW size \in Sizes, MemmanAlloc4k(size)
      PROVE  Coalesced' /\ \A b \in owned' : b.size > 0
  BY <1>2, AllocSorted, RoundUpNat DEF MemmanAlloc4k, NonEmptyRequests
<1>3. ASSUME NEW b \in owned, NEW size \in Sizes, MemmanFree4k(b, size)
      PROVE  Coalesced' /\ \A c \in owned' : c.size > 0
  <2>1. Block(b.addr, RoundUp(size)) = b
    BY <1>3 DEF MemmanFree4k, Block, TypeOK, Blocks, SortedInv, SafeInv
  <2> QED BY <1>3, <2>1, FreeSorted DEF MemmanFree4k
<1>4. CASE UNCHANGED vars
  BY <1>4 DEF vars, man, Coalesced, SortedInv
<1> QED BY <1>1, <1>2, <1>3, <1>4 DEF Next

LEMMA SortedInit == MemmanInit => SortedInv
<1> SUFFICES ASSUME MemmanInit PROVE SortedInv
  OBVIOUS
<1>1. SafeInv
  BY SafeInit
<1>2. Coalesced
  BY DEF MemmanInit, Coalesced
<1>3. \A k \in 1 .. Len(Boot) : Boot[k].size > 0
  BY BootBlocks
<1> QED BY <1>1, <1>2, <1>3 DEF SortedInv, MemmanInit

\* The table is always sorted and no two of its entries touch, provided that
\* no caller asks for an empty block.
THEOREM TableSorted == NonEmptyRequests => (Spec => []Coalesced)
<1> SUFFICES ASSUME NonEmptyRequests PROVE Spec => []Coalesced
  OBVIOUS
<1>1. MemmanInit => SortedInv
  BY SortedInit
<1>2. SortedInv => Coalesced
  BY DEF SortedInv
<1>3. SortedInv /\ [Next]_vars => SortedInv'
  BY SortedStep
<1> QED BY <1>1, <1>2, <1>3, PTL DEF Spec
-----------------------------------------------------------------------------
(* Counting up *)

LEMMA LessWellFounded == IsWellFoundedOn({p \in Nat \X Nat : p[1] < p[2]}, Nat)
<1>1. OpToRel(<, Nat) = {p \in Nat \X Nat : p[1] < p[2]}
  BY Zenon DEF OpToRel
<1> QED BY <1>1, NatLessThanWellFounded, Zenon

\* What holds for 0 and carries over to the next number holds up to n.
LEMMA Counting ==
  ASSUME NEW n \in Nat, NEW S, 0 \in S, \A k \in 0 .. (n - 1) : k \in S => k + 1 \in S
  PROVE  \A k \in 0 .. n : k \in S
<1> SUFFICES ASSUME NEW j \in 0 .. n, j \notin S PROVE FALSE
  OBVIOUS
<1> DEFINE R == {p \in Nat \X Nat : p[1] < p[2]}
           T == (0 .. n) \ S
<1>1. T \in SUBSET Nat /\ T # {}
  OBVIOUS
<1>2. PICK m \in T : \A k \in T : <<k, m>> \notin R
  <2> HIDE DEF R, T
  <2> QED BY <1>1, LessWellFounded, WFMin DEF R
<1>3. \A k \in T : ~(k < m)
  <2>1. \A k \in T : k \in Nat /\ m \in Nat
    BY <1>1
  <2>2. \A k \in Nat : k < m /\ m \in Nat => <<k, m>> \in R
    OBVIOUS
  <2> QED BY <1>2, <2>1, <2>2
<1>4. m - 1 \in 0 .. (n - 1) /\ m - 1 < m /\ (m - 1) + 1 = m /\ m - 1 \in 0 .. n
  BY <1>2
<1> QED BY <1>2, <1>3, <1>4

-----------------------------------------------------------------------------
(* memman_total: the sum over the table *)

Totals(n, f, t) == t = [k \in 0 .. n |-> IF k = 0 THEN 0 ELSE t[k - 1] + f[k - 1].size]

Total(n, f) ==
  LET t[k \in 0 .. n] == IF k = 0 THEN 0 ELSE t[k - 1] + f[k - 1].size
  IN  t[n]

LEMMA TotalsExist ==
  ASSUME NEW n \in Nat, NEW f
  PROVE  \E t : Totals(n, f, t)
<1> DEFINE S == {k \in 0 .. n : \E t : Totals(k, f, t)}
<1>1. 0 \in S
  <2>1. Totals(0, f, [k \in 0 .. 0 |-> 0])
    BY DEF Totals
  <2> QED BY <2>1
<1>2. ASSUME NEW m \in 0 .. (n - 1), m \in S
      PROVE  m + 1 \in S
  <2>1. PICK t : Totals(m, f, t)
    BY <1>2
  <2> DEFINE u == [k \in 0 .. (m + 1) |-> IF k = m + 1 THEN t[m] + f[m].size ELSE t[k]]
  <2>2. ASSUME NEW k \in 0 .. (m + 1)
        PROVE  u[k] = IF k = 0 THEN 0 ELSE u[k - 1] + f[k - 1].size
    <3>1. CASE k = m + 1
      <4>1. k # 0 /\ k - 1 = m /\ m \in 0 .. (m + 1) /\ m # m + 1
        BY <3>1
      <4> QED BY <4>1, <3>1
    <3>2. CASE k # m + 1
      <4>1. k \in 0 .. m /\ u[k] = t[k]
        BY <3>2
      <4>2. t[k] = IF k = 0 THEN 0 ELSE t[k - 1] + f[k - 1].size
        BY <2>1, <4>1 DEF Totals
      <4>3. k # 0 => k - 1 \in 0 .. (m + 1) /\ k - 1 # m + 1
        BY <4>1
      <4>4. k # 0 => u[k - 1] = t[k - 1]
        BY <4>3
      <4> QED BY <4>1, <4>2, <4>4
    <3> QED BY <3>1, <3>2
  <2>3. u = [k \in 0 .. (m + 1) |-> u[k]]
    OBVIOUS
  <2> HIDE DEF u
  <2>4. u = [k \in 0 .. (m + 1) |-> IF k = 0 THEN 0 ELSE u[k - 1] + f[k - 1].size]
    BY <2>2, <2>3
  <2>5. Totals(m + 1, f, u)
    BY <2>4, Zenon DEF Totals
  <2>6. m + 1 \in 0 .. n
    OBVIOUS
  <2> QED BY <2>5, <2>6
<1>3. \A k \in 0 .. n : k \in S
  <2> HIDE DEF S
  <2> QED BY <1>1, <1>2, Counting
<1> QED BY <1>3

LEMMA TotalIs ==
  ASSUME NEW n \in Nat, NEW f
  PROVE  \E t : Totals(n, f, t) /\ Total(n, f) = t[n]
<1>1. PICK t : Totals(n, f, t)
  BY TotalsExist
<1> DEFINE u == CHOOSE g : Totals(n, f, g)
<1>2. Totals(n, f, u)
  BY <1>1, Zenon
<1>3. Total(n, f) = u[n]
  BY Zenon DEF Total, Totals
<1> QED BY <1>2, <1>3

\* One more turn of the loop.
LEMMA TotalNext ==
  ASSUME NEW n \in Nat, NEW f
  PROVE  Total(0, f) = 0 /\ Total(n + 1, f) = Total(n, f) + f[n].size
<1>1. PICK z : Totals(0, f, z) /\ Total(0, f) = z[0]
  BY TotalIs
<1>2. Total(0, f) = 0
  BY <1>1 DEF Totals
<1>3. PICK t : Totals(n, f, t) /\ Total(n, f) = t[n]
  BY TotalIs
<1>4. PICK u : Totals(n + 1, f, u) /\ Total(n + 1, f) = u[n + 1]
  BY TotalIs
<1> DEFINE S == {k \in 0 .. n : t[k] = u[k]}
<1>5. /\ t[0] = 0 /\ u[0] = 0
      /\ \A k \in 0 .. (n - 1) : t[k + 1] = t[k] + f[k].size
      /\ \A k \in 0 .. n : u[k + 1] = u[k] + f[k].size
  <2>1. \A k \in 0 .. n : t[k] = IF k = 0 THEN 0 ELSE t[k - 1] + f[k - 1].size
    BY <1>3 DEF Totals
  <2>2. \A k \in 0 .. (n + 1) : u[k] = IF k = 0 THEN 0 ELSE u[k - 1] + f[k - 1].size
    BY <1>4 DEF Totals
  <2>3. \A k \in 0 .. n : k + 1 \in 0 .. (n + 1) /\ k + 1 # 0 /\ (k + 1) - 1 = k
    OBVIOUS
  <2>4. \A k \in 0 .. (n - 1) : k + 1 \in 0 .. n /\ k + 1 # 0 /\ (k + 1) - 1 = k
    OBVIOUS
  <2>5. 0 \in 0 .. n /\ 0 \in 0 .. (n + 1)
    OBVIOUS
  <2>6. t[0] = 0 /\ u[0] = 0
    BY <2>1, <2>2, <2>5
  <2>7. \A k \in 0 .. (n - 1) : t[k + 1] = t[k] + f[k].size
    BY <2>1, <2>4
  <2>8. \A k \in 0 .. n : u[k + 1] = u[k] + f[k].size
    BY <2>2, <2>3
  <2> QED BY <2>6, <2>7, <2>8
<1>6. \A k \in 0 .. n : k \in S
  <2>1. 0 \in S
    BY <1>5
  <2>2. \A k \in 0 .. (n - 1) : k \in S => k + 1 \in S
    BY <1>5
  <2> HIDE DEF S
  <2> QED BY <2>1, <2>2, Counting
<1>7. t[n] = u[n]
  BY <1>6
<1> QED BY <1>2, <1>3, <1>4, <1>5, <1>7

\* The first n entries are there.
Sized(n, f) == \A k \in 0 .. (n - 1) : f[k].size \in Nat

\* The entries of f from i to n have the sizes of those of g from j on.
Shifted(i, n, j, f, g) == \A k \in 0 .. (n - i - 1) : g[j + k].size = f[i + k].size

LEMMA TotalNat ==
  ASSUME NEW n \in Nat, NEW f, Sized(n, f)
  PROVE  \A k \in 0 .. n : Total(k, f) \in Nat
<1> DEFINE S == {k \in 0 .. n : Total(k, f) \in Nat}
<1>1. 0 \in S
  BY TotalNext
<1>2. ASSUME NEW k \in 0 .. (n - 1), k \in S PROVE k + 1 \in S
  <2>1. Total(k + 1, f) = Total(k, f) + f[k].size
    BY TotalNext
  <2> QED BY <1>2, <2>1 DEF Sized
<1>3. \A k \in 0 .. n : k \in S
  <2> HIDE DEF S
  <2> QED BY <1>1, <1>2, Counting
<1> QED BY <1>3

\* A run of entries counts the same wherever in the table it is.
LEMMA TotalShifted ==
  ASSUME NEW i \in Nat, NEW n \in Nat, i <= n, NEW j \in Nat, NEW m \in Nat, m - j = n - i,
         NEW f, NEW g, Sized(n, f), Sized(m, g), Shifted(i, n, j, f, g)
  PROVE  /\ Total(m, g) - Total(j, g) = Total(n, f) - Total(i, f)
         /\ Total(m, g) \in Nat /\ Total(j, g) \in Nat
         /\ Total(n, f) \in Nat /\ Total(i, f) \in Nat
<1>1. n - i \in Nat /\ j \in 0 .. m /\ i \in 0 .. n /\ n \in 0 .. n /\ m \in 0 .. m
  OBVIOUS
<1>2. /\ \A k \in 0 .. n : Total(k, f) \in Nat
      /\ \A k \in 0 .. m : Total(k, g) \in Nat
  BY <1>1, TotalNat
<1> DEFINE S == {k \in 0 .. (n - i) :
                    Total(j + k, g) - Total(j, g) = Total(i + k, f) - Total(i, f)}
<1>3. 0 \in S
  <2>1. j + 0 = j /\ i + 0 = i /\ 0 \in 0 .. (n - i)
    BY <1>1
  <2> QED BY <2>1, <1>1, <1>2
<1>4. ASSUME NEW k \in 0 .. (n - i - 1), k \in S PROVE k + 1 \in S
  <2>1. /\ j + k \in Nat /\ j + (k + 1) = (j + k) + 1
        /\ i + k \in Nat /\ i + (k + 1) = (i + k) + 1
        /\ k + 1 \in 0 .. (n - i)
        /\ i + k \in 0 .. n /\ i + k \in 0 .. (n - 1) /\ j + k \in 0 .. m
    BY <1>1
  <2>2. Total(j + (k + 1), g) = Total(j + k, g) + g[j + k].size
    BY <2>1, TotalNext
  <2>3. Total(i + (k + 1), f) = Total(i + k, f) + f[i + k].size
    BY <2>1, TotalNext
  <2>4. g[j + k].size = f[i + k].size /\ f[i + k].size \in Nat
    BY <2>1 DEF Sized, Shifted
  <2>5. /\ Total(j + k, g) \in Nat /\ Total(j, g) \in Nat
        /\ Total(i + k, f) \in Nat /\ Total(i, f) \in Nat
    BY <1>1, <1>2, <2>1
  <2>6. Total(j + k, g) - Total(j, g) = Total(i + k, f) - Total(i, f)
    BY <1>4
  <2> QED BY <2>1, <2>2, <2>3, <2>4, <2>5, <2>6
<1>5. \A k \in 0 .. (n - i) : k \in S
  <2> HIDE DEF S
  <2>1. \A k \in 0 .. (n - i - 1) : k \in S => k + 1 \in S
    BY <1>4
  <2> QED BY <1>1, <1>3, <2>1, Counting
<1>6. n - i \in S /\ j + (n - i) = m /\ i + (n - i) = n
  BY <1>1, <1>5
<1> QED BY <1>1, <1>2, <1>6

\* The loop reads the first n entries only.
LEMMA TotalSame ==
  ASSUME NEW n \in Nat, NEW f, NEW g, Sized(n, f), \A k \in 0 .. (n - 1) : g[k].size = f[k].size
  PROVE  Total(n, g) = Total(n, f) /\ Total(n, f) \in Nat
<1>1. Sized(n, g)
  BY DEF Sized
<1>2. Shifted(0, n, 0, f, g)
  <2>1. \A k \in 0 .. (n - 0 - 1) : k \in 0 .. (n - 1) /\ 0 + k = k
    OBVIOUS
  <2> QED BY <2>1 DEF Shifted
<1>3. /\ Total(n, g) - Total(0, g) = Total(n, f) - Total(0, f)
      /\ Total(n, g) \in Nat /\ Total(n, f) \in Nat
  <2>1. 0 \in Nat /\ 0 <= n /\ n - 0 = n - 0
    OBVIOUS
  <2> QED BY <1>1, <1>2, <2>1, TotalShifted
<1> QED BY <1>3, TotalNext

LEMMA SizedTable ==
  ASSUME NEW n \in Nat, NEW f \in [0 .. (n - 1) -> Blocks]
  PROVE  /\ Sized(n, f) /\ Total(n, f) \in Nat
         /\ \A i \in 0 .. n : Sized(i, f)
         /\ \A i \in 0 .. (n - 1) : f[i] \in Blocks /\ f[i].size \in Nat
<1>1. \A i \in 0 .. (n - 1) : f[i] \in Blocks /\ f[i].size \in Nat
  BY DEF Blocks
<1>2. Sized(n, f) /\ \A i \in 0 .. n : Sized(i, f)
  BY <1>1 DEF Sized
<1>3. n \in 0 .. n
  OBVIOUS
<1> QED BY <1>1, <1>2, <1>3, TotalNat

\* What entering, taking out and changing an entry does to the total.
LEMMA TotalExcept ==
  ASSUME NEW n \in Nat, NEW f \in [0 .. (n - 1) -> Blocks], NEW i \in 0 .. (n - 1), NEW b \in Blocks
  PROVE  Total(n, [f EXCEPT ![i] = b]) = Total(n, f) - f[i].size + b.size
<1> DEFINE g == [f EXCEPT ![i] = b]
<1>1. /\ g \in [0 .. (n - 1) -> Blocks]
      /\ g[i] = b /\ \A k \in 0 .. (n - 1) : k # i => g[k] = f[k]
  OBVIOUS
<1> HIDE DEF g
<1>2. i \in Nat /\ i + 1 \in Nat /\ i + 1 <= n /\ i \in 0 .. n /\ n - (i + 1) = n - (i + 1)
  OBVIOUS
<1>3. Sized(n, f) /\ Sized(i, f) /\ Sized(n, g) /\ f[i].size \in Nat /\ b.size \in Nat
  <2>1. b.size \in Nat
    BY DEF Blocks
  <2> QED BY <1>1, <1>2, <2>1, SizedTable
<1>4. Total(i, g) = Total(i, f) /\ Total(i, f) \in Nat
  <2>1. \A k \in 0 .. (i - 1) : g[k].size = f[k].size
    BY <1>1
  <2> QED BY <1>2, <1>3, <2>1, TotalSame
<1>5. Total(i + 1, f) = Total(i, f) + f[i].size /\ Total(i + 1, g) = Total(i, g) + b.size
  BY <1>1, <1>2, TotalNext
<1>6. Shifted(i + 1, n, i + 1, f, g)
  <2>1. \A k \in 0 .. (n - (i + 1) - 1) : (i + 1) + k \in 0 .. (n - 1) /\ (i + 1) + k # i
    OBVIOUS
  <2> QED BY <1>1, <2>1 DEF Shifted
<1>7. /\ Total(n, g) - Total(i + 1, g) = Total(n, f) - Total(i + 1, f)
      /\ Total(n, g) \in Nat /\ Total(i + 1, g) \in Nat
      /\ Total(n, f) \in Nat /\ Total(i + 1, f) \in Nat
  BY <1>2, <1>3, <1>6, TotalShifted
<1>8. Total(n, g) = Total(n, f) - f[i].size + b.size
  <2>1. Total(i + 1, g) - Total(i + 1, f) = b.size - f[i].size
    BY <1>3, <1>4, <1>5
  <2> QED BY SMTT(30), <1>3, <1>7, <2>1
<1> QED BY <1>8 DEF g

LEMMA TotalRemove ==
  ASSUME NEW n \in Nat, NEW f \in [0 .. (n - 1) -> Blocks], NEW i \in 0 .. (n - 1), NEW g,
         \A k \in 0 .. (n - 2) : g[k] = IF k < i THEN f[k] ELSE f[k + 1]
  PROVE  Total(n - 1, g) = Total(n, f) - f[i].size
<1>1. /\ i \in Nat /\ i + 1 \in Nat /\ i + 1 <= n /\ i \in 0 .. n
      /\ n - 1 \in Nat /\ (n - 1) - i = n - (i + 1)
  OBVIOUS
<1>2. /\ \A k \in 0 .. (i - 1) : k \in 0 .. (n - 1) /\ g[k] = f[k]
      /\ \A k \in i .. (n - 2) : k + 1 \in 0 .. (n - 1) /\ g[k] = f[k + 1]
  <2>1. /\ \A k \in 0 .. (i - 1) : k \in 0 .. (n - 1) /\ k \in 0 .. (n - 2) /\ k < i
        /\ \A k \in i .. (n - 2) : k + 1 \in 0 .. (n - 1) /\ k \in 0 .. (n - 2) /\ ~(k < i)
    OBVIOUS
  <2> QED BY <2>1
<1>3. Sized(n, f) /\ Sized(i, f) /\ f[i].size \in Nat
  BY <1>1, SizedTable
<1>4. Sized(n - 1, g)
  <2>1. \A k \in 0 .. (n - 1 - 1) : k \in 0 .. (i - 1) \/ k \in i .. (n - 2)
    OBVIOUS
  <2>2. \A k \in 0 .. (n - 1) : f[k].size \in Nat
    BY <1>3 DEF Sized
  <2>3. \A k \in 0 .. (i - 1) : g[k].size \in Nat
    BY <1>2, <2>2
  <2>4. \A k \in i .. (n - 2) : g[k].size \in Nat
    BY <1>2, <2>2
  <2> QED BY <2>1, <2>3, <2>4 DEF Sized
<1>5. Total(i, g) = Total(i, f) /\ Total(i, f) \in Nat
  <2>1. \A k \in 0 .. (i - 1) : g[k].size = f[k].size
    BY <1>2
  <2> QED BY <1>1, <1>3, <2>1, TotalSame
<1>6. Total(i + 1, f) = Total(i, f) + f[i].size
  BY <1>1, TotalNext
<1>7. Shifted(i + 1, n, i, f, g)
  <2>1. \A k \in 0 .. (n - (i + 1) - 1) : i + k \in i .. (n - 2) /\ (i + k) + 1 = (i + 1) + k
    OBVIOUS
  <2> QED BY <1>2, <2>1 DEF Shifted
<1>8. /\ Total(n - 1, g) - Total(i, g) = Total(n, f) - Total(i + 1, f)
      /\ Total(n - 1, g) \in Nat /\ Total(n, f) \in Nat
  BY <1>1, <1>3, <1>4, <1>7, TotalShifted
<1> QED BY <1>3, <1>5, <1>6, <1>8

\* g is f with b entered at i.
Entered(n, f, i, b, g) ==
  \A k \in 0 .. n : g[k] = IF k < i THEN f[k] ELSE IF k = i THEN b ELSE f[k - 1]

LEMMA TotalInsert ==
  ASSUME NEW n \in Nat, NEW f \in [0 .. (n - 1) -> Blocks], NEW i \in 0 .. n, NEW b \in Blocks, NEW g,
         Entered(n, f, i, b, g)
  PROVE  Total(n + 1, g) = Total(n, f) + b.size
<1>1. i \in Nat /\ i <= n /\ i + 1 \in Nat /\ n + 1 \in Nat /\ (n + 1) - (i + 1) = n - i
  OBVIOUS
<1>2. /\ \A k \in 0 .. (i - 1) : k \in 0 .. (n - 1) /\ g[k] = f[k]
      /\ g[i] = b
      /\ \A k \in i .. (n - 1) : k \in 0 .. (n - 1) /\ g[k + 1] = f[k]
  <2>1. /\ \A k \in 0 .. (i - 1) : k \in 0 .. (n - 1) /\ k \in 0 .. n /\ k < i
        /\ \A k \in i .. (n - 1) : /\ k \in 0 .. (n - 1) /\ k + 1 \in 0 .. n
                                   /\ ~(k + 1 < i) /\ k + 1 # i /\ (k + 1) - 1 = k
        /\ i \in 0 .. n /\ ~(i < i)
    OBVIOUS
  <2>2. g[i] = b
    BY <2>1 DEF Entered
  <2>3. \A k \in i .. (n - 1) : g[k + 1] = f[k]
    BY <2>1 DEF Entered
  <2>4. \A k \in 0 .. (i - 1) : g[k] = f[k]
    BY <2>1 DEF Entered
  <2> QED BY <2>1, <2>2, <2>3, <2>4
<1>3. Sized(n, f) /\ Sized(i, f) /\ b.size \in Nat
  <2>1. b.size \in Nat
    BY DEF Blocks
  <2> QED BY <2>1, SizedTable
<1>4. Sized(n + 1, g)
  <2>1. \A k \in 0 .. (n + 1 - 1) : \/ k \in 0 .. (i - 1) \/ k = i
                                   \/ (k - 1 \in i .. (n - 1) /\ (k - 1) + 1 = k)
    OBVIOUS
  <2>2. \A k \in 0 .. (n - 1) : f[k].size \in Nat
    BY <1>3 DEF Sized
  <2>3. \A k \in 0 .. (i - 1) : g[k].size \in Nat
    BY <1>2, <2>2
  <2>4. \A k \in i .. (n - 1) : g[k + 1].size \in Nat
    BY <1>2, <2>2
  <2>5. ASSUME NEW k \in 0 .. (n + 1 - 1) PROVE g[k].size \in Nat
    <3>1. CASE k \in 0 .. (i - 1)
      BY <2>3, <3>1
    <3>2. CASE k = i
      BY <1>2, <1>3, <3>2
    <3>3. CASE k - 1 \in i .. (n - 1) /\ (k - 1) + 1 = k
      <4>1. g[(k - 1) + 1].size \in Nat
        BY <2>4, <3>3
      <4> QED BY <3>3, <4>1
    <3> QED BY <2>1, <3>1, <3>2, <3>3
  <2> QED BY <2>5 DEF Sized
<1>5. Total(i, g) = Total(i, f) /\ Total(i, f) \in Nat
  <2>1. \A k \in 0 .. (i - 1) : g[k].size = f[k].size
    BY <1>2
  <2> QED BY <1>1, <1>3, <2>1, TotalSame
<1>6. Total(i + 1, g) = Total(i, g) + b.size
  BY <1>1, <1>2, TotalNext
<1>7. Shifted(i, n, i + 1, f, g)
  <2>1. \A k \in 0 .. (n - i - 1) : i + k \in i .. (n - 1) /\ (i + k) + 1 = (i + 1) + k
    OBVIOUS
  <2> QED BY <1>2, <2>1 DEF Shifted
<1>8. /\ Total(n + 1, g) - Total(i + 1, g) = Total(n, f) - Total(i, f)
      /\ Total(n + 1, g) \in Nat /\ Total(i + 1, g) \in Nat /\ Total(n, f) \in Nat
  BY <1>1, <1>3, <1>4, <1>7, TotalShifted
<1>9. Total(i + 1, g) - Total(i, f) = b.size
  BY <1>3, <1>5, <1>6
<1> QED BY SMTT(30), <1>3, <1>5, <1>8, <1>9

-----------------------------------------------------------------------------
(* The sum over a set of blocks *)

Some(T) == CHOOSE x \in T : TRUE

Sums(S, f, g) == g = [T \in SUBSET S |-> IF T = {} THEN 0 ELSE f[Some(T)] + g[T \ {Some(T)}]]

LEMMA SomeIn == ASSUME NEW T, T # {} PROVE Some(T) \in T
BY DEF Some

LEMMA SumsExist ==
  ASSUME NEW S, IsFiniteSet(S), NEW f
  PROVE  \E g : Sums(S, f, g)
<1> DEFINE Rule(g, T) == IF T = {} THEN 0 ELSE f[Some(T)] + g[T \ {Some(T)}]
           Upto(k, g) == \A T \in SUBSET S : Cardinality(T) <= k => g[T] = Rule(g, T)
           n == Cardinality(S)
           K == {k \in 0 .. n : \E g : Upto(k, g)}
<1>1. n \in Nat /\ \A T \in SUBSET S : IsFiniteSet(T) /\ Cardinality(T) \in Nat /\ Cardinality(T) <= n
  BY FS_CardinalityType, FS_Subset
<1>2. \A T \in SUBSET S : T # {} =>
         /\ T \ {Some(T)} \in SUBSET S
         /\ Cardinality(T \ {Some(T)}) = Cardinality(T) - 1
  BY <1>1, SomeIn, FS_RemoveElement
<1>3. 0 \in K
  <2>1. Upto(0, [T \in SUBSET S |-> 0])
    <3> SUFFICES ASSUME NEW T \in SUBSET S, Cardinality(T) <= 0 PROVE T = {}
      OBVIOUS
    <3> QED BY <1>1, FS_EmptySet
  <2> QED BY <1>1, <2>1
<1>4. ASSUME NEW k \in 0 .. (n - 1), k \in K PROVE k + 1 \in K
  <2>1. PICK g : Upto(k, g)
    BY <1>4
  <2> DEFINE h == [T \in SUBSET S |-> IF Cardinality(T) <= k THEN g[T] ELSE Rule(g, T)]
  <2>2. ASSUME NEW T \in SUBSET S, Cardinality(T) <= k + 1 PROVE h[T] = Rule(h, T)
    <3>1. h[T] = Rule(g, T)
      BY <2>1
    <3>2. T # {} => h[T \ {Some(T)}] = g[T \ {Some(T)}]
      BY <1>1, <1>2, <2>2
    <3> QED BY <3>1, <3>2
  <2> HIDE DEF h
  <2>3. k + 1 \in 0 .. n
    BY <1>1
  <2> QED BY <2>2, <2>3
<1>5. PICK g : Upto(n, g)
  <2>1. \A k \in 0 .. n : k \in K
    <3> HIDE DEF K, n
    <3> QED BY <1>1, <1>3, <1>4, Counting
  <2>2. n \in 0 .. n
    BY <1>1
  <2> QED BY <2>1, <2>2
<1> DEFINE h == [T \in SUBSET S |-> g[T]]
<1>6. ASSUME NEW T \in SUBSET S PROVE h[T] = Rule(h, T)
  <2>1. h[T] = Rule(g, T)
    BY <1>1, <1>5
  <2>2. T # {} => h[T \ {Some(T)}] = g[T \ {Some(T)}]
    BY <1>2
  <2> QED BY <2>1, <2>2
<1>7. h = [T \in SUBSET S |-> h[T]]
  OBVIOUS
<1> HIDE DEF h
<1>8. h = [T \in SUBSET S |-> Rule(h, T)]
  BY <1>6, <1>7
<1> QED BY <1>8 DEF Sums

LEMMA SizeOfIs ==
  ASSUME NEW S, IsFiniteSet(S)
  PROVE  \E g : Sums(S, [b \in S |-> b.size], g) /\ SizeOf(S) = g[S]
<1> DEFINE f == [b \in S |-> b.size]
           g == CHOOSE g : Sums(S, f, g)
<1>1. DOMAIN f = S
  OBVIOUS
<1>2. SizeOf(S) = (CHOOSE h : Sums(DOMAIN f, f, h))[DOMAIN f]
  BY Zenon DEF SizeOf, FoldFunction, FoldFunctionOnSet, MapThenFoldSet, Sums, Some
<1>3. Sums(S, f, g)
  <2> HIDE DEF f
  <2> QED BY SumsExist, Zenon
<1>4. SizeOf(S) = g[S]
  <2> HIDE DEF f
  <2> QED BY <1>1, <1>2
<1> QED BY <1>3, <1>4

\* The fold takes one block after the other.
LEMMA SizeOfFold ==
  ASSUME NEW T \in SUBSET Blocks, IsFiniteSet(T)
  PROVE  /\ T = {} => SizeOf(T) = 0
         /\ T # {} => SizeOf(T) = Some(T).size + SizeOf(T \ {Some(T)})
<1>1. PICK g : Sums(T, [b \in T |-> b.size], g) /\ SizeOf(T) = g[T]
  BY SizeOfIs
<1>2. CASE T = {}
  <2>1. T \in SUBSET T
    OBVIOUS
  <2> QED BY <1>1, <1>2, <2>1 DEF Sums
<1>3. CASE T # {}
  <2> DEFINE U == T \ {Some(T)}
             n == Cardinality(U)
  <2>1. IsFiniteSet(U) /\ U \in SUBSET T /\ U \in SUBSET Blocks /\ Some(T) \in T
    BY <1>3, SomeIn, FS_RemoveElement
  <2> HIDE DEF U
  <2>2. PICK h : Sums(U, [b \in U |-> b.size], h) /\ SizeOf(U) = h[U]
    BY <2>1, SizeOfIs
  <2>3. n \in Nat /\ \A V \in SUBSET U : IsFiniteSet(V) /\ Cardinality(V) \in Nat /\ Cardinality(V) <= n
    BY <2>1, FS_CardinalityType, FS_Subset
  <2>4. \A V \in SUBSET U : V # {} =>
           /\ Some(V) \in V /\ Some(V) \in U /\ Some(V) \in T
           /\ V \ {Some(V)} \in SUBSET U
           /\ Cardinality(V \ {Some(V)}) = Cardinality(V) - 1
    BY <2>1, <2>3, SomeIn, FS_RemoveElement
  <2>5. /\ \A V \in SUBSET T : g[V] = IF V = {} THEN 0 ELSE [b \in T |-> b.size][Some(V)] + g[V \ {Some(V)}]
        /\ \A V \in SUBSET U : h[V] = IF V = {} THEN 0 ELSE [b \in U |-> b.size][Some(V)] + h[V \ {Some(V)}]
    BY <1>1, <2>2 DEF Sums
  <2>6. /\ \A V \in SUBSET U : g[V] = IF V = {} THEN 0 ELSE Some(V).size + g[V \ {Some(V)}]
        /\ \A V \in SUBSET U : h[V] = IF V = {} THEN 0 ELSE Some(V).size + h[V \ {Some(V)}]
    BY <2>1, <2>4, <2>5
  <2> DEFINE K == {k \in 0 .. n : \A V \in SUBSET U : Cardinality(V) = k => g[V] = h[V]}
  <2>7. 0 \in K
    <3>1. \A V \in SUBSET U : Cardinality(V) = 0 => V = {}
      BY <2>3, FS_EmptySet
    <3>2. 0 \in 0 .. n
      BY <2>3
    <3>3. {} \in SUBSET U
      OBVIOUS
    <3>4. g[{}] = 0 /\ h[{}] = 0
      BY <2>6, <3>3
    <3>5. \A V \in SUBSET U : Cardinality(V) = 0 => g[V] = h[V]
      BY <3>1, <3>4
    <3> QED BY <3>2, <3>5
  <2>8. ASSUME NEW k \in 0 .. (n - 1), k \in K PROVE k + 1 \in K
    <3> SUFFICES ASSUME NEW V \in SUBSET U, Cardinality(V) = k + 1 PROVE g[V] = h[V]
      BY <2>3
    <3>1. V # {}
      BY FS_EmptySet
    <3>2. Cardinality(V \ {Some(V)}) = k /\ V \ {Some(V)} \in SUBSET U
      BY <2>4, <3>1
    <3>3. g[V \ {Some(V)}] = h[V \ {Some(V)}]
      BY <2>8, <3>2
    <3> QED BY <2>6, <3>1, <3>3
  <2>9. g[U] = h[U]
    <3>1. \A k \in 0 .. n : k \in K
      <4> HIDE DEF K, n
      <4> QED BY <2>3, <2>7, <2>8, Counting
    <3>2. n \in 0 .. n /\ U \in SUBSET U
      BY <2>3
    <3> QED BY <3>1, <3>2
  <2>10. g[T] = Some(T).size + g[U]
    <3>1. T \in SUBSET T /\ [b \in T |-> b.size][Some(T)] = Some(T).size
      BY <2>1
    <3> QED BY <1>3, <2>5, <3>1 DEF U
  <2> QED BY <1>1, <1>3, <2>2, <2>9, <2>10 DEF U
<1> QED BY <1>2, <1>3

\* So that any block may be taken first.
LEMMA SizeOfTake ==
  ASSUME NEW S \in SUBSET Blocks, IsFiniteSet(S)
  PROVE  /\ SizeOf(S) \in Nat /\ SizeOf({}) = 0
         /\ \A x \in S : SizeOf(S) = x.size + SizeOf(S \ {x}) /\ SizeOf(S \ {x}) \in Nat
<1> DEFINE n == Cardinality(S)
           Good(T) == SizeOf(T) \in Nat /\ \A x \in T : SizeOf(T) = x.size + SizeOf(T \ {x})
           K == {k \in 0 .. n : \A T \in SUBSET S : Cardinality(T) <= k => Good(T)}
<1>1. n \in Nat /\ \A T \in SUBSET S : IsFiniteSet(T) /\ Cardinality(T) \in Nat /\ Cardinality(T) <= n
  BY FS_CardinalityType, FS_Subset
<1>2. \A T \in SUBSET S : /\ T \in SUBSET Blocks /\ IsFiniteSet(T)
                          /\ T = {} => SizeOf(T) = 0
                          /\ T # {} => SizeOf(T) = Some(T).size + SizeOf(T \ {Some(T)})
  BY <1>1, SizeOfFold
<1>3. 0 \in K
  <2>1. \A T \in SUBSET S : Cardinality(T) <= 0 => T = {}
    BY <1>1, FS_EmptySet
  <2>2. 0 \in 0 .. n
    BY <1>1
  <2>3. \A T \in SUBSET S : T = {} => SizeOf(T) = 0
    BY <1>2
  <2>4. \A T \in SUBSET S : T = {} => Good(T)
    BY <2>3
  <2> HIDE DEF Good
  <2> QED BY <2>1, <2>2, <2>4
<1>4. ASSUME NEW k \in 0 .. (n - 1), k \in K PROVE k + 1 \in K
  <2> SUFFICES ASSUME NEW T \in SUBSET S, Cardinality(T) = k + 1 PROVE Good(T)
    <3>1. \A T \in SUBSET S : Cardinality(T) <= k + 1 => Cardinality(T) <= k \/ Cardinality(T) = k + 1
      BY <1>1
    <3>2. \A T \in SUBSET S : Cardinality(T) <= k => Good(T)
      BY <1>4
    <3>3. k + 1 \in 0 .. n
      BY <1>1
    <3> HIDE DEF Good
    <3> QED BY <3>1, <3>2, <3>3
  <2> DEFINE y == Some(T)
  <2>1. T # {} /\ y \in T
    BY SomeIn, FS_EmptySet
  <2> HIDE DEF y
  <2>2. \A x \in T : /\ T \ {x} \in SUBSET S /\ Cardinality(T \ {x}) = k
                     /\ x.size \in Nat /\ Good(T \ {x})
    <3>1. ASSUME NEW x \in T PROVE T \ {x} \in SUBSET S /\ Cardinality(T \ {x}) = k
      <4>1. IsFiniteSet(T) /\ Cardinality(T) - 1 = k
        BY <1>1
      <4> QED BY <4>1, FS_RemoveElement
    <3>2. \A x \in T : x.size \in Nat
      BY DEF Blocks
    <3>3. \A V \in SUBSET S : Cardinality(V) = k => Good(V)
      BY <1>4
    <3> HIDE DEF Good
    <3> QED BY <3>1, <3>2, <3>3
  <2>3. SizeOf(T) = y.size + SizeOf(T \ {y})
    BY <1>2, <2>1 DEF y
  <2>4. SizeOf(T) \in Nat
    <3>1. y.size \in Nat /\ SizeOf(T \ {y}) \in Nat
      BY <2>1, <2>2
    <3> QED BY <2>3, <3>1
  <2>5. ASSUME NEW x \in T, x # y PROVE SizeOf(T) = x.size + SizeOf(T \ {x})
    <3>1. x \in T \ {y} /\ y \in T \ {x} /\ (T \ {y}) \ {x} = (T \ {x}) \ {y}
      BY <2>1, <2>5
    <3>2. SizeOf(T \ {y}) = x.size + SizeOf((T \ {y}) \ {x})
      BY <2>1, <2>2, <3>1
    <3>3. SizeOf(T \ {x}) = y.size + SizeOf((T \ {x}) \ {y})
      BY <2>2, <3>1
    <3>4. SizeOf(T \ {x}) \in Nat /\ SizeOf(T \ {y}) \in Nat /\ x.size \in Nat /\ y.size \in Nat
      BY <2>1, <2>2
    <3>5. SizeOf((T \ {x}) \ {y}) \in Nat
      <4>1. (T \ {x}) \ {y} \in SUBSET S /\ Cardinality((T \ {x}) \ {y}) <= k
        <5>1. T \ {x} \in SUBSET S /\ Cardinality(T \ {x}) = k /\ IsFiniteSet(T \ {x})
          BY <1>1, <2>2
        <5>2. Cardinality((T \ {x}) \ {y}) = Cardinality(T \ {x}) - 1
          BY <3>1, <5>1, FS_RemoveElement
        <5> QED BY <5>1, <5>2
      <4>2. \A V \in SUBSET S : Cardinality(V) <= k => SizeOf(V) \in Nat
        BY <1>4
      <4> QED BY <4>1, <4>2
    <3>6. SizeOf((T \ {y}) \ {x}) = SizeOf((T \ {x}) \ {y})
      BY <3>1, Zenon
    <3> HIDE DEF Good
    <3> QED BY <2>3, <3>2, <3>3, <3>4, <3>5, <3>6
  <2> QED BY <2>3, <2>4, <2>5
<1>5. \A T \in SUBSET S : Good(T)
  <2>1. \A k \in 0 .. n : k \in K
    <3> HIDE DEF K, n
    <3> QED BY <1>1, <1>3, <1>4, Counting
  <2> QED BY <1>1, <2>1
<1>6. SizeOf({}) = 0
  BY <1>2
<1>7. S \in SUBSET S /\ \A x \in S : S \ {x} \in SUBSET S
  OBVIOUS
<1> QED BY <1>5, <1>6, <1>7

\* A block goes to who did not have it, or comes from who had it.
LEMMA SizeOfAdd ==
  ASSUME NEW S \in SUBSET Blocks, IsFiniteSet(S), NEW b \in Blocks, b \notin S
  PROVE  SizeOf(S \cup {b}) = SizeOf(S) + b.size /\ SizeOf(S) \in Nat
<1> DEFINE T == S \cup {b}
<1>1. T \in SUBSET Blocks /\ IsFiniteSet(T) /\ b \in T /\ T \ {b} = S
  BY FS_AddElement
<1> HIDE DEF T
<1>2. SizeOf(T) = b.size + SizeOf(T \ {b}) /\ SizeOf(T \ {b}) \in Nat
  BY <1>1, SizeOfTake
<1>3. b.size \in Nat
  BY DEF Blocks
<1> QED BY <1>1, <1>2, <1>3 DEF T

-----------------------------------------------------------------------------
(* No byte goes astray *)

Booked == IsFiniteSet(owned) /\ IsFiniteSet(leaked) /\ Conservation

Machine == SizeOf({Boot[k] : k \in 1 .. Len(Boot)})

LEMMA Books ==
  Conservation <=> /\ Total(frees, free) + SizeOf(owned) + lostsize = Machine
                   /\ lostsize = SizeOf(leaked)
                   /\ losts = Cardinality(leaked)
BY Zenon DEF Conservation, MemmanTotal, Total, Machine

LEMMA BooksPrimed ==
  Conservation' <=> /\ Total(frees', free') + SizeOf(owned') + lostsize' = Machine
                    /\ lostsize' = SizeOf(leaked')
                    /\ losts' = Cardinality(leaked')
BY Zenon DEF Conservation, MemmanTotal, Total, Machine

LEMMA BookedInit == MemmanInit => Booked
<1> SUFFICES ASSUME MemmanInit PROVE Booked
  OBVIOUS
<1>1. /\ frees = 0 /\ lostsize = 0 /\ losts = 0 /\ leaked = {}
      /\ owned = {Boot[k] : k \in 1 .. Len(Boot)}
  BY DEF MemmanInit
<1>2. IsFiniteSet(owned) /\ owned \in SUBSET Blocks
  <2>1. IsFiniteSet(1 .. Len(Boot))
    BY BootBlocks, FS_Interval
  <2>2. \A k \in 1 .. Len(Boot) : Boot[k] \in Blocks
    BY BootBlocks
  <2>3. [k \in 1 .. Len(Boot) |-> Boot[k]] \in Surjection(1 .. Len(Boot), owned)
    BY <1>1 DEF Surjection
  <2> QED BY <1>1, <2>1, <2>2, <2>3, FS_Surjection
<1>3. SizeOf(owned) \in Nat /\ SizeOf({}) = 0
  BY <1>2, SizeOfTake
<1>4. Total(0, free) = 0
  BY TotalNext
<1>5. IsFiniteSet({}) /\ Cardinality({}) = 0
  BY FS_EmptySet
<1> QED BY <1>1, <1>2, <1>3, <1>4, <1>5, Books DEF Booked, Machine

LEMMA AllocBooked ==
  ASSUME SortedInv, Booked, NEW n \in Nat, n > 0, MemmanAlloc(n)
  PROVE  Booked'
<1>0. /\ frees \in Nat /\ free \in [0 .. (frees - 1) -> Blocks]
      /\ owned \in SUBSET Blocks /\ lostsize \in Nat
  BY MemManAssumption DEF SortedInv, SafeInv, TypeOK
<1>1. /\ IsFiniteSet(owned) /\ IsFiniteSet(leaked)
      /\ Total(frees, free) + SizeOf(owned) + lostsize = Machine
      /\ lostsize = SizeOf(leaked) /\ losts = Cardinality(leaked)
  BY Books DEF Booked
<1>2. CASE UNCHANGED <<man, owned, leaked>>
  BY <1>1, <1>2, BooksPrimed DEF Booked, man
<1>3. ASSUME NEW i \in 0 .. (frees - 1),
             FirstFit(i, n),
             IF free[i].size = n
             THEN frees' = frees - 1 /\ free' = Remove(i)
             ELSE /\ free' = [free EXCEPT ![i] =
                                Block(free[i].addr + n, free[i].size - n)]
                  /\ UNCHANGED frees,
             owned' = owned \cup {Block(free[i].addr, n)},
             UNCHANGED <<maxfrees, lostsize, losts, leaked>>
      PROVE  Booked'
  <2> DEFINE b == Block(free[i].addr, n)
  <2>1. /\ free[i] \in Blocks /\ free[i].size \in Nat /\ free[i].addr \in Nat /\ free[i].size >= n
        /\ b \in Blocks /\ b.size = n /\ b.addr = free[i].addr
    BY <1>0, <1>3 DEF FirstFit, Blocks, Block
  <2>2. owned' = owned \cup {b}
    BY <1>3
  <2> HIDE DEF b
  <2>3. b \notin owned
    <3>1. b \in owned => Apart(b, free[i])
      BY DEF SortedInv, SafeInv, NoOverlap
    <3>2. ~Apart(b, free[i])
      BY <2>1 DEF Apart
    <3> QED BY <3>1, <3>2
  <2>4. SizeOf(owned') = SizeOf(owned) + n /\ SizeOf(owned) \in Nat
    BY <1>0, <1>1, <2>1, <2>2, <2>3, SizeOfAdd
  <2>5. IsFiniteSet(owned')
    BY <1>1, <2>2, FS_AddElement
  <2>6. Total(frees', free') = Total(frees, free) - n /\ Total(frees, free) \in Nat
    <3>1. CASE free[i].size = n
      <4>1. frees' = frees - 1 /\ free' = Remove(i)
        BY <1>3, <3>1
      <4>2. \A k \in 0 .. (frees - 2) : free'[k] = IF k < i THEN free[k] ELSE free[k + 1]
        BY <4>1 DEF Remove
      <4>3. Total(frees - 1, free') = Total(frees, free) - free[i].size
        BY <1>0, <4>2, TotalRemove
      <4> QED BY <1>0, <3>1, <4>1, <4>3, SizedTable
    <3>2. CASE free[i].size # n
      <4> DEFINE rest == Block(free[i].addr + n, free[i].size - n)
      <4>1. frees' = frees /\ free' = [free EXCEPT ![i] = rest]
        BY <1>3, <3>2
      <4>2. rest \in Blocks /\ rest.size = free[i].size - n
        BY <2>1 DEF Blocks, Block
      <4> HIDE DEF rest
      <4>3. /\ Total(frees, free') = Total(frees, free) - free[i].size + rest.size
            /\ Total(frees, free) \in Nat
        BY <1>0, <4>1, <4>2, TotalExcept, SizedTable
      <4> QED BY <2>1, <4>1, <4>2, <4>3
    <3> QED BY <3>1, <3>2
  <2>7. Total(frees', free') + SizeOf(owned') + lostsize' = Machine
    BY <1>0, <1>1, <1>3, <2>4, <2>6
  <2> QED BY <1>1, <1>3, <2>5, <2>7, BooksPrimed DEF Booked
<1> QED BY <1>2, <1>3 DEF MemmanAlloc

\* What a release adds to the table in the four ways to enter it.
LEMMA FreeTotal ==
  ASSUME SafeInv, NEW b \in Blocks, NEW i \in 0 .. frees,
         JoinBoth(i, b) \/ JoinFront(i, b) \/ JoinBack(i, b) \/ Insert(i, b)
  PROVE  /\ Total(frees', free') = Total(frees, free) + b.size
         /\ Total(frees, free) \in Nat
         /\ UNCHANGED <<lostsize, losts>>
<1>0. frees \in Nat /\ free \in [0 .. (frees - 1) -> Blocks]
  BY MemManAssumption DEF SafeInv, TypeOK
<1>1. /\ b.addr \in Nat /\ b.size \in Nat
      /\ \A k \in 0 .. (frees - 1) : free[k] \in Blocks /\ free[k].addr \in Nat /\ free[k].size \in Nat
  BY <1>0 DEF Blocks
<1>t. Total(frees, free) \in Nat
  BY <1>0, SizedTable
<1>2. CASE JoinBoth(i, b)
  <2> DEFINE m == Block(free[i - 1].addr, free[i - 1].size + b.size + free[i].size)
  <2>1. i \in 0 .. (frees - 1) /\ i - 1 \in 0 .. (frees - 1) /\ i - 1 < i
    BY <1>0, <1>2 DEF JoinBoth, JoinsFront, JoinsBack
  <2>2. m \in Blocks /\ m.size = free[i - 1].size + b.size + free[i].size
    BY <1>1, <2>1 DEF Block, Blocks
  <2>3. frees' = frees - 1 /\ free' = [Remove(i) EXCEPT ![i - 1] = m] /\ UNCHANGED <<lostsize, losts>>
    BY <1>2 DEF JoinBoth
  <2> HIDE DEF m
  <2>4. \A k \in 0 .. (frees - 2) : Remove(i)[k] = IF k < i THEN free[k] ELSE free[k + 1]
    BY DEF Remove
  <2>5. Total(frees - 1, Remove(i)) = Total(frees, free) - free[i].size
    BY <1>0, <2>1, <2>4, TotalRemove
  <2>6. /\ frees - 1 \in Nat /\ Remove(i) \in [0 .. (frees - 1 - 1) -> Blocks]
        /\ i - 1 \in 0 .. (frees - 1 - 1)
    <3>1. TypeOK
      BY DEF SafeInv
    <3>2. Remove(i) \in [0 .. (frees - 1 - 1) -> Blocks]
      BY <2>1, <3>1, RemoveEntry
    <3>3. frees - 1 \in Nat /\ i - 1 \in 0 .. (frees - 1 - 1)
      BY <1>0, <2>1
    <3> QED BY <3>2, <3>3
  <2>7. Remove(i)[i - 1] = free[i - 1]
    BY <1>0, <2>1, <2>4
  <2>8. Total(frees - 1, free') = Total(frees - 1, Remove(i)) - Remove(i)[i - 1].size + m.size
    BY <2>2, <2>3, <2>6, TotalExcept
  <2> QED BY <1>1, <1>t, <2>1, <2>2, <2>3, <2>5, <2>7, <2>8
<1>3. CASE JoinFront(i, b)
  <2> DEFINE m == Block(free[i - 1].addr, free[i - 1].size + b.size)
  <2>1. i - 1 \in 0 .. (frees - 1)
    BY <1>0, <1>3 DEF JoinFront, JoinsFront
  <2>2. m \in Blocks /\ m.size = free[i - 1].size + b.size
    BY <1>1, <2>1 DEF Block, Blocks
  <2>3. frees' = frees /\ free' = [free EXCEPT ![i - 1] = m] /\ UNCHANGED <<lostsize, losts>>
    BY <1>3 DEF JoinFront
  <2> HIDE DEF m
  <2>4. Total(frees, free') = Total(frees, free) - free[i - 1].size + m.size
    BY <1>0, <2>1, <2>2, <2>3, TotalExcept
  <2> QED BY <1>1, <1>t, <2>1, <2>2, <2>3, <2>4
<1>4. CASE JoinBack(i, b)
  <2> DEFINE m == Block(b.addr, free[i].size + b.size)
  <2>1. i \in 0 .. (frees - 1)
    BY <1>0, <1>4 DEF JoinBack, JoinsBack
  <2>2. m \in Blocks /\ m.size = free[i].size + b.size
    BY <1>1, <2>1 DEF Block, Blocks
  <2>3. frees' = frees /\ free' = [free EXCEPT ![i] = m] /\ UNCHANGED <<lostsize, losts>>
    BY <1>4 DEF JoinBack
  <2> HIDE DEF m
  <2>4. Total(frees, free') = Total(frees, free) - free[i].size + m.size
    BY <1>0, <2>1, <2>2, <2>3, TotalExcept
  <2> QED BY <1>1, <1>t, <2>1, <2>2, <2>3, <2>4
<1>5. CASE Insert(i, b)
  <2>1. frees' = frees + 1 /\ free' = InsertAt(i, b) /\ UNCHANGED <<lostsize, losts>>
    BY <1>5 DEF Insert
  <2>2. Entered(frees, free, i, b, free')
    BY <2>1 DEF InsertAt, Entered
  <2>3. Total(frees + 1, free') = Total(frees, free) + b.size
    BY <1>0, <2>2, TotalInsert
  <2> QED BY <1>t, <2>1, <2>3
<1> QED BY <1>2, <1>3, <1>4, <1>5

LEMMA FreeBooked ==
  ASSUME SortedInv, Booked, NEW b \in owned, MemmanFree(b)
  PROVE  Booked'
<1>0. /\ frees \in Nat /\ free \in [0 .. (frees - 1) -> Blocks] /\ losts \in Nat /\ lostsize \in Nat
      /\ owned \in SUBSET Blocks /\ leaked \in SUBSET Blocks
      /\ b \in Blocks /\ b.size \in Nat /\ b.addr \in Nat /\ b.size > 0
  <2>1. /\ frees \in Nat /\ free \in [0 .. (frees - 1) -> Blocks] /\ losts \in Nat /\ lostsize \in Nat
        /\ owned \in SUBSET Blocks /\ leaked \in SUBSET Blocks
    BY MemManAssumption DEF SortedInv, SafeInv, TypeOK
  <2> QED BY <2>1 DEF SortedInv, Blocks
<1>1. /\ IsFiniteSet(owned) /\ IsFiniteSet(leaked)
      /\ Total(frees, free) + SizeOf(owned) + lostsize = Machine
      /\ lostsize = SizeOf(leaked) /\ losts = Cardinality(leaked)
  BY Books DEF Booked
<1>2. owned' = owned \ {b} /\ IsFiniteSet(owned')
  BY <1>1, FS_RemoveElement DEF MemmanFree
<1>3. SizeOf(owned) = b.size + SizeOf(owned') /\ SizeOf(owned') \in Nat
  BY <1>0, <1>1, <1>2, SizeOfTake
<1>4. PICK i \in 0 .. frees :
         \/ /\ JoinBoth(i, b) \/ JoinFront(i, b) \/ JoinBack(i, b) \/ Insert(i, b)
            /\ UNCHANGED leaked
         \/ Lose(i, b) /\ leaked' = leaked \cup {b}
  BY DEF MemmanFree
<1>5. CASE /\ JoinBoth(i, b) \/ JoinFront(i, b) \/ JoinBack(i, b) \/ Insert(i, b)
           /\ UNCHANGED leaked
  <2>1. /\ Total(frees', free') = Total(frees, free) + b.size
        /\ Total(frees, free) \in Nat /\ UNCHANGED <<lostsize, losts>>
    BY <1>0, <1>5, FreeTotal DEF SortedInv
  <2>2. Total(frees', free') + SizeOf(owned') + lostsize' = Machine
    BY <1>0, <1>1, <1>3, <2>1
  <2> QED BY <1>1, <1>2, <1>5, <2>1, <2>2, BooksPrimed DEF Booked
<1>6. CASE Lose(i, b) /\ leaked' = leaked \cup {b}
  <2>1. frees' = frees /\ free' = free /\ losts' = losts + 1 /\ lostsize' = lostsize + b.size
    BY <1>6 DEF Lose
  <2>2. b \notin leaked
    <3>1. b \in leaked => Apart(b, b)
      BY DEF SortedInv, SafeInv, NoOverlap
    <3> QED BY <1>0, <3>1 DEF Apart
  <2>3. SizeOf(leaked') = SizeOf(leaked) + b.size
    BY <1>0, <1>1, <1>6, <2>2, SizeOfAdd
  <2>4. IsFiniteSet(leaked') /\ Cardinality(leaked') = Cardinality(leaked) + 1
    BY <1>1, <1>6, <2>2, FS_AddElement
  <2>5. Total(frees, free) \in Nat
    BY <1>0, SizedTable
  <2>6. Total(frees', free') + SizeOf(owned') + lostsize' = Machine
    BY SMTT(30), <1>0, <1>1, <1>3, <2>1, <2>5
  <2> QED BY <1>1, <1>2, <2>1, <2>3, <2>4, <2>6, BooksPrimed DEF Booked
<1> QED BY <1>4, <1>5, <1>6

LEMMA BookedStep == NonEmptyRequests /\ SortedInv /\ Booked /\ [Next]_vars => Booked'
<1> SUFFICES ASSUME NonEmptyRequests, SortedInv, Booked, [Next]_vars PROVE Booked'
  OBVIOUS
<1>1. CASE HariMainDonates
  <2>1. booted + 1 \in (booted + 1) .. Len(Boot) /\ MemmanFree(Boot[booted + 1])
    BY <1>1, BootBlocks DEF HariMainDonates, SortedInv, SafeInv, TypeOK
  <2>2. Boot[booted + 1] \in owned
    BY <2>1 DEF SortedInv, SafeInv, Pending
  <2> QED BY <2>1, <2>2, FreeBooked
<1>2. ASSUME NEW size \in Sizes, MemmanAlloc4k(size) PROVE Booked'
  BY <1>2, AllocBooked, RoundUpNat DEF MemmanAlloc4k, NonEmptyRequests
<1>3. ASSUME NEW b \in owned, NEW size \in Sizes, MemmanFree4k(b, size) PROVE Booked'
  <2>1. Block(b.addr, RoundUp(size)) = b
    BY <1>3 DEF MemmanFree4k, Block, TypeOK, Blocks, SortedInv, SafeInv
  <2> QED BY <1>3, <2>1, FreeBooked DEF MemmanFree4k
<1>4. CASE UNCHANGED vars
  BY <1>4, Books, BooksPrimed DEF vars, man, Booked
<1> QED BY <1>1, <1>2, <1>3, <1>4 DEF Next

\* Free, in use or counted as lost: in every state memman_total, the blocks
\* that callers hold and lostsize add up to the memory HariMain donated, and
\* losts counts the refused releases, provided that no caller asks for an
\* empty block (leaked does not tell two that were lost at one address apart).
THEOREM NothingAstray == NonEmptyRequests => (Spec => []Conservation)
<1> SUFFICES ASSUME NonEmptyRequests PROVE Spec => []Conservation
  OBVIOUS
<1>1. MemmanInit => SortedInv /\ Booked
  BY SortedInit, BookedInit
<1>2. SortedInv /\ Booked => Conservation
  BY DEF Booked
<1>3. SortedInv /\ Booked /\ [Next]_vars => (SortedInv /\ Booked)'
  BY SortedStep, BookedStep
<1> QED BY <1>1, <1>2, <1>3, PTL DEF Spec
=============================================================================
