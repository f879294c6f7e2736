-------------------------- MODULE MemManRefinement --------------------------
(***************************************************************************)
(* The free table implements the heap: every call of memman_alloc and       *)
(* memman_free maps to an action of Heap, for every value of the constants, *)
(* as long as no caller asks for an empty block.                            *)
(***************************************************************************)
EXTENDS MemManProofs, FunctionTheorems, FiniteSetTheorems

Bytes(b) == b.addr .. (b.addr + b.size - 1)

\* Two blocks end to end have the bytes of the joined block.
LEMMA BytesJoin ==
  ASSUME NEW p \in Blocks, NEW q \in Blocks, NEW m \in Blocks,
         p.addr + p.size = q.addr, m.addr = p.addr, m.size = p.size + q.size
  PROVE  \A c : /\ c \in Bytes(m) <=> c \in Bytes(p) \/ c \in Bytes(q)
                /\ ~(c \in Bytes(p) /\ c \in Bytes(q))
BY DEF Bytes, Blocks

LEMMA BytesApart ==
  ASSUME NEW p \in Blocks, NEW q \in Blocks,
         p.addr + p.size <= q.addr \/ q.addr + q.size <= p.addr
  PROVE  \A c : ~(c \in Bytes(p) /\ c \in Bytes(q))
BY DEF Bytes, Blocks

LEMMA FreeByte ==
  \A c : c \in FreeCells <=> \E k \in 0 .. (frees - 1) : c \in Bytes(free[k])
BY DEF FreeCells, Bytes

LEMMA Table ==
  ASSUME SortedInv
  PROVE  /\ frees \in 0 .. MEMMAN_FREES /\ frees \in Nat
         /\ free \in [0 .. (frees - 1) -> Blocks]
         /\ \A k \in 0 .. (frees - 1) :
               /\ free[k] \in Blocks /\ free[k].addr \in Nat
               /\ free[k].size \in Nat /\ free[k].size > 0
         /\ \A j, k \in 0 .. (frees - 1) :
               /\ j < k => free[j].addr + free[j].size < free[k].addr
               /\ j # k => \/ free[j].addr + free[j].size < free[k].addr
                           \/ free[k].addr + free[k].size < free[j].addr
<1>1. /\ frees \in 0 .. MEMMAN_FREES /\ frees \in Nat
      /\ free \in [0 .. (frees - 1) -> Blocks]
  BY MemManAssumption DEF SortedInv, SafeInv, TypeOK
<1>2. \A k \in 0 .. (frees - 1) :
         /\ free[k] \in Blocks /\ free[k].addr \in Nat
         /\ free[k].size \in Nat /\ free[k].size > 0
  BY <1>1 DEF SortedInv, Coalesced, Blocks
<1>3. \A j, k \in 0 .. (frees - 1) :
         j < k => free[j].addr + free[j].size < free[k].addr
  BY DEF SortedInv, Coalesced
<1>4. \A j, k \in 0 .. (frees - 1) : j # k => j < k \/ k < j
  BY <1>1
<1> QED BY <1>1, <1>2, <1>3, <1>4

\* A run of free bytes lies inside one entry of the table.
LEMMA RunInOneEntry ==
  ASSUME SortedInv, NEW a \in Int, NEW n \in Nat, n > 0,
         Bytes(Block(a, n)) \subseteq FreeCells
  PROVE  \E k \in 0 .. (frees - 1) : free[k].size >= n
<1>0. Bytes(Block(a, n)) = a .. (a + n - 1)
  BY DEF Bytes, Block
<1>1. PICK k \in 0 .. (frees - 1) : a \in Bytes(free[k])
  BY <1>0, FreeByte
<1> DEFINE e == free[k].addr + free[k].size
<1>2. e \in Int /\ free[k].addr <= a /\ a < e
  BY <1>1, Table DEF Bytes
<1>3. CASE a + n - 1 < e
  BY <1>2, <1>3, Table
<1>4. CASE a + n - 1 >= e
  <2>1. e \in a .. (a + n - 1)
    BY <1>2, <1>4
  <2>2. PICK j \in 0 .. (frees - 1) : e \in Bytes(free[j])
    BY <2>1, <1>0, FreeByte
  <2>3. free[j].addr <= e /\ e < free[j].addr + free[j].size
    BY <2>2, <1>2, Table DEF Bytes
  <2>4. j # k
    BY <2>3, Table
  <2>5. \/ e < free[j].addr
        \/ free[j].addr + free[j].size < free[k].addr
    BY <2>4, Table
  <2> QED BY <2>3, <2>5, <1>2, Table
<1> QED BY <1>2, <1>3, <1>4

\* The table holds one entry per maximal run of free bytes.
LEMMA OneEntryPerRun ==
  ASSUME SortedInv
  PROVE  Cardinality(AbstractHeap!RunStarts) = frees
<1> DEFINE S == AbstractHeap!RunStarts
           F == [m \in 1 .. frees |-> free[m - 1].addr]
<1>1. \A k \in 0 .. (frees - 1) : free[k].addr \in S
  <2> SUFFICES ASSUME NEW k \in 0 .. (frees - 1) PROVE free[k].addr \in S
    OBVIOUS
  <2>1. free[k].addr \in FreeCells
    <3>1. free[k].addr \in Bytes(free[k])
      BY Table DEF Bytes
    <3> QED BY <3>1, FreeByte
  <2>2. free[k].addr - 1 \notin FreeCells
    <3> SUFFICES ASSUME NEW j \in 0 .. (frees - 1),
                        free[k].addr - 1 \in Bytes(free[j])
                 PROVE  FALSE
      BY FreeByte
    <3>1. free[j].addr <= free[k].addr - 1 /\ free[k].addr - 1 <= free[j].addr + free[j].size - 1
      BY Table DEF Bytes
    <3>2. j # k
      BY <3>1, Table
    <3>3. \/ free[j].addr + free[j].size < free[k].addr
          \/ free[k].addr + free[k].size < free[j].addr
      BY <3>2, Table
    <3>4. /\ free[j].addr \in Nat /\ free[j].size \in Nat
          /\ free[k].addr \in Nat /\ free[k].size \in Nat
      BY Table
    <3> QED BY <3>1, <3>3, <3>4
  <2> QED BY <2>1, <2>2 DEF AbstractHeap!RunStarts
<1>2. \A c \in S : \E k \in 0 .. (frees - 1) : c = free[k].addr
  <2> SUFFICES ASSUME NEW c \in S
               PROVE  \E k \in 0 .. (frees - 1) : c = free[k].addr
    OBVIOUS
  <2>1. c \in FreeCells /\ c - 1 \notin FreeCells
    BY DEF AbstractHeap!RunStarts
  <2>2. PICK k \in 0 .. (frees - 1) : c \in Bytes(free[k])
    BY <2>1, FreeByte
  <2>3. c - 1 \notin Bytes(free[k])
    BY <2>1, FreeByte
  <2>4. free[k].addr \in Nat /\ free[k].size \in Nat
    BY Table
  <2>5. c = free[k].addr
    BY <2>2, <2>3, <2>4 DEF Bytes
  <2> QED BY <2>5
<1>3. frees \in Nat
  BY Table
<1>4. F \in [1 .. frees -> S]
  <2>1. \A m \in 1 .. frees : m - 1 \in 0 .. (frees - 1)
    BY <1>3
  <2> QED BY <1>1, <2>1
<1>5. F \in Surjection(1 .. frees, S)
  <2>1. \A c \in S : \E m \in 1 .. frees : F[m] = c
    <3> SUFFICES ASSUME NEW c \in S PROVE \E m \in 1 .. frees : F[m] = c
      OBVIOUS
    <3>1. PICK k \in 0 .. (frees - 1) : c = free[k].addr
      BY <1>2
    <3>2. k + 1 \in 1 .. frees /\ (k + 1) - 1 = k
      BY <1>3
    <3> QED BY <3>1, <3>2
  <2> QED BY <1>4, <2>1 DEF Surjection
<1>6. F \in Injection(1 .. frees, S)
  <2>1. ASSUME NEW x \in 1 .. frees, NEW y \in 1 .. frees, F[x] = F[y]
        PROVE  x = y
    <3>1. x - 1 \in 0 .. (frees - 1) /\ y - 1 \in 0 .. (frees - 1)
      BY <1>3
    <3>2. free[x - 1].addr = free[y - 1].addr
      BY <2>1
    <3>3. x - 1 = y - 1
      BY <3>1, <3>2, Table
    <3> QED BY <3>3, <1>3
  <2> QED BY <1>4, <2>1 DEF Injection, IsInjective
<1>7. ExistsBijection(1 .. frees, S)
  <2>1. F \in Bijection(1 .. frees, S)
    BY <1>5, <1>6 DEF Bijection
  <2> QED BY <2>1, Fun_ExistsBij
<1> QED BY <1>3, <1>7, FS_CountingElements
-----------------------------------------------------------------------------
\* How the set of free bytes changes.

LEMMA AllocCells ==
  ASSUME SortedInv, NEW n \in Nat, n > 0, NEW i \in 0 .. (frees - 1),
         free[i].size >= n,
         IF free[i].size = n
         THEN frees' = frees - 1 /\ free' = Remove(i)
         ELSE /\ free' = [free EXCEPT ![i] =
                            Block(free[i].addr + n, free[i].size - n)]
              /\ UNCHANGED frees
  PROVE  /\ Bytes(Block(free[i].addr, n)) \subseteq FreeCells
         /\ free[i].addr \in FreeCells
         /\ FreeCells' = FreeCells \ Bytes(Block(free[i].addr, n))
<1> DEFINE new == Block(free[i].addr, n)
           rest == Block(free[i].addr + n, free[i].size - n)
<1>0. TypeOK
  BY DEF SortedInv, SafeInv
<1>1. /\ frees \in Nat /\ free \in [0 .. (frees - 1) -> Blocks]
      /\ free[i] \in Blocks /\ free[i].addr \in Nat /\ free[i].size \in Nat
      /\ free[i].size > 0
  BY Table
<1>2. /\ \A c : c \in Bytes(free[i]) <=> c \in Bytes(new) \/ c \in Bytes(rest)
      /\ \A c : ~(c \in Bytes(new) /\ c \in Bytes(rest))
      /\ free[i].addr \in Bytes(new)
      /\ free[i].size = n => \A c : c \notin Bytes(rest)
  <2>1. /\ new \in Blocks /\ rest \in Blocks
        /\ new.addr = free[i].addr /\ new.size = n
        /\ rest.addr = free[i].addr + n /\ rest.size = free[i].size - n
    BY <1>1 DEF Block, Blocks
  <2> HIDE DEF new, rest
  <2>2. \A c : /\ c \in Bytes(free[i]) <=> c \in Bytes(new) \/ c \in Bytes(rest)
               /\ ~(c \in Bytes(new) /\ c \in Bytes(rest))
    <3>1. new.addr + new.size = rest.addr /\ free[i].size = new.size + rest.size
      BY <2>1, <1>1
    <3> QED BY <3>1, <2>1, <1>1, BytesJoin
  <2>3. free[i].addr \in Bytes(new)
    BY <2>1, <1>1 DEF Bytes
  <2>4. free[i].size = n => \A c : c \notin Bytes(rest)
    BY <2>1, <1>1 DEF Bytes
  <2> QED BY <2>2, <2>3, <2>4
<1>3. \A k \in 0 .. (frees - 1) : k # i => \A c : ~(c \in Bytes(free[i]) /\ c \in Bytes(free[k]))
  <2> SUFFICES ASSUME NEW k \in 0 .. (frees - 1), k # i,
                      NEW c, c \in Bytes(free[i]), c \in Bytes(free[k])
               PROVE  FALSE
    OBVIOUS
  <2>1. free[k] \in Blocks /\ free[k].addr \in Nat /\ free[k].size \in Nat
    BY Table
  <2>2. \/ free[i].addr + free[i].size < free[k].addr
        \/ free[k].addr + free[k].size < free[i].addr
    BY Table
  <2>3. \/ free[i].addr + free[i].size <= free[k].addr
        \/ free[k].addr + free[k].size <= free[i].addr
    BY <2>1, <2>2, <1>1
  <2> QED BY <2>1, <2>3, <1>1, BytesApart
<1> HIDE DEF new, rest
<1>4. \A c : c \in FreeCells' <=> \E k \in 0 .. (frees' - 1) : c \in Bytes(free'[k])
  BY DEF FreeCells, Bytes
<1>5. \A c : c \in FreeCells' <=>
          \/ c \in Bytes(rest)
          \/ \E k \in 0 .. (frees - 1) : k # i /\ c \in Bytes(free[k])
  <2>1. CASE free[i].size = n
    <3>1. frees' = frees - 1 /\ free' = Remove(i)
      BY <2>1
    <3>2. \A k \in 0 .. (frees - 1 - 1) :
             \E j \in 0 .. (frees - 1) :
                j = (IF k < i THEN k ELSE k + 1) /\ free'[k] = free[j]
      BY <3>1, <1>0, RemoveEntry
    <3>3. \A j \in 0 .. (frees - 1) : j # i =>
             \E k \in 0 .. (frees - 1 - 1) : free'[k] = free[j]
      <4> SUFFICES ASSUME NEW j \in 0 .. (frees - 1), j # i
                   PROVE  \E k \in 0 .. (frees - 1 - 1) : free'[k] = free[j]
        OBVIOUS
      <4>1. CASE j < i
        <5>1. j \in 0 .. (frees - 1 - 1)
          BY <4>1, <1>1
        <5> QED BY <5>1, <4>1, <3>2
      <4>2. CASE j > i
        <5>1. j - 1 \in 0 .. (frees - 1 - 1) /\ ~(j - 1 < i) /\ (j - 1) + 1 = j
          BY <4>2, <1>1
        <5> QED BY <5>1, <3>2
      <4> QED BY <4>1, <4>2, <1>1
    <3>4. \A k \in 0 .. (frees - 1 - 1) :
             \E j \in 0 .. (frees - 1) : j # i /\ free'[k] = free[j]
      <4> SUFFICES ASSUME NEW k \in 0 .. (frees - 1 - 1)
                   PROVE  \E j \in 0 .. (frees - 1) : j # i /\ free'[k] = free[j]
        OBVIOUS
      <4>1. PICK j \in 0 .. (frees - 1) :
               j = (IF k < i THEN k ELSE k + 1) /\ free'[k] = free[j]
        BY <3>2
      <4>2. j # i
        BY <4>1, <1>1
      <4> QED BY <4>1, <4>2
    <3> QED BY <3>1, <3>3, <3>4, <1>2, <1>4, <2>1
  <2>2. CASE free[i].size # n
    <3>1. frees' = frees /\ free' = [free EXCEPT ![i] = rest]
      BY <2>2 DEF rest
    <3> QED BY <3>1, <1>1, <1>4
  <2> QED BY <2>1, <2>2
<1>6. \A c : c \in FreeCells <=> \E k \in 0 .. (frees - 1) : c \in Bytes(free[k])
  BY FreeByte
<1>7. \A c : c \in Bytes(new) => c \in FreeCells
  BY <1>2, <1>6
<1>8. \A c : c \in FreeCells' <=> c \in FreeCells /\ c \notin Bytes(new)
  BY <1>2, <1>3, <1>5, <1>6
<1> QED BY <1>2, <1>7, <1>8 DEF new

LEMMA FreeCellsGrow ==
  ASSUME SortedInv, NEW b \in Blocks, b.size > 0, NEW i \in 0 .. frees,
         JoinBoth(i, b) \/ JoinFront(i, b) \/ JoinBack(i, b) \/ Insert(i, b)
  PROVE  FreeCells' = FreeCells \cup Bytes(b)
<1>0. TypeOK
  BY DEF SortedInv, SafeInv
<1>1. /\ frees \in Nat /\ free \in [0 .. (frees - 1) -> Blocks]
      /\ b.addr \in Nat /\ b.size \in Nat
      /\ \A k \in 0 .. (frees - 1) :
            free[k].addr \in Nat /\ free[k].size \in Nat /\ free[k].size > 0
  BY Table DEF Blocks
<1>2. \A c : c \in FreeCells' <=> \E k \in 0 .. (frees' - 1) : c \in Bytes(free'[k])
  BY DEF FreeCells, Bytes
<1>3. \A c : c \in FreeCells <=> \E k \in 0 .. (frees - 1) : c \in Bytes(free[k])
  BY FreeByte
<1> SUFFICES \A c : c \in FreeCells' <=> c \in FreeCells \/ c \in Bytes(b)
  OBVIOUS
<1>4. CASE JoinBoth(i, b)
  <2> DEFINE m == Block(free[i - 1].addr, free[i - 1].size + b.size + free[i].size)
  <2>1. /\ i \in 1 .. (frees - 1) /\ i - 1 \in 0 .. (frees - 1) /\ i \in 0 .. (frees - 1)
        /\ i - 1 \in 0 .. (frees - 1 - 1)
        /\ free[i - 1].addr + free[i - 1].size = b.addr
        /\ b.addr + b.size = free[i].addr
    BY <1>1, <1>4 DEF JoinBoth, JoinsFront, JoinsBack
  <2>2. \A c : c \in Bytes(m) <=>
           c \in Bytes(free[i - 1]) \/ c \in Bytes(b) \/ c \in Bytes(free[i])
    <3> DEFINE mm == Block(free[i - 1].addr, free[i - 1].size + b.size)
    <3>1. /\ free[i - 1] \in Blocks /\ free[i] \in Blocks
          /\ free[i - 1].addr \in Nat /\ free[i - 1].size \in Nat
          /\ free[i].addr \in Nat /\ free[i].size \in Nat /\ b.size \in Nat
      BY <2>1, <1>1
    <3>2. /\ m \in Blocks /\ mm \in Blocks
          /\ mm.addr = free[i - 1].addr /\ mm.size = free[i - 1].size + b.size
          /\ m.addr = free[i - 1].addr
          /\ m.size = free[i - 1].size + b.size + free[i].size
      <4>1. /\ free[i - 1].size + b.size \in Nat
            /\ free[i - 1].size + b.size + free[i].size \in Nat
        BY <3>1
      <4> QED BY <3>1, <4>1 DEF Block, Blocks
    <3> HIDE DEF m, mm
    <3>3. \A c : c \in Bytes(mm) <=> c \in Bytes(free[i - 1]) \/ c \in Bytes(b)
      BY <2>1, <3>1, <3>2, BytesJoin
    <3>4. mm.addr + mm.size = free[i].addr /\ m.size = mm.size + free[i].size
      BY <2>1, <3>1, <3>2, <1>1
    <3>5. \A c : c \in Bytes(m) <=> c \in Bytes(mm) \/ c \in Bytes(free[i])
      BY <3>1, <3>2, <3>4, BytesJoin
    <3> QED BY <3>3, <3>5
  <2> HIDE DEF m
  <2>3. frees' = frees - 1 /\ free' = [Remove(i) EXCEPT ![i - 1] = m]
    BY <1>4 DEF JoinBoth, m
  <2>4. /\ Remove(i) \in [0 .. (frees - 1 - 1) -> Blocks]
        /\ \A k \in 0 .. (frees - 1 - 1) :
              \E j \in 0 .. (frees - 1) :
                 j = (IF k < i THEN k ELSE k + 1) /\ Remove(i)[k] = free[j]
    BY <2>1, <1>0, RemoveEntry
  <2>5. /\ free'[i - 1] = m
        /\ \A k \in 0 .. (frees - 1 - 1) : k # i - 1 => free'[k] = Remove(i)[k]
    BY <2>1, <2>3, <2>4
  <2>6. \A j \in 0 .. (frees - 1) : j # i /\ j # i - 1 =>
           \E k \in 0 .. (frees - 1 - 1) : k # i - 1 /\ free'[k] = free[j]
    <3> SUFFICES ASSUME NEW j \in 0 .. (frees - 1), j # i, j # i - 1
                 PROVE  \E k \in 0 .. (frees - 1 - 1) : k # i - 1 /\ free'[k] = free[j]
      OBVIOUS
    <3>1. CASE j < i
      <4>1. j \in 0 .. (frees - 1 - 1)
        BY <3>1, <1>1, <2>1
      <4> QED BY <4>1, <3>1, <2>4, <2>5
    <3>2. CASE j > i
      <4>1. /\ j - 1 \in 0 .. (frees - 1 - 1) /\ ~(j - 1 < i)
            /\ (j - 1) + 1 = j /\ j - 1 # i - 1
        BY <3>2, <1>1, <2>1
      <4> QED BY <4>1, <2>4, <2>5
    <3> QED BY <3>1, <3>2, <1>1, <2>1
  <2>7. \A k \in 0 .. (frees - 1 - 1) : k # i - 1 =>
           \E j \in 0 .. (frees - 1) : free'[k] = free[j]
    BY <2>4, <2>5
  <2>8. \A c : c \in FreeCells' <=> \E k \in 0 .. (frees - 1 - 1) : c \in Bytes(free'[k])
    BY <1>2, <2>3
  <2> QED BY <2>1, <2>2, <2>5, <2>6, <2>7, <2>8, <1>3
<1>5. CASE JoinFront(i, b)
  <2> DEFINE m == Block(free[i - 1].addr, free[i - 1].size + b.size)
  <2>1. /\ i - 1 \in 0 .. (frees - 1)
        /\ free[i - 1].addr + free[i - 1].size = b.addr
    BY <1>1, <1>5 DEF JoinFront, JoinsFront
  <2>2. \A c : c \in Bytes(m) <=> c \in Bytes(free[i - 1]) \/ c \in Bytes(b)
    <3>1. free[i - 1] \in Blocks /\ free[i - 1].addr \in Nat /\ free[i - 1].size \in Nat
      BY <2>1, <1>1
    <3>2. /\ m \in Blocks /\ m.addr = free[i - 1].addr
          /\ m.size = free[i - 1].size + b.size
      BY <3>1, <1>1 DEF Block, Blocks
    <3> HIDE DEF m
    <3> QED BY <2>1, <3>1, <3>2, BytesJoin
  <2> HIDE DEF m
  <2>3. frees' = frees /\ free' = [free EXCEPT ![i - 1] = m]
    BY <1>5 DEF JoinFront, m
  <2> QED BY <2>1, <2>2, <2>3, <1>1, <1>2, <1>3
<1>6. CASE JoinBack(i, b)
  <2> DEFINE m == Block(b.addr, free[i].size + b.size)
  <2>1. i \in 0 .. (frees - 1) /\ b.addr + b.size = free[i].addr
    BY <1>1, <1>6 DEF JoinBack, JoinsBack
  <2>2. \A c : c \in Bytes(m) <=> c \in Bytes(free[i]) \/ c \in Bytes(b)
    <3>1. free[i] \in Blocks /\ free[i].addr \in Nat /\ free[i].size \in Nat
      BY <2>1, <1>1
    <3>2. m \in Blocks /\ m.addr = b.addr /\ m.size = b.size + free[i].size
      BY <3>1, <1>1 DEF Block, Blocks
    <3> HIDE DEF m
    <3>3. \A c : c \in Bytes(m) <=> c \in Bytes(b) \/ c \in Bytes(free[i])
      BY <2>1, <3>1, <3>2, BytesJoin
    <3> QED BY <3>3
  <2> HIDE DEF m
  <2>3. frees' = frees /\ free' = [free EXCEPT ![i] = m]
    BY <1>6 DEF JoinBack, m
  <2> QED BY <2>1, <2>2, <2>3, <1>1, <1>2, <1>3
<1>7. CASE Insert(i, b)
  <2>1. frees' - 1 = frees /\ free' = InsertAt(i, b)
    BY <1>1, <1>7 DEF Insert
  <2>2. /\ free'[i] = b
        /\ \A k \in 0 .. frees : k # i =>
              \E j \in 0 .. (frees - 1) :
                 j = (IF k < i THEN k ELSE k - 1) /\ free'[k] = free[j]
    BY <2>1, <1>0, InsertEntry
  <2>3. \A j \in 0 .. (frees - 1) : \E k \in 0 .. frees : k # i /\ free'[k] = free[j]
    <3> SUFFICES ASSUME NEW j \in 0 .. (frees - 1)
                 PROVE  \E k \in 0 .. frees : k # i /\ free'[k] = free[j]
      OBVIOUS
    <3>1. CASE j < i
      <4>1. j \in 0 .. frees /\ j # i
        BY <3>1, <1>1
      <4> QED BY <4>1, <3>1, <2>2
    <3>2. CASE j >= i
      <4>1. j + 1 \in 0 .. frees /\ j + 1 # i /\ ~(j + 1 < i) /\ (j + 1) - 1 = j
        BY <3>2, <1>1
      <4> QED BY <4>1, <2>2
    <3> QED BY <3>1, <3>2, <1>1
  <2>4. \A c : c \in FreeCells' <=> \E k \in 0 .. frees : c \in Bytes(free'[k])
    BY <1>2, <2>1
  <2>5. i \in 0 .. frees
    OBVIOUS
  <2> QED BY <2>2, <2>3, <2>4, <2>5, <1>3
<1> QED BY <1>4, <1>5, <1>6, <1>7

\* A block that joins neither neighbour touches no free byte.
LEMMA NoJoinIsolated ==
  ASSUME SortedInv, NEW b \in owned, NEW i \in 0 .. frees, Position(i, b.addr),
         ~JoinsFront(i, b), ~JoinsBack(i, b)
  PROVE  AbstractHeap!Isolated(b)
<1>1. /\ b.addr \in Nat /\ b.size \in Nat /\ b.size > 0
      /\ \A k \in 0 .. (frees - 1) :
            \/ b.addr + b.size <= free[k].addr
            \/ free[k].addr + free[k].size <= b.addr
  <2>1. b \in Blocks /\ b.size > 0 /\ \A k \in 0 .. (frees - 1) : Apart(b, free[k])
    BY DEF SortedInv, SafeInv, TypeOK, NoOverlap
  <2>2. \A k \in 0 .. (frees - 1) : free[k].size \in Nat /\ free[k].size > 0
    BY Table
  <2>3. b.addr \in Nat /\ b.size \in Nat
    BY <2>1 DEF Blocks
  <2> QED BY <2>1, <2>2, <2>3 DEF Apart
<1>2. ASSUME NEW k \in 0 .. (frees - 1)
      PROVE  b.addr - 1 \notin Bytes(free[k]) /\ b.addr + b.size \notin Bytes(free[k])
  <2>0. /\ frees \in Nat /\ free[k].addr \in Nat /\ free[k].size \in Nat
        /\ free[k].size > 0
    BY Table
  <2>1. CASE k < i
    <3>1. free[k].addr <= b.addr
      BY <2>1 DEF Position
    <3>2. free[k].addr + free[k].size <= b.addr
      BY <3>1, <1>1, <2>0
    <3>3. free[k].addr + free[k].size # b.addr
      <4>1. CASE k = i - 1
        BY <4>1, <2>0 DEF JoinsFront
      <4>2. CASE k < i - 1
        <5>1. i - 1 \in 0 .. (frees - 1) /\ i - 1 < i
          BY <4>2, <2>0
        <5>2. free[k].addr + free[k].size < free[i - 1].addr
          BY <4>2, <5>1, Table
        <5>3. free[i - 1].addr <= b.addr
          BY <5>1 DEF Position
        <5>4. free[i - 1].addr \in Nat
          BY <5>1, Table
        <5> QED BY <5>2, <5>3, <5>4, <1>1, <2>0
      <4> QED BY <4>1, <4>2, <2>0, <2>1
    <3> QED BY <3>2, <3>3, <1>1, <2>0 DEF Bytes
  <2>2. CASE k >= i
    <3>1. i \in 0 .. (frees - 1) /\ i < frees
      BY <2>2, <2>0
    <3>2. /\ free[i].addr > b.addr /\ b.addr + b.size # free[i].addr
          /\ free[i].addr \in Nat /\ free[i].size \in Nat
      BY <3>1, Table DEF Position, JoinsBack
    <3>3. b.addr + b.size < free[i].addr
      BY <3>1, <3>2, <1>1
    <3>4. free[i].addr <= free[k].addr
      <4>1. k = i \/ i < k
        BY <2>2, <2>0
      <4>2. CASE k = i
        BY <4>2, <3>2
      <4>3. CASE i < k
        <5>1. free[i].addr + free[i].size < free[k].addr
          BY <4>3, <3>1, Table
        <5> QED BY <5>1, <3>2, <2>0
      <4> QED BY <4>1, <4>2, <4>3
    <3> QED BY <3>2, <3>3, <3>4, <1>1, <2>0 DEF Bytes
  <2> QED BY <2>1, <2>2, <2>0
<1> QED BY <1>2, FreeByte DEF AbstractHeap!Isolated

-----------------------------------------------------------------------------
\* The step simulation.

LEMMA FreeRefines ==
  ASSUME SortedInv, NEW b \in owned, MemmanFree(b)
  PROVE  AbstractHeap!GiveBack(b)
<1>1. owned' = owned \ {b}
  BY DEF MemmanFree
<1>2. b \in Blocks /\ b.size > 0
  BY DEF SortedInv, SafeInv, TypeOK
<1>3. PICK i \in 0 .. frees :
         /\ Position(i, b.addr)
         /\ \/ /\ JoinBoth(i, b) \/ JoinFront(i, b) \/ JoinBack(i, b) \/ Insert(i, b)
               /\ ret' = Returned("free", b.size, 0)
               /\ UNCHANGED leaked
            \/ /\ Lose(i, b)
               /\ ret' = Returned("free", b.size, -1)
               /\ leaked' = leaked \cup {b}
  BY DEF MemmanFree
<1>4. CASE /\ JoinBoth(i, b) \/ JoinFront(i, b) \/ JoinBack(i, b) \/ Insert(i, b)
           /\ ret' = Returned("free", b.size, 0)
           /\ UNCHANGED leaked
  <2>1. FreeCells' = FreeCells \cup Bytes(b)
    BY <1>2, <1>4, FreeCellsGrow
  <2> QED BY <1>1, <1>4, <2>1
          DEF AbstractHeap!GiveBack, AbstractHeap!Cells, AbstractHeap!Returned,
              Returned, Bytes
<1>5. CASE /\ Lose(i, b)
           /\ ret' = Returned("free", b.size, -1)
           /\ leaked' = leaked \cup {b}
  <2>1. /\ ~JoinsFront(i, b) /\ ~JoinsBack(i, b) /\ frees >= MEMMAN_FREES
        /\ UNCHANGED <<frees, free>>
    BY <1>5 DEF Lose
  <2>2. AbstractHeap!Isolated(b)
    BY <1>3, <2>1, NoJoinIsolated
  <2>3. Cardinality(AbstractHeap!RunStarts) = MEMMAN_FREES
    <3>1. frees = MEMMAN_FREES
      BY <2>1, Table, MemManAssumption
    <3> QED BY <3>1, OneEntryPerRun
  <2>4. FreeCells' = FreeCells
    BY <2>1 DEF FreeCells
  <2> QED BY <1>1, <1>5, <2>2, <2>3, <2>4
          DEF AbstractHeap!GiveBack, AbstractHeap!Returned, Returned,
              AbstractHeap!Cardinality, Cardinality
<1> QED BY <1>3, <1>4, <1>5

LEMMA AllocRefines ==
  ASSUME SortedInv, NEW n \in Nat, n > 0, MemmanAlloc(n),
         booted = Len(Boot), UNCHANGED booted
  PROVE  AbstractHeap!HeapAlloc(n) \/ AbstractHeap!HeapAllocFails(n)
<1>0. AbstractHeap!Ready
  BY DEF AbstractHeap!Ready
<1>1. CASE /\ \A i \in 0 .. (frees - 1) : free[i].size < n
           /\ ret' = Returned("alloc", n, 0)
           /\ UNCHANGED <<man, owned, leaked>>
  <2>1. ASSUME NEW a \in FreeCells, Bytes(Block(a, n)) \subseteq FreeCells
        PROVE  FALSE
    <3>1. PICK j \in 0 .. (frees - 1) : a \in Bytes(free[j])
      BY FreeByte
    <3>2. a \in Int
      BY <3>1, Table DEF Bytes
    <3>3. PICK k \in 0 .. (frees - 1) : free[k].size >= n
      BY <3>2, <2>1, RunInOneEntry
    <3> QED BY <3>3, <1>1, Table
  <2>2. FreeCells' = FreeCells
    BY <1>1 DEF FreeCells, man
  <2> QED BY <1>0, <1>1, <2>1, <2>2
          DEF AbstractHeap!HeapAllocFails, AbstractHeap!Cells, AbstractHeap!Block,
              AbstractHeap!Returned, Returned, Bytes, Block
<1>2. ASSUME NEW i \in 0 .. (frees - 1),
             FirstFit(i, n),
             IF free[i].size = n
             THEN frees' = frees - 1 /\ free' = Remove(i)
             ELSE /\ free' = [free EXCEPT ![i] =
                                Block(free[i].addr + n, free[i].size - n)]
                  /\ UNCHANGED frees,
             ret' = Returned("alloc", n, free[i].addr),
             owned' = owned \cup {Block(free[i].addr, n)},
             UNCHANGED <<maxfrees, lostsize, losts, leaked>>
      PROVE  AbstractHeap!HeapAlloc(n)
  <2>1. /\ Bytes(Block(free[i].addr, n)) \subseteq FreeCells
        /\ free[i].addr \in FreeCells
        /\ FreeCells' = FreeCells \ Bytes(Block(free[i].addr, n))
    BY <1>2, AllocCells DEF FirstFit
  <2> QED BY <1>0, <1>2, <2>1
          DEF AbstractHeap!HeapAlloc, AbstractHeap!Cells, AbstractHeap!Block,
              AbstractHeap!Returned, Returned, Bytes, Block
<1> QED BY <1>1, <1>2 DEF MemmanAlloc

LEMMA StepRefines ==
  ASSUME NonEmptyRequests, SortedInv, [Next]_vars
  PROVE  [AbstractHeap!HeapNext]_(AbstractHeap!heapVars)
<1>1. CASE HariMainDonates
  <2>1. /\ booted + 1 \in (booted + 1) .. Len(Boot) /\ MemmanFree(Boot[booted + 1])
        /\ booted # Len(Boot) /\ booted' = booted + 1
    BY <1>1, BootBlocks DEF HariMainDonates, SortedInv, SafeInv, TypeOK
  <2>2. Boot[booted + 1] \in owned
    BY <2>1 DEF SortedInv, SafeInv, Pending
  <2>3. AbstractHeap!GiveBack(Boot[booted + 1])
    BY <2>1, <2>2, FreeRefines
  <2> QED BY <2>1, <2>3
          DEF AbstractHeap!HeapNext, AbstractHeap!HeapDonate, AbstractHeap!Ready
<1>2. ASSUME NEW size \in Sizes, MemmanAlloc4k(size)
      PROVE  AbstractHeap!HeapNext
  <2>1. /\ RoundUp(size) \in Nat /\ RoundUp(size) > 0 /\ MemmanAlloc(RoundUp(size))
        /\ booted = Len(Boot) /\ UNCHANGED booted
    BY <1>2, RoundUpNat DEF MemmanAlloc4k, NonEmptyRequests
  <2>2. \/ AbstractHeap!HeapAlloc(RoundUp(size))
        \/ AbstractHeap!HeapAllocFails(RoundUp(size))
    BY <2>1, AllocRefines
  <2> QED BY <2>2 DEF AbstractHeap!HeapNext
<1>3. ASSUME NEW b \in owned, NEW size \in Sizes, MemmanFree4k(b, size)
      PROVE  AbstractHeap!HeapNext
  <2>1. Block(b.addr, RoundUp(size)) = b
    BY <1>3 DEF MemmanFree4k, Block, TypeOK, Blocks, SortedInv, SafeInv
  <2>2. AbstractHeap!GiveBack(b)
    BY <1>3, <2>1, FreeRefines DEF MemmanFree4k
  <2> QED BY <1>3, <2>2
          DEF AbstractHeap!HeapNext, AbstractHeap!HeapFree, AbstractHeap!Ready,
              MemmanFree4k
<1>4. CASE UNCHANGED vars
  BY <1>4 DEF vars, man, AbstractHeap!heapVars, FreeCells
<1> QED BY <1>1, <1>2, <1>3, <1>4 DEF Next

\* The free table of memory.c implements the heap: a request is refused only
\* when no run of free bytes is long enough, and a release only when the table
\* is full and the block touches none of its MEMMAN_FREES areas.
THEOREM ImplementsHeap == NonEmptyRequests => (Spec => HeapSpec)
<1> SUFFICES ASSUME NonEmptyRequests PROVE Spec => HeapSpec
  OBVIOUS
<1>1. MemmanInit => SortedInv
  BY SortedInit
<1>2. SortedInv /\ [Next]_vars => SortedInv'
  BY SortedStep
<1>3. MemmanInit => AbstractHeap!HeapInit
  <2> SUFFICES ASSUME MemmanInit PROVE AbstractHeap!HeapInit
    OBVIOUS
  <2>1. FreeCells = {}
    BY DEF MemmanInit, FreeCells
  <2> QED BY <2>1 DEF MemmanInit, AbstractHeap!HeapInit, AbstractHeap!Returned, Returned
<1>4. SortedInv /\ [Next]_vars => [AbstractHeap!HeapNext]_(AbstractHeap!heapVars)
  BY StepRefines
<1> QED BY <1>1, <1>2, <1>3, <1>4, PTL DEF Spec, HeapSpec, AbstractHeap!HeapSpec
=============================================================================
