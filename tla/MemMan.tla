------------------------------- MODULE MemMan -------------------------------
(***************************************************************************)
(* The physical memory manager of memory.c: a table free[] of free areas    *)
(* ordered by address, first fit allocation, and a release that joins the   *)
(* released area with its neighbours or, when the table is full, drops it   *)
(* and only counts the loss.                                                *)
(*                                                                          *)
(* free[0 .. frees-1] is a function on 0 .. frees-1: entries at or beyond   *)
(* frees are never read.  owned and leaked are history variables: which     *)
(* blocks callers hold, and which were dropped by a refused release.        *)
(***************************************************************************)
EXTENDS Integers, Sequences, FiniteSets, Functions

CONSTANTS
    MEMMAN_FREES,   \* entries of free[] (4090 in the code)
    Boot,           \* sequence of the areas HariMain releases into the manager
    Sizes,          \* sizes that callers ask for, before rounding
    Unit,           \* the page, 0x1000
    Word            \* 2^32: sizes are unsigned int

ASSUME MemManAssumption ==
    /\ MEMMAN_FREES \in Nat \ {0}
    /\ Unit \in Nat \ {0} /\ Word \in Nat \ {0}
    /\ Sizes \subseteq 0 .. (Word - 1)
    /\ Boot \in Seq([addr : Nat \ {0}, size : Nat \ {0}])
    /\ \A i, j \in 1 .. Len(Boot) :
          i < j => \/ Boot[i].addr + Boot[i].size <= Boot[j].addr
                   \/ Boot[j].addr + Boot[j].size <= Boot[i].addr

VARIABLES
    frees, free, maxfrees, lostsize, losts,     \* struct MEMMAN
    booted,                                     \* HariMain's releases so far
    ret,                                        \* the last call's return value
    owned, leaked                               \* history

man == <<frees, free, maxfrees, lostsize, losts>>
vars == <<man, booted, ret, owned, leaked>>

Block(a, n) == [addr |-> a, size |-> n]
Returned(op, n, v) == [op |-> op, size |-> n, val |-> v]

\* (size + 0xfff) & 0xfffff000 in 32 bits.
RoundUp(size) == LET s == (size + Unit - 1) % Word IN s - (s % Unit)

\* The entries of the table, one entry out, one entry in.
Remove(i) == [k \in 0 .. (frees - 2) |-> IF k < i THEN free[k] ELSE free[k + 1]]
InsertAt(i, b) ==
    [k \in 0 .. frees |->
        IF k < i THEN free[k] ELSE IF k = i THEN b ELSE free[k - 1]]

MemmanInit ==
    /\ frees = 0 /\ maxfrees = 0 /\ lostsize = 0 /\ losts = 0
    /\ free = [k \in 0 .. -1 |-> Block(0, 0)]
    /\ booted = 0
    /\ ret = Returned("init", 0, 0)
    /\ owned = {Boot[k] : k \in 1 .. Len(Boot)}
    /\ leaked = {}

-----------------------------------------------------------------------------
(* memman_alloc *)

\* The loop of memman_alloc stops at the first entry that is large enough.
FirstFit(i, n) ==
    /\ free[i].size >= n
    /\ \A k \in 0 .. (i - 1) : free[k].size < n

MemmanAlloc(n) ==
    \/ \E i \in 0 .. (frees - 1) :
          /\ FirstFit(i, n)
          /\ IF free[i].size = n
             THEN frees' = frees - 1 /\ free' = Remove(i)
             ELSE /\ free' = [free EXCEPT ![i] =
                                Block(free[i].addr + n, free[i].size - n)]
                  /\ UNCHANGED frees
          /\ ret' = Returned("alloc", n, free[i].addr)
          /\ owned' = owned \cup {Block(free[i].addr, n)}
          /\ UNCHANGED <<maxfrees, lostsize, losts, leaked>>
    \/ /\ \A i \in 0 .. (frees - 1) : free[i].size < n
       /\ ret' = Returned("alloc", n, 0)
       /\ UNCHANGED <<man, owned, leaked>>

-----------------------------------------------------------------------------
(* memman_free *)

\* The loop of memman_free stops at the first entry behind addr.
Position(i, addr) ==
    /\ \A k \in 0 .. (i - 1) : free[k].addr <= addr
    /\ i < frees => free[i].addr > addr

JoinsFront(i, b) == i > 0 /\ free[i - 1].addr + free[i - 1].size = b.addr
JoinsBackShort(i, b) == i < frees - 1 /\ b.addr + b.size = free[i].addr   \* mutant
JoinsBack(i, b) == i < frees /\ b.addr + b.size = free[i].addr

\* mutant: the back neighbour's size is not added
JoinBothShort(i, b) ==
    /\ JoinsFront(i, b) /\ JoinsBack(i, b)
    /\ frees' = frees - 1
    /\ free' = [Remove(i) EXCEPT ![i - 1] =
                  Block(free[i - 1].addr, free[i - 1].size + b.size)]
    /\ UNCHANGED <<maxfrees, lostsize, losts>>

JoinBoth(i, b) ==
    /\ JoinsFront(i, b) /\ JoinsBack(i, b)
    /\ frees' = frees - 1
    /\ free' = [Remove(i) EXCEPT ![i - 1] =
                  Block(free[i - 1].addr,
                        free[i - 1].size + b.size + free[i].size)]
    /\ UNCHANGED <<maxfrees, lostsize, losts>>

JoinFront(i, b) ==
    /\ JoinsFront(i, b) /\ ~JoinsBack(i, b)
    /\ free' = [free EXCEPT ![i - 1] =
                  Block(free[i - 1].addr, free[i - 1].size + b.size)]
    /\ UNCHANGED <<frees, maxfrees, lostsize, losts>>

\* mutant: the entry's address stays
JoinBackStale(i, b) ==
    /\ ~JoinsFront(i, b) /\ JoinsBack(i, b)
    /\ free' = [free EXCEPT ![i] = Block(free[i].addr, free[i].size + b.size)]
    /\ UNCHANGED <<frees, maxfrees, lostsize, losts>>

JoinBack(i, b) ==
    /\ ~JoinsFront(i, b) /\ JoinsBack(i, b)
    /\ free' = [free EXCEPT ![i] = Block(b.addr, free[i].size + b.size)]
    /\ UNCHANGED <<frees, maxfrees, lostsize, losts>>

\* mutant: no look at the room left
InsertUnbounded(i, b) ==
    /\ ~JoinsFront(i, b) /\ ~JoinsBack(i, b)
    /\ frees' = frees + 1
    /\ free' = InsertAt(i, b)
    /\ maxfrees' = IF maxfrees < frees' THEN frees' ELSE maxfrees
    /\ UNCHANGED <<lostsize, losts>>

Insert(i, b) ==
    /\ ~JoinsFront(i, b) /\ ~JoinsBack(i, b)
    /\ frees < MEMMAN_FREES
    /\ frees' = frees + 1
    /\ free' = InsertAt(i, b)
    /\ maxfrees' = IF maxfrees < frees' THEN frees' ELSE maxfrees
    /\ UNCHANGED <<lostsize, losts>>

\* mutant: the last entry is never used
LoseEarly(i, b) ==
    /\ ~JoinsFront(i, b) /\ ~JoinsBack(i, b)
    /\ frees >= MEMMAN_FREES - 1
    /\ losts' = losts + 1
    /\ lostsize' = lostsize + b.size
    /\ UNCHANGED <<frees, free, maxfrees>>

Lose(i, b) ==
    /\ ~JoinsFront(i, b) /\ ~JoinsBack(i, b)
    /\ frees >= MEMMAN_FREES
    /\ losts' = losts + 1
    /\ lostsize' = lostsize + b.size
    /\ UNCHANGED <<frees, free, maxfrees>>

MemmanFree(b) ==
    /\ owned' = owned \ {b}
    /\ \E i \in 0 .. frees :
          /\ Position(i, b.addr)
          /\ \/ /\ JoinBoth(i, b) \/ JoinFront(i, b) \/ JoinBack(i, b) \/ Insert(i, b)
                /\ ret' = Returned("free", b.size, 0)
                /\ UNCHANGED leaked
             \/ /\ Lose(i, b)
                /\ ret' = Returned("free", b.size, -1)
                /\ leaked' = leaked \cup {b}

-----------------------------------------------------------------------------
(* The callers *)

\* HariMain releases the areas the machine has before anybody allocates.
HariMainDonates ==
    /\ booted < Len(Boot)
    /\ booted' = booted + 1
    /\ MemmanFree(Boot[booted + 1])

MemmanAlloc4k(size) ==
    /\ booted = Len(Boot)
    /\ MemmanAlloc(RoundUp(size))
    /\ UNCHANGED booted

\* A caller gives back a block it holds, with the size it asked for.
MemmanFree4k(b, size) ==
    /\ booted = Len(Boot)
    /\ RoundUp(size) = b.size
    /\ MemmanFree(Block(b.addr, RoundUp(size)))
    /\ UNCHANGED booted

Next ==
    \/ HariMainDonates
    \/ \E size \in Sizes : MemmanAlloc4k(size)
    \/ \E b \in owned, size \in Sizes : MemmanFree4k(b, size)

Spec == MemmanInit /\ [][Next]_vars

-----------------------------------------------------------------------------
(* Properties *)

Blocks == [addr : Nat, size : Nat]

\* The variables keep their types, and free[] holds exactly frees entries,
\* never more than the array has room for.
TypeOK ==
    /\ frees \in 0 .. MEMMAN_FREES /\ maxfrees \in 0 .. MEMMAN_FREES
    /\ free \in [0 .. (frees - 1) -> Blocks]
    /\ lostsize \in Nat /\ losts \in Nat
    /\ booted \in 0 .. Len(Boot)
    /\ ret \in [op : {"init", "alloc", "free"}, size : Nat, val : Int]
    /\ owned \subseteq Blocks /\ leaked \subseteq Blocks

\* Two areas that share no byte.
Apart(x, y) ==
    \/ x.size = 0 \/ y.size = 0
    \/ x.addr + x.size <= y.addr
    \/ y.addr + y.size <= x.addr

\* No byte is handed out twice: blocks in use, entries of the free table and
\* dropped blocks never overlap one another, whatever the order of memman_alloc
\* and memman_free calls and whichever of its four ways a release is booked.
NoOverlap ==
    /\ \A i, j \in 0 .. (frees - 1) : i # j => Apart(free[i], free[j])
    /\ \A b, c \in owned : b # c => Apart(b, c)
    /\ \A b, c \in leaked : b # c => Apart(b, c)
    /\ \A b \in owned, c \in leaked : Apart(b, c)
    /\ \A b \in owned \cup leaked, i \in 0 .. (frees - 1) : Apart(b, free[i])

\* No caller asks for nothing.  file_loadfile2 does, for a file of size 0.
NonEmptyRequests == \A s \in Sizes : RoundUp(s) > 0

\* The reason the table is kept in address order (comment in memman_free):
\* entries are sorted and no two of them touch, so a free area is never split
\* over two entries.
Coalesced ==
    /\ \A i \in 0 .. (frees - 1) : free[i].size > 0
    /\ \A i, j \in 0 .. (frees - 1) :
          i < j => free[i].addr + free[i].size < free[j].addr

\* memman_total.
MemmanTotal ==
    LET t[i \in 0 .. frees] == IF i = 0 THEN 0 ELSE t[i - 1] + free[i - 1].size
    IN  t[frees]

SizeOf(S) == FoldFunction(+, 0, [b \in S |-> b.size])

\* Every byte HariMain donated is free, in use, or counted in lostsize:
\* memman_total, the figure shown by the "mem" command, plus what callers hold
\* plus lostsize is always the memory of the machine, and losts counts the
\* refused releases.
Conservation ==
    /\ MemmanTotal + SizeOf(owned) + lostsize
          = SizeOf({Boot[k] : k \in 1 .. Len(Boot)})
    /\ lostsize = SizeOf(leaked)
    /\ losts = Cardinality(leaked)

-----------------------------------------------------------------------------
(* The table implements the heap of module Heap. *)

FreeCells == UNION {free[i].addr .. (free[i].addr + free[i].size - 1) : i \in 0 .. (frees - 1)}

AbstractHeap ==
    INSTANCE Heap WITH
        cells <- FreeCells,
        Requests <- {RoundUp(s) : s \in Sizes},
        MaxRuns <- MEMMAN_FREES

\* memman_alloc refuses a request only if no run of free bytes is long enough,
\* and memman_free refuses a block only if MEMMAN_FREES separate free areas
\* exist and the block touches none of them.
HeapSpec == AbstractHeap!HeapSpec
=============================================================================
