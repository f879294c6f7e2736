-------------------------------- MODULE Heap --------------------------------
(***************************************************************************)
(* What a caller of the memory manager may rely on, with no free table: a   *)
(* set of free bytes, the blocks that callers own, and the blocks whose     *)
(* return was refused and that nobody owns any more.                        *)
(***************************************************************************)
EXTENDS Integers, Sequences, FiniteSets

CONSTANTS
    Boot,       \* sequence of the blocks HariMain donates at boot
    Requests,   \* the (rounded) sizes that callers ask for
    MaxRuns     \* how many separate free areas the manager can remember

VARIABLES
    cells,      \* addresses of the free bytes
    owned,      \* blocks in the hands of callers
    leaked,     \* blocks given back but refused
    booted,     \* how many blocks of Boot have been donated
    ret         \* the last call and what it returned

heapVars == <<cells, owned, leaked, booted, ret>>

\* The bytes of a block.
Cells(b) == b.addr .. (b.addr + b.size - 1)

Block(a, n) == [addr |-> a, size |-> n]

Returned(op, n, v) == [op |-> op, size |-> n, val |-> v]

\* First bytes of the maximal runs of free bytes.
RunStarts == {c \in cells : c - 1 \notin cells}

\* A block that touches no free byte, before or behind.
Isolated(b) == b.addr - 1 \notin cells /\ b.addr + b.size \notin cells

HeapInit ==
    /\ cells = {}
    /\ owned = {Boot[k] : k \in 1..Len(Boot)}
    /\ leaked = {}
    /\ booted = 0
    /\ ret = Returned("init", 0, 0)

Ready == booted = Len(Boot)

GiveBack(b) ==
    /\ owned' = owned \ {b}
    /\ \/ /\ cells' = cells \cup Cells(b)
          /\ ret' = Returned("free", b.size, 0)
          /\ UNCHANGED leaked
       \/ \* refused: only a full table, only a block that joins no free area
          /\ Isolated(b)
          /\ Cardinality(RunStarts) = MaxRuns
          /\ leaked' = leaked \cup {b}
          /\ ret' = Returned("free", b.size, -1)
          /\ UNCHANGED cells

HeapDonate ==
    /\ ~Ready
    /\ booted' = booted + 1
    /\ GiveBack(Boot[booted + 1])

HeapFree ==
    /\ Ready
    /\ \E b \in owned : GiveBack(b)
    /\ UNCHANGED booted

HeapAlloc(n) ==
    /\ Ready
    /\ \E a \in cells :
          /\ Cells(Block(a, n)) \subseteq cells
          /\ cells' = cells \ Cells(Block(a, n))
          /\ owned' = owned \cup {Block(a, n)}
          /\ ret' = Returned("alloc", n, a)
    /\ UNCHANGED <<leaked, booted>>

\* A request is refused only when no run of free bytes is long enough.
HeapAllocFails(n) ==
    /\ Ready
    /\ \A a \in cells : ~(Cells(Block(a, n)) \subseteq cells)
    /\ ret' = Returned("alloc", n, 0)
    /\ UNCHANGED <<cells, owned, leaked, booted>>

HeapNext ==
    \/ HeapDonate
    \/ HeapFree
    \/ \E n \in Requests : HeapAlloc(n) \/ HeapAllocFails(n)

HeapSpec == HeapInit /\ [][HeapNext]_heapVars
=============================================================================
