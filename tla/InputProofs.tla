---------------------------- MODULE InputProofs ----------------------------
(***************************************************************************)
(* Proofs about Input, for buffers of any size and any keys: the two ring   *)
(* buffers are queues, and the processor halts only when both are empty.    *)
(***************************************************************************)
EXTENDS Input, SequenceTheorems, TLAPS

-----------------------------------------------------------------------------
(* A ring buffer *)

\* Data is written behind what waits.
RingSound(f, size, data) == f \in Rings(size, data) /\ f.p = Place(f, Fifo8Status(f))

LEMMA PlaceInside ==
    ASSUME NEW size \in Nat \ {0}, NEW data, NEW f \in Rings(size, data), NEW k \in 0 .. size
    PROVE  Place(f, k) \in 0 .. (size - 1)
BY DEF Place, Rings

\* fifo8_init gives an empty ring.
LEMMA InitSound ==
    ASSUME NEW size \in Nat \ {0}, NEW data, NEW x \in data
    PROVE  /\ RingSound(Fifo8Init(size, x), size, data)
           /\ Waiting(Fifo8Init(size, x)) = <<>>
           /\ Fifo8Init(size, x).overrun = FALSE
<1> DEFINE f == Fifo8Init(size, x)
<1>1. f \in Rings(size, data) BY DEF Fifo8Init, Rings
<1>2. f.p = 0 /\ f.q = 0 /\ f.size = size /\ f.free = size /\ f.overrun = FALSE
  BY DEF Fifo8Init
<1>3. Fifo8Status(f) = 0 BY <1>2 DEF Fifo8Status
<1>4. f.p = Place(f, Fifo8Status(f)) BY <1>2, <1>3 DEF Place
<1>5. Waiting(f) = <<>> BY <1>3 DEF Waiting
<1> QED BY <1>1, <1>2, <1>4, <1>5 DEF RingSound

\* What waits is a sequence, as long as the status says.
LEMMA WaitingSeq ==
    ASSUME NEW size \in Nat \ {0}, NEW data, NEW f, RingSound(f, size, data)
    PROVE  /\ Waiting(f) \in Seq(data)
           /\ Len(Waiting(f)) = Fifo8Status(f)
           /\ Fifo8Status(f) = size - f.free
           /\ Fifo8Status(f) \in 0 .. size
<1>1. f \in Rings(size, data) BY DEF RingSound
<1>2. Fifo8Status(f) \in 0 .. size /\ Fifo8Status(f) = size - f.free
  BY <1>1 DEF Rings, Fifo8Status
<1>3. \A k \in 1 .. Fifo8Status(f) : f.buf[Place(f, k - 1)] \in data
  <2> TAKE k \in 1 .. Fifo8Status(f)
  <2>1. k - 1 \in 0 .. size BY <1>2
  <2>2. Place(f, k - 1) \in 0 .. (size - 1) BY <1>1, <2>1, PlaceInside
  <2> QED BY <1>1, <2>2 DEF Rings
<1> QED BY <1>2, <1>3 DEF Waiting

\* fifo8_put adds at the end, or drops and remembers it.
LEMMA PutAppends ==
    ASSUME NEW size \in Nat \ {0}, NEW data, NEW f, RingSound(f, size, data), NEW x \in data
    PROVE  /\ RingSound(Fifo8Put(f, x), size, data)
           /\ f.free = 0 => /\ Waiting(Fifo8Put(f, x)) = Waiting(f)
                            /\ Fifo8Put(f, x).overrun = TRUE
           /\ f.free # 0 => /\ Waiting(Fifo8Put(f, x)) = Append(Waiting(f), x)
                            /\ Fifo8Put(f, x).overrun = f.overrun
<1> DEFINE g == Fifo8Put(f, x)
           n == Fifo8Status(f)
<1>1. f \in Rings(size, data) /\ f.p = Place(f, n) BY DEF RingSound
<1>2. n \in 0 .. size /\ n = size - f.free BY WaitingSeq
<1>3. CASE f.free = 0
  <2>1. g = [f EXCEPT !.overrun = TRUE] BY <1>3 DEF Fifo8Put
  <2>2. /\ g.size = f.size /\ g.buf = f.buf /\ g.free = f.free /\ g.p = f.p /\ g.q = f.q
        /\ g.overrun = TRUE
    BY <1>1, <2>1 DEF Rings
  <2>3. g \in Rings(size, data) BY <1>1, <2>1 DEF Rings
  <2>4. Fifo8Status(g) = n /\ \A k : Place(g, k) = Place(f, k)
    BY <2>2 DEF Fifo8Status, Place
  <2>5. Waiting(g) = Waiting(f) BY <2>2, <2>4 DEF Waiting
  <2> QED BY <1>1, <1>3, <2>2, <2>3, <2>4, <2>5 DEF RingSound
<1>4. CASE f.free # 0
  <2>1. g = [f EXCEPT !.buf[f.p] = x, !.p = Wrapped(@, f.size), !.free = @ - 1]
    BY <1>4 DEF Fifo8Put
  <2>2. /\ g.size = size /\ g.buf = [f.buf EXCEPT ![f.p] = x] /\ g.free = f.free - 1
        /\ g.p = Wrapped(f.p, size) /\ g.q = f.q /\ g.overrun = f.overrun
    BY <1>1, <2>1 DEF Rings
  <2>3. f.free \in 1 .. size /\ f.p \in 0 .. (size - 1) /\ f.q \in 0 .. (size - 1) /\ f.size = size
    BY <1>1, <1>4 DEF Rings
  <2>4. Wrapped(f.p, size) \in 0 .. (size - 1) BY <2>3 DEF Wrapped
  <2>5. g \in Rings(size, data)
    <3>1. [f.buf EXCEPT ![f.p] = x] \in [0 .. (size - 1) -> data]
      BY <1>1 DEF Rings
    <3>2. f.free - 1 \in 0 .. size BY <2>3
    <3>3. g = [size |-> size, buf |-> [f.buf EXCEPT ![f.p] = x], free |-> f.free - 1,
               p |-> Wrapped(f.p, size), q |-> f.q, overrun |-> f.overrun]
      BY <1>1, <2>1, <2>3 DEF Rings
    <3> QED BY <1>1, <2>3, <2>4, <3>1, <3>2, <3>3 DEF Rings
  <2>6. Fifo8Status(g) = n + 1 /\ n < size
    BY <1>2, <2>2, <2>3 DEF Fifo8Status
  <2>7. \A k \in Int : Place(g, k) = Place(f, k) BY <2>2, <2>3 DEF Place
  <2>8. g.p = Place(g, Fifo8Status(g))
    BY <1>1, <1>2, <2>2, <2>3, <2>6 DEF Place, Wrapped
  <2>9. \A k \in 1 .. n : Place(f, k - 1) # f.p /\ Place(f, k - 1) \in 0 .. (size - 1)
    BY <1>1, <1>2, <2>3, <2>6 DEF Place
  <2>10. \A k \in 1 .. (n + 1) :
            g.buf[Place(g, k - 1)] = IF k = n + 1 THEN x ELSE f.buf[Place(f, k - 1)]
    <3> TAKE k \in 1 .. (n + 1)
    <3>1. Place(g, k - 1) = Place(f, k - 1) BY <1>2, <2>7
    <3>2. CASE k = n + 1
      <4>1. Place(g, k - 1) = f.p BY <1>1, <1>2, <3>1, <3>2
      <4> QED BY <1>1, <2>2, <2>3, <3>2, <4>1 DEF Rings
    <3>3. CASE k # n + 1
      <4>1. k \in 1 .. n BY <1>2, <3>3
      <4> QED BY <1>1, <2>2, <2>9, <3>1, <3>3, <4>1 DEF Rings
    <3> QED BY <3>2, <3>3
  <2>11. Waiting(g) = Append(Waiting(f), x)
    <3>1. Waiting(g) = [k \in 1 .. (n + 1) |-> g.buf[Place(g, k - 1)]]
      BY <2>6 DEF Waiting
    <3>2. /\ Waiting(f) \in Seq(data) /\ Len(Waiting(f)) = n
          /\ \A k \in 1 .. n : Waiting(f)[k] = f.buf[Place(f, k - 1)]
      BY WaitingSeq DEF Waiting
    <3>3. /\ Append(Waiting(f), x) \in Seq(data)
          /\ Len(Append(Waiting(f), x)) = n + 1
          /\ \A k \in 1 .. n : Append(Waiting(f), x)[k] = Waiting(f)[k]
          /\ Append(Waiting(f), x)[n + 1] = x
      BY <3>2, AppendProperties
    <3>4. \A k \in 1 .. (n + 1) : g.buf[Place(g, k - 1)] = Append(Waiting(f), x)[k]
      <4> TAKE k \in 1 .. (n + 1)
      <4>1. CASE k = n + 1 BY <2>10, <3>3, <4>1
      <4>2. CASE k # n + 1
        <5>1. k \in 1 .. n BY <1>2, <4>2
        <5> QED BY <2>10, <3>2, <3>3, <4>2, <5>1
      <4> QED BY <4>1, <4>2
    <3>5. Append(Waiting(f), x) = [k \in 1 .. (n + 1) |-> Append(Waiting(f), x)[k]]
      BY <1>2, <3>3, LenProperties
    <3> QED BY <3>1, <3>4, <3>5
  <2> QED BY <1>4, <2>2, <2>5, <2>8, <2>11 DEF RingSound
<1> QED BY <1>3, <1>4

\* fifo8_get takes what has waited longest.
LEMMA GetTakesFirst ==
    ASSUME NEW size \in Nat \ {0}, NEW data, NEW f, RingSound(f, size, data), Fifo8Status(f) # 0
    PROVE  /\ RingSound(Fifo8Get(f), size, data)
           /\ Waiting(f) # <<>> /\ Fifo8Front(f) = Head(Waiting(f)) /\ Fifo8Front(f) \in data
           /\ Waiting(Fifo8Get(f)) = Tail(Waiting(f))
           /\ Fifo8Get(f).overrun = f.overrun
<1> DEFINE g == Fifo8Get(f)
           n == Fifo8Status(f)
<1>1. f \in Rings(size, data) /\ f.p = Place(f, n) BY DEF RingSound
<1>2. n \in 1 .. size /\ n = size - f.free BY WaitingSeq
<1>3. g = [f EXCEPT !.q = Wrapped(@, f.size), !.free = @ + 1] BY DEF Fifo8Get
<1>4. f.p \in 0 .. (size - 1) /\ f.q \in 0 .. (size - 1) /\ f.size = size /\ f.free \in 0 .. (size - 1)
  BY <1>1, <1>2 DEF Rings
<1>5. /\ g.size = size /\ g.buf = f.buf /\ g.free = f.free + 1 /\ g.p = f.p
      /\ g.q = Wrapped(f.q, size) /\ g.overrun = f.overrun
  BY <1>1, <1>3 DEF Rings
<1>6. Wrapped(f.q, size) \in 0 .. (size - 1) BY <1>4 DEF Wrapped
<1>7. g \in Rings(size, data)
  <2>1. g = [size |-> size, buf |-> f.buf, free |-> f.free + 1,
             p |-> f.p, q |-> Wrapped(f.q, size), overrun |-> f.overrun]
    BY <1>1, <1>3, <1>4 DEF Rings
  <2> QED BY <1>1, <1>4, <1>6, <2>1 DEF Rings
<1>8. Fifo8Status(g) = n - 1 BY <1>2, <1>4, <1>5 DEF Fifo8Status
<1>9. \A k \in 0 .. (n - 1) : Place(g, k) = Place(f, k + 1)
  BY <1>2, <1>4, <1>5 DEF Place, Wrapped
<1>10. g.p = Place(g, Fifo8Status(g))
  BY <1>1, <1>2, <1>5, <1>8, <1>9
<1>11. /\ Waiting(f) \in Seq(data) /\ Len(Waiting(f)) = n
       /\ \A k \in 1 .. n : Waiting(f)[k] = f.buf[Place(f, k - 1)]
  BY WaitingSeq DEF Waiting
<1>12. Waiting(f) # <<>> /\ Head(Waiting(f)) = Waiting(f)[1] BY <1>2, <1>11
<1>13. Place(f, 0) = f.q BY <1>4 DEF Place
<1>14. Fifo8Front(f) = Head(Waiting(f)) /\ Fifo8Front(f) \in data
  BY <1>2, <1>11, <1>12, <1>13 DEF Fifo8Front
<1>15. Waiting(g) = Tail(Waiting(f))
  <2>1. Waiting(g) = [k \in 1 .. (n - 1) |-> f.buf[Place(g, k - 1)]]
    BY <1>5, <1>8 DEF Waiting
  <2>2. Tail(Waiting(f)) = [k \in 1 .. (n - 1) |-> Waiting(f)[k + 1]]
    <3>1. /\ Tail(Waiting(f)) \in Seq(data) /\ Len(Tail(Waiting(f))) = n - 1
          /\ \A k \in 1 .. (n - 1) : Tail(Waiting(f))[k] = Waiting(f)[k + 1]
      BY <1>11, <1>12, HeadTailProperties
    <3>2. Tail(Waiting(f)) = [k \in 1 .. (n - 1) |-> Tail(Waiting(f))[k]]
      BY <3>1, LenProperties
    <3> QED BY <3>1, <3>2
  <2>3. \A k \in 1 .. (n - 1) : f.buf[Place(g, k - 1)] = Waiting(f)[k + 1]
    <3> TAKE k \in 1 .. (n - 1)
    <3>1. Place(g, k - 1) = Place(f, k) BY <1>2, <1>9
    <3>2. Waiting(f)[k + 1] = f.buf[Place(f, k)] BY <1>2, <1>11
    <3> QED BY <3>1, <3>2
  <2> QED BY <2>1, <2>2, <2>3
<1> QED BY <1>5, <1>7, <1>10, <1>12, <1>14, <1>15 DEF RingSound

-----------------------------------------------------------------------------
(* The system *)

\* Interrupts are off from the test of the buffers to what follows from it.
IInv ==
    /\ RingSound(keyfifo, KEY_SIZE, Codes)
    /\ RingSound(mousefifo, MOUSE_SIZE, Bytes)
    /\ TypeOK
    /\ pc \in {"test", "stihlt"} => intr = FALSE
    /\ pc = "halted" => intr = TRUE
    /\ pc \in {"stihlt", "halted"} => Fifo8Status(keyfifo) = 0 /\ Fifo8Status(mousefifo) = 0

LEMMA InvInit == Init => IInv
<1> SUFFICES ASSUME Init PROVE IInv OBVIOUS
<1>1. PICK c \in Codes : keyfifo = Fifo8Init(KEY_SIZE, c) BY DEF Init
<1>2. [part |-> 0, first |-> FALSE] \in Bytes BY DEF Bytes
<1>3. RingSound(keyfifo, KEY_SIZE, Codes) BY <1>1, InitSound, InputAssumption
<1>4. RingSound(mousefifo, MOUSE_SIZE, Bytes) BY <1>2, InitSound, InputAssumption DEF Init
<1>5. TypeOK BY <1>3, <1>4 DEF Init, TypeOK, RingSound
<1> QED BY <1>3, <1>4, <1>5 DEF Init, IInv

\* What a step can make of a ring.
Moves(f, g, data) ==
    \/ g = f
    \/ \E x \in data : g = Fifo8Put(f, x)
    \/ Fifo8Status(f) # 0 /\ g = Fifo8Get(f)

LEMMA MovesSound ==
    ASSUME NEW size \in Nat \ {0}, NEW data, NEW f, NEW g,
           RingSound(f, size, data), Moves(f, g, data)
    PROVE  RingSound(g, size, data)
<1>1. ASSUME NEW x \in data PROVE RingSound(Fifo8Put(f, x), size, data)
  BY PutAppends
<1>2. Fifo8Status(f) # 0 => RingSound(Fifo8Get(f), size, data) BY GetTakesFirst
<1> QED BY <1>1, <1>2 DEF Moves

LEMMA RingsMove ==
    ASSUME TypeOK, [Next]_vars
    PROVE  Moves(keyfifo, keyfifo', Codes) /\ Moves(mousefifo, mousefifo', Bytes)
<1>1. CASE Inthandler21
  <2>1. port.data \in Codes
    BY <1>1 DEF TypeOK, Inthandler21, Interrupt, NOTHING
  <2> QED BY <1>1, <2>1 DEF Inthandler21, Moves
<1>2. CASE Inthandler2c
  <2>1. port.data \in Bytes
    BY <1>2 DEF TypeOK, Inthandler2c, Interrupt, NOTHING
  <2> QED BY <1>2, <2>1 DEF Inthandler2c, Moves
<1>3. CASE Cli \/ NothingWaits \/ Stihlt
  BY <1>3 DEF Cli, NothingWaits, Stihlt, Moves
<1>4. CASE TakeKey BY <1>4 DEF TakeKey, Moves
<1>5. CASE TakeMouse BY <1>5 DEF TakeMouse, Moves
<1>6. CASE \E c \in Codes : Press(c) BY <1>6 DEF Press, Moves
<1>7. CASE \E b \in Bytes : Move(b) BY <1>7 DEF Move, Moves
<1>8. CASE UNCHANGED vars BY <1>8 DEF vars, Moves
<1> QED BY <1>1, <1>2, <1>3, <1>4, <1>5, <1>6, <1>7, <1>8 DEF Next, HariMain, Handlers

LEMMA RingsStaySound ==
    ASSUME IInv, [Next]_vars
    PROVE  /\ RingSound(keyfifo', KEY_SIZE, Codes)
           /\ RingSound(mousefifo', MOUSE_SIZE, Bytes)
<1>1. Moves(keyfifo, keyfifo', Codes) /\ Moves(mousefifo, mousefifo', Bytes) BY RingsMove DEF IInv
<1>2. RingSound(keyfifo', KEY_SIZE, Codes)
  BY <1>1, MovesSound, InputAssumption DEF IInv
<1>3. RingSound(mousefifo', MOUSE_SIZE, Bytes)
  BY <1>1, MovesSound, InputAssumption DEF IInv
<1> QED BY <1>2, <1>3

LEMMA InvStep == IInv /\ [Next]_vars => IInv'
<1> SUFFICES ASSUME IInv, [Next]_vars PROVE IInv' OBVIOUS
<1>1. /\ RingSound(keyfifo', KEY_SIZE, Codes)
      /\ RingSound(mousefifo', MOUSE_SIZE, Bytes)
  BY RingsStaySound
<1>2. keyfifo' \in Rings(KEY_SIZE, Codes) /\ mousefifo' \in Rings(MOUSE_SIZE, Bytes)
  BY <1>1 DEF RingSound
<1>3. SUFFICES /\ pc' \in {"loop", "test", "stihlt", "halted"} /\ intr' \in BOOLEAN
               /\ phase' \in 0 .. 3 /\ next' \in 0 .. 3
               /\ port' \in {NOTHING} \cup [dev : {"keyboard"}, data : Codes]
                                      \cup [dev : {"mouse"}, data : Bytes]
               /\ pc' \in {"test", "stihlt"} => intr' = FALSE
               /\ pc' = "halted" => intr' = TRUE
               /\ pc' \in {"stihlt", "halted"} =>
                     Fifo8Status(keyfifo') = 0 /\ Fifo8Status(mousefifo') = 0
  BY <1>1, <1>2 DEF IInv, TypeOK, RingSound
<1>4. CASE Inthandler21 BY <1>4 DEF IInv, TypeOK, Inthandler21, Interrupt
<1>5. CASE Inthandler2c BY <1>5 DEF IInv, TypeOK, Inthandler2c, Interrupt
<1>6. CASE Cli BY <1>6 DEF IInv, TypeOK, Cli
<1>7. CASE NothingWaits
  <2>1. Fifo8Status(keyfifo) \in Nat /\ Fifo8Status(mousefifo) \in Nat
    BY WaitingSeq, InputAssumption DEF IInv
  <2>2. Fifo8Status(keyfifo) = 0 /\ Fifo8Status(mousefifo) = 0
    BY <1>7, <2>1 DEF NothingWaits
  <2> QED BY <1>7, <2>2 DEF IInv, TypeOK, NothingWaits
<1>8. CASE Stihlt BY <1>8 DEF IInv, TypeOK, Stihlt
<1>9. CASE TakeKey BY <1>9 DEF IInv, TypeOK, TakeKey
<1>10. CASE TakeMouse
  <2>1. phase' \in 0 .. 3
    <3>1. phase = 0 \/ phase = 1 \/ phase = 2 \/ phase = 3 BY DEF IInv, TypeOK
    <3>2. MouseDecode(Fifo8Front(mousefifo)) BY <1>10 DEF TakeMouse
    <3> QED BY <3>1, <3>2 DEF MouseDecode
  <2> QED BY <1>10, <2>1 DEF IInv, TypeOK, TakeMouse
<1>11. CASE \E c \in Codes : Press(c) BY <1>11 DEF IInv, TypeOK, Press
<1>12. CASE \E b \in Bytes : Move(b) BY <1>12 DEF IInv, TypeOK, Move
<1>13. CASE UNCHANGED vars BY <1>13 DEF IInv, TypeOK, vars
<1> QED BY <1>4, <1>5, <1>6, <1>7, <1>8, <1>9, <1>10, <1>11, <1>12, <1>13
        DEF Next, HariMain, Handlers

LEMMA InvAlways == Spec => []IInv
<1>1. Init => IInv BY InvInit
<1>2. IInv /\ [Next]_vars => IInv' BY InvStep
<1> QED BY <1>1, <1>2, PTL DEF Spec

\* The indices of both rings stay inside (fifo.c), and so does the phase of mouse_decode.
THEOREM TypeCorrect == Spec => []TypeOK
<1>1. IInv => TypeOK BY DEF IInv
<1> QED BY <1>1, InvAlways, PTL

\* HariMain halts only when both buffers are empty, with interrupts on: io_cli
\* before the test and io_stihlt after it leave no gap.
THEOREM NeverHaltsOnInput == Spec => []AwakeOnInput
<1>1. IInv => AwakeOnInput
  BY DEF IInv, AwakeOnInput
<1> QED BY <1>1, InvAlways, PTL

-----------------------------------------------------------------------------
(* The rings implement queues *)

LEMMA RingRefines ==
    ASSUME NEW size \in Nat \ {0}, NEW data, NEW f, NEW g,
           RingSound(f, size, data), Moves(f, g, data)
    PROVE  \/ Waiting(g) = Waiting(f) /\ g.overrun = f.overrun
           \/ Waiting(f) # <<>> /\ Waiting(g) = Tail(Waiting(f)) /\ g.overrun = f.overrun
           \/ \E x \in data :
                 \/ Len(Waiting(f)) < size /\ Waiting(g) = Append(Waiting(f), x) /\ g.overrun = f.overrun
                 \/ Len(Waiting(f)) = size /\ g.overrun = TRUE /\ Waiting(g) = Waiting(f)
<1>1. CASE g = f BY <1>1
<1>2. CASE Fifo8Status(f) # 0 /\ g = Fifo8Get(f) BY <1>2, GetTakesFirst
<1>3. ASSUME NEW x \in data, g = Fifo8Put(f, x)
      PROVE  \/ Len(Waiting(f)) < size /\ Waiting(g) = Append(Waiting(f), x) /\ g.overrun = f.overrun
             \/ Len(Waiting(f)) = size /\ g.overrun = TRUE /\ Waiting(g) = Waiting(f)
  <2>1. f.free \in 0 .. size /\ Len(Waiting(f)) = size - f.free
    BY WaitingSeq DEF RingSound, Rings
  <2>2. /\ f.free = 0 => Waiting(g) = Waiting(f) /\ g.overrun = TRUE
        /\ f.free # 0 => Waiting(g) = Append(Waiting(f), x) /\ g.overrun = f.overrun
    <3>1. /\ f.free = 0 => /\ Waiting(Fifo8Put(f, x)) = Waiting(f)
                           /\ Fifo8Put(f, x).overrun = TRUE
          /\ f.free # 0 => /\ Waiting(Fifo8Put(f, x)) = Append(Waiting(f), x)
                           /\ Fifo8Put(f, x).overrun = f.overrun
      BY PutAppends
    <3> QED BY <1>3, <3>1, Zenon
  <2> QED BY <2>1, <2>2
<1> QED BY <1>1, <1>2, <1>3 DEF Moves

\* For any sizes, each ring buffer of fifo.c is a queue that drops what does not
\* fit and remembers that it did.
THEOREM ImplementsQueues == Spec => QueueSpec
<1>1. Init => Keys!Init /\ Mouse!Init
  <2> SUFFICES ASSUME Init PROVE Keys!Init /\ Mouse!Init OBVIOUS
  <2>1. PICK c \in Codes : keyfifo = Fifo8Init(KEY_SIZE, c) BY DEF Init
  <2>2. [part |-> 0, first |-> FALSE] \in Bytes BY DEF Bytes
  <2>3. Keys!Init BY <2>1, InitSound, InputAssumption DEF Keys!Init
  <2>4. Mouse!Init BY <2>2, InitSound, InputAssumption DEF Init, Mouse!Init
  <2> QED BY <2>3, <2>4
<1>2. IInv /\ [Next]_vars => [Keys!Next]_<<Waiting(keyfifo), keyfifo.overrun>>
  <2> SUFFICES ASSUME IInv, [Next]_vars
               PROVE  [Keys!Next]_<<Waiting(keyfifo), keyfifo.overrun>>
    OBVIOUS
  <2>1. Moves(keyfifo, keyfifo', Codes) /\ RingSound(keyfifo, KEY_SIZE, Codes)
    BY RingsMove DEF IInv
  <2> QED BY <2>1, RingRefines, InputAssumption DEF Keys!Next, Keys!Put, Keys!Get
<1>3. IInv /\ [Next]_vars => [Mouse!Next]_<<Waiting(mousefifo), mousefifo.overrun>>
  <2> SUFFICES ASSUME IInv, [Next]_vars
               PROVE  [Mouse!Next]_<<Waiting(mousefifo), mousefifo.overrun>>
    OBVIOUS
  <2>1. Moves(mousefifo, mousefifo', Bytes) /\ RingSound(mousefifo, MOUSE_SIZE, Bytes)
    BY RingsMove DEF IInv
  <2> QED BY <2>1, RingRefines, InputAssumption DEF Mouse!Next, Mouse!Put, Mouse!Get
<1> QED BY <1>1, <1>2, <1>3, InvAlways, PTL DEF Spec, QueueSpec, Keys!Spec, Mouse!Spec

-----------------------------------------------------------------------------
(* Packets *)

Succ(part) == IF part = 3 THEN 1 ELSE part + 1

\* The bytes w are those from the one that is expected, a, up to before z.
Linked(w, a, z) ==
    /\ Len(w) = 0 => a = z
    /\ Len(w) # 0 => /\ w[1].part = a
                     /\ \A k \in 1 .. (Len(w) - 1) : w[k + 1].part = Succ(w[k].part)
                     /\ z = Succ(w[Len(w)].part)

There(fifo, byte) ==
    IF byte.dev = "mouse" THEN Append(Waiting(fifo), byte.data) ELSE Waiting(fifo)

LEMMA LinkAppends ==
    ASSUME NEW w \in Seq(Bytes), NEW a, NEW x \in Bytes, Linked(w, a, x.part)
    PROVE  Linked(Append(w, x), a, Succ(x.part))
<1> DEFINE n == Len(w)
           v == Append(w, x)
<1>1. n \in Nat BY LenProperties
<1>2. Len(v) = n + 1 /\ v[n + 1] = x /\ \A k \in 1 .. n : v[k] = w[k]
  BY AppendProperties
<1>3. v[1].part = a
  <2>1. CASE n = 0 BY <1>2, <2>1 DEF Linked
  <2>2. CASE n # 0
    <3>1. 1 \in 1 .. n BY <1>1, <2>2
    <3> QED BY <1>2, <2>2, <3>1 DEF Linked
  <2> QED BY <2>1, <2>2
<1>4. ASSUME NEW k \in 1 .. n PROVE v[k + 1].part = Succ(v[k].part)
  <2>1. CASE k = n
    <3>1. x.part = Succ(w[n].part) BY <1>1, <1>4, <2>1 DEF Linked
    <3> QED BY <1>2, <2>1, <3>1
  <2>2. CASE k # n
    <3>1. k \in 1 .. (n - 1) /\ k + 1 \in 1 .. n BY <1>1, <2>2
    <3>2. w[k + 1].part = Succ(w[k].part) BY <1>1, <3>1 DEF Linked
    <3> QED BY <1>2, <3>1, <3>2
  <2> QED BY <2>1, <2>2
<1> QED BY <1>1, <1>2, <1>3, <1>4 DEF Linked

LEMMA LinkTails ==
    ASSUME NEW w \in Seq(Bytes), NEW a, NEW z, Linked(w, a, z), w # <<>>
    PROVE  Head(w).part = a /\ Linked(Tail(w), Succ(a), z)
<1> DEFINE n == Len(w)
           v == Tail(w)
<1>1. n \in Nat /\ n >= 1
  <2>1. n \in Nat /\ n # 0 BY EmptySeq, LenProperties
  <2> HIDE DEF n
  <2> QED BY <2>1
<1>2. Head(w) = w[1] /\ Len(v) = n - 1 /\ \A k \in 1 .. (n - 1) : v[k] = w[k + 1]
  BY HeadTailProperties
<1>3. /\ w[1].part = a /\ z = Succ(w[n].part)
      /\ \A k \in 1 .. (n - 1) : w[k + 1].part = Succ(w[k].part)
  BY <1>1 DEF Linked
<1>4. CASE n = 1 BY <1>2, <1>3, <1>4 DEF Linked
<1>5. CASE n # 1
  <2>0. 1 \in 1 .. (n - 1) /\ n - 1 \in 1 .. (n - 1)
    <3> HIDE DEF n
    <3> QED BY <1>1, <1>5
  <2>1. v[1].part = Succ(a)
    <3>1. 1 \in 1 .. (n - 1) BY <2>0
    <3>2. w[1 + 1].part = Succ(w[1].part) BY <1>3, <3>1
    <3> QED BY <1>2, <1>3, <3>1, <3>2
  <2>2. ASSUME NEW k \in 1 .. (n - 2) PROVE v[k + 1].part = Succ(v[k].part)
    <3>1. k \in 1 .. (n - 1) /\ k + 1 \in 1 .. (n - 1) BY <1>1
    <3> QED BY <1>2, <1>3, <3>1
  <2>3. z = Succ(v[n - 1].part)
    <3>1. n - 1 \in 1 .. (n - 1) BY <2>0
    <3>2. v[n - 1] = w[n] BY <1>1, <1>2, <3>1
    <3> QED BY <1>3, <3>2
  <2> QED BY <1>1, <1>2, <1>3, <1>5, <2>1, <2>2, <2>3 DEF Linked
<1> QED BY <1>4, <1>5

LEMMA BytePart == \A b \in Bytes : b.part \in 0 .. 3
<1>1. ASSUME NEW b \in [part : {0}, first : {FALSE}] PROVE b.part \in 0 .. 3 OBVIOUS
<1>2. ASSUME NEW b \in [part : 1 .. 3, first : BOOLEAN] PROVE b.part \in 0 .. 3 OBVIOUS
<1> QED BY <1>1, <1>2 DEF Bytes

\* InStep without the sequence of parts.
LEMMA StreamLinks ==
    ASSUME NEW w \in Seq(Bytes), NEW a, NEW z \in 0 .. 3, NEW stream,
           stream = [k \in 1 .. Len(w) |-> w[k].part] \o <<z>>
    PROVE  (/\ stream[1] = a
            /\ \A k \in 1 .. (Len(stream) - 1) :
                  stream[k + 1] = IF stream[k] = 3 THEN 1 ELSE stream[k] + 1)
           <=> Linked(w, a, z)
<1> DEFINE n == Len(w)
           parts == [k \in 1 .. n |-> w[k].part]
<1>1. n \in Nat /\ \A k \in 1 .. n : w[k] \in Bytes /\ w[k].part \in 0 .. 3
  <2>1. n \in Nat BY LenProperties
  <2>2. \A k \in 1 .. n : w[k] \in Bytes BY ElementOfSeq
  <2>3. \A b \in Bytes : b.part \in 0 .. 3 BY BytePart
  <2> QED BY <2>1, <2>2, <2>3
<1>2. parts \in Seq(0 .. 3) /\ Len(parts) = n BY <1>1
<1>3. <<z>> \in Seq(0 .. 3) /\ Len(<<z>>) = 1 /\ <<z>>[1] = z OBVIOUS
<1>4. /\ Len(stream) = n + 1 /\ stream[n + 1] = z
      /\ \A k \in 1 .. n : stream[k] = w[k].part
  BY <1>1, <1>2, <1>3, ConcatProperties
<1>5. CASE n = 0 BY <1>4, <1>5 DEF Linked
<1>6. CASE n # 0
  <2>1. stream[1] = w[1].part BY <1>1, <1>4, <1>6
  <2>2. (\A k \in 1 .. n : stream[k + 1] = Succ(stream[k]))
        <=> /\ \A k \in 1 .. (n - 1) : w[k + 1].part = Succ(w[k].part)
            /\ z = Succ(w[n].part)
    <3>1. stream[n + 1] = z /\ stream[n] = w[n].part BY <1>1, <1>4, <1>6
    <3>2. \A k \in 1 .. (n - 1) : stream[k] = w[k].part /\ stream[k + 1] = w[k + 1].part
      BY <1>1, <1>4
    <3>3. \A k \in 1 .. n : k = n \/ k \in 1 .. (n - 1) BY <1>1
    <3>4. n \in 1 .. n /\ \A k \in 1 .. (n - 1) : k \in 1 .. n BY <1>1, <1>6
    <3> QED BY <3>1, <3>2, <3>3, <3>4
  <2> QED BY <1>1, <1>4, <1>6, <2>1, <2>2 DEF Linked, Succ
<1> QED BY <1>5, <1>6

\* Until a byte is dropped or refused, mouse_decode takes the three bytes of a
\* packet for the three bytes of a packet, whatever interrupts do.
THEOREM PacketsStay == Spec => PacketsKept
<1> DEFINE Order == Linked(There(mousefifo, port), phase, next)
<1>1. IInv => There(mousefifo, port) \in Seq(Bytes) /\ (InStep <=> Order)
  <2> SUFFICES ASSUME IInv
               PROVE  There(mousefifo, port) \in Seq(Bytes) /\ (InStep <=> Order)
    OBVIOUS
  <2>1. Waiting(mousefifo) \in Seq(Bytes) BY WaitingSeq, InputAssumption DEF IInv
  <2>2. port.dev = "mouse" => port.data \in Bytes BY DEF IInv, TypeOK, NOTHING
  <2>3. There(mousefifo, port) \in Seq(Bytes) BY <2>1, <2>2, AppendProperties DEF There
  <2>4. Stream = [k \in 1 .. Len(There(mousefifo, port)) |-> There(mousefifo, port)[k].part] \o <<next>>
    BY DEF Stream, There
  <2>5. next \in 0 .. 3 BY DEF IInv, TypeOK
  <2>6. (/\ Stream[1] = phase
         /\ \A k \in 1 .. (Len(Stream) - 1) :
               Stream[k + 1] = IF Stream[k] = 3 THEN 1 ELSE Stream[k] + 1)
        <=> Order
    <3> HIDE DEF Order
    <3>1. \A stream : stream = [k \in 1 .. Len(There(mousefifo, port)) |-> There(mousefifo, port)[k].part] \o <<next>>
            => ((/\ stream[1] = phase
                 /\ \A k \in 1 .. (Len(stream) - 1) :
                      stream[k + 1] = IF stream[k] = 3 THEN 1 ELSE stream[k] + 1)
                <=> Order)
      BY <2>3, <2>5, StreamLinks DEF Order
    <3> QED BY <2>4, <3>1
  <2> QED BY <2>3, <2>6 DEF InStep
<1>0. IInv' => (InStep' <=> Order') BY <1>1, PTL
<1>2. ASSUME IInv, IInv', [Next]_vars, InStep, ~Drops, ~Refuses PROVE InStep'
  <2> DEFINE w == There(mousefifo, port)
  <2>1. w \in Seq(Bytes) /\ Linked(w, phase, next) BY <1>1, <1>2
  <2>2. InStep' <=> Linked(There(mousefifo', port'), phase', next') BY <1>0, <1>2
  <2>3. phase \in 0 .. 3 /\ next \in 0 .. 3 BY <1>2 DEF IInv, TypeOK
  <2>4. CASE UNCHANGED <<mousefifo, phase, next>> /\ (port'.dev = "mouse" \/ port.dev = "mouse" => port' = port)
    <3>1. There(mousefifo', port') = w BY <2>4 DEF There
    <3> QED BY <2>1, <2>2, <2>4, <3>1
  <2>5. CASE Inthandler2c
    <3>1. port.dev = "mouse" /\ port'.dev = "none" /\ UNCHANGED <<phase, next>>
      BY <2>5 DEF Inthandler2c, Interrupt, NOTHING
    <3>2. mousefifo.free # 0 /\ mousefifo' = Fifo8Put(mousefifo, port.data)
      BY <1>2, <2>5 DEF Drops, Inthandler2c
    <3>3. port.data \in Bytes BY <1>2, <3>1 DEF IInv, TypeOK, NOTHING
    <3>4. Waiting(mousefifo') = Append(Waiting(mousefifo), port.data)
      <4>1. RingSound(mousefifo, MOUSE_SIZE, Bytes) BY <1>2 DEF IInv
      <4>2. MOUSE_SIZE \in Nat \ {0} BY InputAssumption
      <4>3. ASSUME NEW x \in Bytes
            PROVE  /\ mousefifo.free = 0 => /\ Waiting(Fifo8Put(mousefifo, x)) = Waiting(mousefifo)
                                            /\ Fifo8Put(mousefifo, x).overrun = TRUE
                   /\ mousefifo.free # 0 => /\ Waiting(Fifo8Put(mousefifo, x)) = Append(Waiting(mousefifo), x)
                                            /\ Fifo8Put(mousefifo, x).overrun = mousefifo.overrun
        BY <4>1, <4>2, PutAppends, Zenon
      <4> QED BY <3>2, <3>3, <4>3
    <3>5. There(mousefifo', port') = w BY <3>1, <3>4 DEF There
    <3> QED BY <2>1, <2>2, <3>1, <3>5
  <2>6. CASE TakeMouse
    <3>1. /\ Fifo8Status(mousefifo) # 0 /\ mousefifo' = Fifo8Get(mousefifo)
          /\ port' = port /\ next' = next /\ MouseDecode(Fifo8Front(mousefifo))
      BY <2>6 DEF TakeMouse
    <3>2. /\ Waiting(mousefifo) \in Seq(Bytes) /\ Waiting(mousefifo) # <<>>
          /\ Waiting(mousefifo') = Tail(Waiting(mousefifo))
          /\ Fifo8Front(mousefifo) = Head(Waiting(mousefifo)) /\ Fifo8Front(mousefifo) \in Bytes
      BY <1>2, <3>1, GetTakesFirst, WaitingSeq, InputAssumption DEF IInv
    <3>3. /\ w # <<>> /\ Head(w) = Head(Waiting(mousefifo))
          /\ There(mousefifo', port') = Tail(w)
      <4>1. CASE port.dev = "mouse"
        <5>1. port.data \in Bytes BY <1>2, <4>1 DEF IInv, TypeOK, NOTHING
        <5>2. w = Append(Waiting(mousefifo), port.data) BY <4>1 DEF There
        <5>3. /\ w # <<>> /\ Head(w) = Head(Waiting(mousefifo))
              /\ Tail(w) = Append(Tail(Waiting(mousefifo)), port.data)
          BY <3>2, <5>1, <5>2, AppendProperties, HeadTailAppend
        <5>4. There(mousefifo', port') = Append(Tail(Waiting(mousefifo)), port.data)
          BY <3>1, <3>2, <4>1 DEF There
        <5> QED BY <5>3, <5>4
      <4>2. CASE port.dev # "mouse" BY <3>1, <3>2, <4>2 DEF There
      <4> QED BY <4>1, <4>2
    <3>4. Head(w).part = phase /\ Linked(Tail(w), Succ(phase), next)
      BY <2>1, <3>3, LinkTails
    <3>5. phase' = Succ(phase)
      <4>1. Fifo8Front(mousefifo).part = phase BY <3>2, <3>3, <3>4
      <4>2. phase = 1 => Fifo8Front(mousefifo).first
        BY <1>2, <2>6, <4>1 DEF Refuses
      <4>3. phase = 0 \/ phase = 1 \/ phase = 2 \/ phase = 3 BY <2>3
      <4> QED BY <3>1, <4>1, <4>2, <4>3 DEF MouseDecode, Succ
    <3> QED BY <2>2, <3>1, <3>3, <3>4, <3>5
  <2>7. ASSUME NEW x \in Bytes, Move(x) PROVE InStep'
    <3>1. /\ port.dev # "mouse" /\ port'.dev = "mouse" /\ port'.data = x /\ x.part = next
          /\ next' = Succ(next) /\ UNCHANGED <<mousefifo, phase>>
      BY <2>7 DEF Move, NOTHING, Succ
    <3>2. There(mousefifo', port') = Append(w, x) BY <3>1 DEF There
    <3>3. Linked(Append(w, x), phase, Succ(next)) BY <2>1, <3>1, LinkAppends
    <3> QED BY <2>2, <3>1, <3>2, <3>3
  <2>8. CASE Inthandler21 BY <2>4, <2>8 DEF Inthandler21, Interrupt, NOTHING
  <2>9. CASE Cli \/ NothingWaits \/ Stihlt \/ TakeKey
    BY <2>4, <2>9 DEF Cli, NothingWaits, Stihlt, TakeKey
  <2>10. CASE \E c \in Codes : Press(c) BY <2>4, <2>10 DEF Press, NOTHING
  <2>11. CASE UNCHANGED vars BY <2>4, <2>11 DEF vars
  <2> QED BY <1>2, <2>5, <2>6, <2>7, <2>8, <2>9, <2>10, <2>11 DEF Next, HariMain, Handlers
<1> QED BY <1>2, InvAlways, PTL DEF Spec, PacketsKept
=============================================================================
