------------------------------- MODULE Input -------------------------------
(***************************************************************************)
(* Input of 10_day: the keyboard controller, which holds one byte at a time *)
(* and asks for an interrupt, the interrupt handlers, the two ring buffers, *)
(* the main loop, which halts the processor when both are empty, and the    *)
(* decoder that puts mouse packets together.                                *)
(*                                                                          *)
(* Of a mouse byte only matters which byte of a packet it is, which the     *)
(* decoder does not see, and whether it passes the test for a first one.    *)
(* What a packet does to the pointer is in Sheet (MoveMouse).               *)
(***************************************************************************)
EXTENDS Integers, Sequences

CONSTANTS
    KEY_SIZE,       \* 32
    MOUSE_SIZE,     \* 128
    Codes           \* what the keyboard sends

ASSUME InputAssumption == KEY_SIZE \in Nat \ {0} /\ MOUSE_SIZE \in Nat \ {0}

VARIABLES
    keyfifo, mousefifo,     \* struct FIFO8
    pc,                     \* where HariMain is
    intr,                   \* the interrupt flag of the processor
    phase,                  \* of mdec
    port,                   \* the byte at PORT_KEYDAT, if any
    next                    \* the byte of a packet that the mouse sends next

vars == <<keyfifo, mousefifo, pc, intr, phase, port, next>>

\* 0 is the answer 0xfa to enable_mouse.  The test is (dat & 0xc8) == 0x08: the
\* first byte fails it when a movement was too large, and others may pass.
Bytes == [part : {0}, first : {FALSE}] \cup [part : 1 .. 3, first : BOOLEAN]

NOTHING == [dev |-> "none"]

-----------------------------------------------------------------------------
(* fifo.c *)

Fifo8Init(size, byte) ==
    [size |-> size, buf |-> [k \in 0 .. (size - 1) |-> byte],
     free |-> size, p |-> 0, q |-> 0, overrun |-> FALSE]

Wrapped(k, size) == IF k + 1 = size THEN 0 ELSE k + 1

\* mutant: the last place is never used
Fifo8PutEarly(f, data) ==
    IF f.free <= 1 THEN [f EXCEPT !.overrun = TRUE]
    ELSE [f EXCEPT !.buf[f.p] = data, !.p = Wrapped(@, f.size), !.free = @ - 1]

\* mutant: free is not looked at
Fifo8PutOver(f, data) ==
    [f EXCEPT !.buf[f.p] = data, !.p = Wrapped(@, f.size), !.free = @ - 1]

Fifo8Put(f, data) ==
    IF f.free = 0 THEN [f EXCEPT !.overrun = TRUE]
    ELSE [f EXCEPT !.buf[f.p] = data, !.p = Wrapped(@, f.size), !.free = @ - 1]

Fifo8Status(f) == f.size - f.free
Fifo8Front(f) == f.buf[f.q]
Fifo8Get(f) == [f EXCEPT !.q = Wrapped(@, f.size), !.free = @ + 1]

-----------------------------------------------------------------------------
(* The devices *)

Press(c) ==
    /\ port = NOTHING
    /\ port' = [dev |-> "keyboard", data |-> c]
    /\ UNCHANGED <<keyfifo, mousefifo, pc, intr, phase, next>>

Move(byte) ==
    /\ port = NOTHING
    /\ byte.part = next
    /\ port' = [dev |-> "mouse", data |-> byte]
    /\ next' = IF next = 3 THEN 1 ELSE next + 1
    /\ UNCHANGED <<keyfifo, mousefifo, pc, intr, phase>>

-----------------------------------------------------------------------------
(* Interrupts: a halted processor goes on behind the halt *)

Interrupt(dev) ==
    /\ intr /\ port.dev = dev
    /\ port' = NOTHING
    /\ pc' = IF pc = "halted" THEN "loop" ELSE pc

Inthandler21 ==
    /\ Interrupt("keyboard")
    /\ keyfifo' = Fifo8Put(keyfifo, port.data)
    /\ UNCHANGED <<mousefifo, intr, phase, next>>

Inthandler2c ==
    /\ Interrupt("mouse")
    /\ mousefifo' = Fifo8Put(mousefifo, port.data)
    /\ UNCHANGED <<keyfifo, intr, phase, next>>

-----------------------------------------------------------------------------
(* HariMain *)

\* mutant: interrupts stay on
CliForgotten ==
    /\ pc = "loop" /\ pc' = "test"
    /\ UNCHANGED <<keyfifo, mousefifo, intr, phase, port, next>>

Cli ==
    /\ pc = "loop" /\ pc' = "test"
    /\ intr' = FALSE
    /\ UNCHANGED <<keyfifo, mousefifo, phase, port, next>>

NothingWaits ==
    /\ pc = "test" /\ pc' = "stihlt"
    /\ Fifo8Status(keyfifo) + Fifo8Status(mousefifo) = 0
    /\ UNCHANGED <<keyfifo, mousefifo, intr, phase, port, next>>

\* No interrupt comes between sti and hlt.
Stihlt ==
    /\ pc = "stihlt" /\ pc' = "halted"
    /\ intr' = TRUE
    /\ UNCHANGED <<keyfifo, mousefifo, phase, port, next>>

TakeKey ==
    /\ pc = "test" /\ pc' = "loop"
    /\ Fifo8Status(keyfifo) # 0
    /\ keyfifo' = Fifo8Get(keyfifo)
    /\ intr' = TRUE
    /\ UNCHANGED <<mousefifo, phase, port, next>>

\* mutant: any byte is taken for the first of a packet
MouseDecodeAny(byte) ==
    phase' = CASE phase = 0 -> IF byte.part = 0 THEN 1 ELSE 0
               [] phase = 1 -> 2
               [] phase = 2 -> 3
               [] phase = 3 -> 1

\* mutant: after a packet, the answer of the mouse is waited for again
MouseDecodeRestart(byte) ==
    phase' = CASE phase = 0 -> IF byte.part = 0 THEN 1 ELSE 0
               [] phase = 1 -> IF byte.first THEN 2 ELSE 1
               [] phase = 2 -> 3
               [] phase = 3 -> 0

MouseDecode(byte) ==
    phase' = CASE phase = 0 -> IF byte.part = 0 THEN 1 ELSE 0
               [] phase = 1 -> IF byte.first THEN 2 ELSE 1
               [] phase = 2 -> 3
               [] phase = 3 -> 1

\* Keys come first.
TakeMouse ==
    /\ pc = "test" /\ pc' = "loop"
    /\ Fifo8Status(keyfifo) = 0 /\ Fifo8Status(mousefifo) # 0
    /\ mousefifo' = Fifo8Get(mousefifo)
    /\ intr' = TRUE
    /\ MouseDecode(Fifo8Front(mousefifo))
    /\ UNCHANGED <<keyfifo, port, next>>

-----------------------------------------------------------------------------

\* The loop begins; what came earlier may come now.
Init ==
    /\ \E c \in Codes : keyfifo = Fifo8Init(KEY_SIZE, c)
    /\ mousefifo = Fifo8Init(MOUSE_SIZE, [part |-> 0, first |-> FALSE])
    /\ pc = "loop" /\ intr = TRUE
    /\ phase = 0
    /\ port = NOTHING /\ next = 0

HariMain == Cli \/ NothingWaits \/ Stihlt \/ TakeKey \/ TakeMouse

Handlers == Inthandler21 \/ Inthandler2c

Next == HariMain \/ Handlers \/ (\E c \in Codes : Press(c)) \/ (\E b \in Bytes : Move(b))

\* The processor goes on, and takes interrupts between any two instructions while
\* they are on; nobody need use keyboard or mouse.
Spec == Init /\ [][Next]_vars /\ WF_vars(HariMain) /\ SF_vars(Inthandler21) /\ SF_vars(Inthandler2c)

-----------------------------------------------------------------------------
(* Properties *)

Rings(size, data) ==
    [size : {size}, buf : [0 .. (size - 1) -> data], free : 0 .. size,
     p : 0 .. (size - 1), q : 0 .. (size - 1), overrun : BOOLEAN]

\* The variables keep their types; the indices of the rings stay inside.
TypeOK ==
    /\ keyfifo \in Rings(KEY_SIZE, Codes)
    /\ mousefifo \in Rings(MOUSE_SIZE, Bytes)
    /\ pc \in {"loop", "test", "stihlt", "halted"}
    /\ intr \in BOOLEAN
    /\ phase \in 0 .. 3
    /\ port \in {NOTHING} \cup [dev : {"keyboard"}, data : Codes] \cup [dev : {"mouse"}, data : Bytes]
    /\ next \in 0 .. 3

Place(f, k) == IF f.q + k < f.size THEN f.q + k ELSE f.q + k - f.size

Waiting(f) == [k \in 1 .. Fifo8Status(f) |-> f.buf[Place(f, k - 1)]]

\* Each ring buffer does what a queue does, for all that its indices wrap and
\* interrupts put into it between any two steps of the loop.
Keys == INSTANCE BoundedQueue WITH
    Item <- Codes, Size <- KEY_SIZE, items <- Waiting(keyfifo), overrun <- keyfifo.overrun
Mouse == INSTANCE BoundedQueue WITH
    Item <- Bytes, Size <- MOUSE_SIZE, items <- Waiting(mousefifo), overrun <- mousefifo.overrun

QueueSpec == Keys!Spec /\ Mouse!Spec

\* The processor never halts on input that is there: both buffers are empty, and
\* a byte at the port finds interrupts on.
AwakeOnInput ==
    pc = "halted" => Fifo8Status(keyfifo) + Fifo8Status(mousefifo) = 0 /\ intr

\* The parts of the mouse bytes on their way to the decoder.
Stream ==
    LET there == IF port.dev = "mouse" THEN Append(Waiting(mousefifo), port.data)
                 ELSE Waiting(mousefifo)
    IN  [k \in 1 .. Len(there) |-> there[k].part] \o <<next>>

\* The decoder waits for the byte that comes next, and the others follow in order.
InStep ==
    /\ Stream[1] = phase
    /\ \A k \in 1 .. (Len(Stream) - 1) :
          Stream[k + 1] = IF Stream[k] = 3 THEN 1 ELSE Stream[k] + 1

Refuses ==
    LET byte == Fifo8Front(mousefifo) IN TakeMouse /\ byte.part = 1 /\ ~byte.first

Drops == Inthandler2c /\ mousefifo.free = 0

\* Packets are put together from their own three bytes, until the buffer is full or
\* the mouse says that a movement was too large.
PacketsKept == [][InStep /\ ~Drops /\ ~Refuses => InStep']_vars

\* After a byte was lost or refused the decoder finds the beginning of a packet
\* again, if no more are lost and only first bytes pass the test.
Resync ==
    /\ []<><<TakeMouse>>_vars
    /\ <>[][~Drops]_vars
    /\ <>[](port.dev = "mouse" => (port.data.first <=> port.data.part = 1))
    => <>[]InStep

\* Keys that wait are taken, and mouse bytes once no more keys come; the last byte
\* too, after which there is no interrupt.
Served ==
    /\ []<>(Fifo8Status(keyfifo) = 0) \/ []<><<TakeKey>>_vars
    /\ <>[](Fifo8Status(keyfifo) = 0) =>
          []<>(Fifo8Status(mousefifo) = 0) \/ []<><<TakeMouse>>_vars
=============================================================================
