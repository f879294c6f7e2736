------------------------------- MODULE KeyCmd -------------------------------
(***************************************************************************)
(* The lamps of the keyboard in harib27f: HariMain queues commands of two   *)
(* bytes, sends one byte at a time, waits for the answer, which comes as an *)
(* event like any key, and sends a byte again that the keyboard refuses.    *)
(***************************************************************************)
EXTENDS Integers, Sequences, FiniteSets, SequencesExt

CONSTANTS
    KEYCMD_SIZE,    \* 32
    FIFO_SIZE,      \* 128
    Locks           \* CapsLock, NumLock and ScrollLock

ASSUME KeyCmdAssumption == KEYCMD_SIZE \in Nat /\ KEYCMD_SIZE >= 2 /\ FIFO_SIZE \in Nat \ {0}

VARIABLES
    key_leds,       \* the locks that are on
    keycmd,         \* FIFO of what is to be sent
    keycmd_wait,    \* the byte that has no answer yet
    fifo,           \* task_a's FIFO
    pc,             \* where HariMain is
    wire,           \* a byte on its way to the keyboard
    port,           \* a byte from keyboard or mouse, not yet taken by an interrupt
    keyboard        \* its lamps, and whether it waits for the second byte of a command

hariMain == <<key_leds, keycmd, keycmd_wait, pc>>
vars == <<hariMain, fifo, wire, port, keyboard>>

\* Bytes and events, tuples that are told apart by what comes first.
NONE == <<>>
KEYCMD_LED == <<"led">>         \* 0xed
Lamps(locks) == <<"lamps", locks>>
ACK == <<"ack">>                \* 0xfa
RESEND == <<"resend">>          \* 0xfe
OTHER_EVENT == <<"other">>      \* other keys, their releases, and the mouse
Key(k) == <<"lock", k>>

Cmds == {KEYCMD_LED} \cup {Lamps(l) : l \in SUBSET Locks}
Events == {ACK, RESEND, OTHER_EVENT} \cup {Key(k) : k \in Locks}

Empty == [q |-> <<>>, overrun |-> FALSE]

\* fifo32_put
Put(f, size, data) ==
    IF Len(f.q) = size THEN [f EXCEPT !.overrun = TRUE] ELSE [f EXCEPT !.q = Append(@, data)]

Get(f) == [f EXCEPT !.q = Tail(@)]

-----------------------------------------------------------------------------
(* HariMain *)

\* wait_KBC_sendready, and the byte to the keyboard.
Out(data) == wire = NONE /\ wire' = data

\* mutant: the answer to the last byte is not waited for
SendAtOnce ==
    /\ pc = "top" /\ pc' = "test"
    /\ keycmd.q # <<>>
    /\ keycmd' = Get(keycmd) /\ keycmd_wait' = Head(keycmd.q)
    /\ Out(Head(keycmd.q))
    /\ UNCHANGED <<key_leds, fifo, port, keyboard>>

Send ==
    /\ pc = "top" /\ pc' = "test"
    /\ keycmd.q # <<>> /\ keycmd_wait = NONE
    /\ keycmd' = Get(keycmd) /\ keycmd_wait' = Head(keycmd.q)
    /\ Out(Head(keycmd.q))
    /\ UNCHANGED <<key_leds, fifo, port, keyboard>>

NothingToSend ==
    /\ pc = "top" /\ pc' = "test"
    /\ keycmd.q = <<>> \/ keycmd_wait # NONE
    /\ UNCHANGED <<key_leds, keycmd, keycmd_wait, fifo, wire, port, keyboard>>

Sleep ==
    /\ pc = "test" /\ pc' = "asleep"
    /\ fifo.q = <<>>
    /\ UNCHANGED <<key_leds, keycmd, keycmd_wait, fifo, wire, port, keyboard>>

Takes(event) ==
    /\ pc = "test" /\ pc' = "top"
    /\ fifo.q # <<>> /\ Head(fifo.q) = event
    /\ fifo' = Get(fifo)
    /\ UNCHANGED <<port, keyboard>>

\* mutant: the command goes out without its second byte
LockHalf(k) ==
    /\ Takes(Key(k))
    /\ key_leds' = SymDiff(key_leds, {k})
    /\ keycmd' = Put(keycmd, KEYCMD_SIZE, KEYCMD_LED)
    /\ UNCHANGED <<keycmd_wait, wire>>

Lock(k) ==
    /\ Takes(Key(k))
    /\ key_leds' = SymDiff(key_leds, {k})
    /\ keycmd' = Put(Put(keycmd, KEYCMD_SIZE, KEYCMD_LED), KEYCMD_SIZE, Lamps(key_leds'))
    /\ UNCHANGED <<keycmd_wait, wire>>

Accepted ==
    /\ Takes(ACK)
    /\ keycmd_wait' = NONE
    /\ UNCHANGED <<key_leds, keycmd, wire>>

\* mutant: what is refused is dropped
RefusedDropped ==
    /\ Takes(RESEND)
    /\ keycmd_wait' = NONE
    /\ UNCHANGED <<key_leds, keycmd, wire>>

Refused ==
    /\ Takes(RESEND)
    /\ Out(keycmd_wait)
    /\ UNCHANGED <<key_leds, keycmd, keycmd_wait>>

TakeOther == Takes(OTHER_EVENT) /\ UNCHANGED <<key_leds, keycmd, keycmd_wait, wire>>

\* mutant: the FIFO takes one more
InterruptLate ==
    /\ port # NONE /\ port' = NONE
    /\ fifo' = Put(fifo, FIFO_SIZE + 1, port)
    /\ pc' = IF pc = "asleep" THEN "top" ELSE pc
    /\ UNCHANGED <<key_leds, keycmd, keycmd_wait, wire, keyboard>>

\* inthandler21 and inthandler2c.
Interrupt ==
    /\ port # NONE /\ port' = NONE
    /\ fifo' = Put(fifo, FIFO_SIZE, port)
    /\ pc' = IF pc = "asleep" THEN "top" ELSE pc
    /\ UNCHANGED <<key_leds, keycmd, keycmd_wait, wire, keyboard>>

-----------------------------------------------------------------------------
(* The devices *)

Arrives(event) == port = NONE /\ port' = event

Press(k) == Arrives(Key(k)) /\ UNCHANGED <<hariMain, fifo, wire, keyboard>>

OtherInput == Arrives(OTHER_EVENT) /\ UNCHANGED <<hariMain, fifo, wire, keyboard>>

\* A command, or its second byte; a second command takes the place of the first.
Accept ==
    /\ wire # NONE /\ wire' = NONE
    /\ wire = KEYCMD_LED \/ keyboard.second
    /\ Arrives(ACK)
    /\ keyboard' = IF wire = KEYCMD_LED THEN [keyboard EXCEPT !.second = TRUE]
                   ELSE [leds |-> wire[2], second |-> FALSE]
    /\ UNCHANGED <<hariMain, fifo>>

\* What makes no sense, or was not received.
Refuse ==
    /\ wire # NONE /\ wire' = NONE
    /\ Arrives(RESEND)
    /\ UNCHANGED <<hariMain, fifo, keyboard>>

-----------------------------------------------------------------------------

Init ==
    /\ key_leds \in SUBSET Locks
    /\ keycmd = [q |-> <<KEYCMD_LED, Lamps(key_leds)>>, overrun |-> FALSE]
    /\ keycmd_wait = NONE
    /\ fifo = Empty
    /\ pc = "top"
    /\ wire = NONE /\ port = NONE
    /\ keyboard \in [leds : SUBSET Locks, second : {FALSE}]

HariMain ==
    \/ Send \/ NothingToSend \/ Sleep
    \/ Accepted \/ Refused \/ TakeOther \/ \E k \in Locks : Lock(k)

Next ==
    \/ HariMain \/ Interrupt
    \/ Accept \/ Refuse \/ OtherInput \/ \E k \in Locks : Press(k)

Spec == Init /\ [][Next]_vars

\* HariMain and the interrupts go on, and a keyboard that is asked again and again
\* accepts in the end.
FairSpec == Spec /\ WF_vars(HariMain) /\ WF_vars(Interrupt) /\ SF_vars(Accept)

-----------------------------------------------------------------------------
(* Properties *)

\* The variables keep their types, and no FIFO holds more than it has room for.
TypeOK ==
    /\ key_leds \in SUBSET Locks
    /\ keycmd.q \in BoundedSeq(Cmds, KEYCMD_SIZE) /\ keycmd.overrun \in BOOLEAN
    /\ keycmd_wait \in Cmds \cup {NONE}
    /\ fifo.q \in BoundedSeq(Events, FIFO_SIZE) /\ fifo.overrun \in BOOLEAN
    /\ pc \in {"top", "test", "asleep"}
    /\ wire \in Cmds \cup {NONE}
    /\ port \in Events \cup {NONE}
    /\ keyboard \in [leds : SUBSET Locks, second : BOOLEAN]

Answers == {ACK, RESEND}
AnswersComing ==
    Cardinality({k \in DOMAIN fifo.q : fifo.q[k] \in Answers}) + (IF port \in Answers THEN 1 ELSE 0)

\* While a byte has no answer, it is on the wire or one answer is coming, and
\* otherwise neither is, until task_a's FIFO overruns: HariMain never waits in
\* vain, and takes no answer for that to another byte.
OneOutstanding ==
    ~fifo.overrun =>
        AnswersComing + (IF wire # NONE THEN 1 ELSE 0) = (IF keycmd_wait # NONE THEN 1 ELSE 0)

\* What the keyboard will get, first byte first.
Upcoming ==
    (IF wire # NONE THEN <<wire>>
     ELSE IF port = RESEND \/ RESEND \in ToSet(fifo.q) THEN <<keycmd_wait>>
     ELSE <<>>) \o keycmd.q

\* Until something overruns, the keyboard gets the second byte after each first
\* one, whatever it refuses and whatever is pressed in between, and ends up with the lamps
\* that key_leds names.
InPairs ==
    ~fifo.overrun /\ ~keycmd.overrun =>
        LET all == (IF keyboard.second THEN <<KEYCMD_LED>> ELSE <<>>) \o Upcoming IN
        /\ Len(all) % 2 = 0
        /\ \A k \in DOMAIN all : all[k] = KEYCMD_LED <=> k % 2 = 1
        /\ LET last == IF all = <<>> THEN keyboard.leds ELSE Last(all)[2] IN last = key_leds

\* The lamps come to show the locks, once no lock is pressed any more.
LedsFollow ==
    <>[](~fifo.overrun /\ ~keycmd.overrun) /\ <>[][~\E k \in Locks : Lock(k)]_vars
        => <>[](keyboard.leds = key_leds)
=============================================================================
