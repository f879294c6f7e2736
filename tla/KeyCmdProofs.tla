---------------------------- MODULE KeyCmdProofs ----------------------------
(***************************************************************************)
(* Theorems about KeyCmd, for FIFOs of any size and any locks: HariMain     *)
(* never takes an answer for that to another byte (OneOutstanding), and the *)
(* keyboard gets commands in pairs that end with the right lamps (InPairs). *)
(***************************************************************************)
EXTENDS KeyCmd, FiniteSetTheorems, SequenceTheorems, TLAPS

-----------------------------------------------------------------------------
(* The inductive invariant *)

Types ==
    /\ key_leds \in SUBSET Locks
    /\ keycmd \in [q : Seq(Cmds), overrun : BOOLEAN] /\ Len(keycmd.q) <= KEYCMD_SIZE
    /\ keycmd_wait \in Cmds \cup {NONE}
    /\ fifo \in [q : Seq(Events), overrun : BOOLEAN] /\ Len(fifo.q) <= FIFO_SIZE
    /\ pc \in {"top", "test", "asleep"}
    /\ wire \in Cmds \cup {NONE}
    /\ port \in Events \cup {NONE}
    /\ keyboard \in [leds : SUBSET Locks, second : BOOLEAN]

NoAnswer(q) == \A k \in DOMAIN q : q[k] \notin Answers
OneAnswer(q) == \E k \in DOMAIN q : q[k] \in Answers /\ \A j \in DOMAIN q : q[j] \in Answers => j = k

\* A byte that waits for its answer is on the wire, or its answer is at the port or in
\* the FIFO.
Idle == keycmd_wait = NONE /\ wire = NONE /\ port \notin Answers /\ NoAnswer(fifo.q)
OnWire == keycmd_wait # NONE /\ wire = keycmd_wait /\ port \notin Answers /\ NoAnswer(fifo.q)
AtPort == keycmd_wait # NONE /\ wire = NONE /\ port \in Answers /\ NoAnswer(fifo.q)
InFifo == keycmd_wait # NONE /\ wire = NONE /\ port \notin Answers /\ OneAnswer(fifo.q)

Turn == Idle \/ OnWire \/ AtPort \/ InFifo

\* The byte that waits will be sent, or sent again.
Coming == wire # NONE \/ port = RESEND \/ RESEND \in ToSet(fifo.q)

\* How many bytes of commands that have begun are not in keycmd: the first, which the
\* keyboard has, and the one that is coming.
Begun == (IF keyboard.second THEN 1 ELSE 0) + (IF Coming THEN 1 ELSE 0)

\* InPairs, said of keycmd alone.
Paired ==
    /\ Coming => keycmd_wait # NONE /\ (keycmd_wait = KEYCMD_LED <=> ~keyboard.second)
    /\ (Begun + Len(keycmd.q)) % 2 = 0
    /\ \A k \in DOMAIN keycmd.q : keycmd.q[k] = KEYCMD_LED <=> (Begun + k) % 2 = 1
    /\ key_leds = IF keycmd.q # <<>> THEN Last(keycmd.q)[2]
                  ELSE IF Coming THEN keycmd_wait[2] ELSE keyboard.leds

IInv ==
    /\ Types
    /\ ~fifo.overrun => Turn
    /\ ~fifo.overrun /\ ~keycmd.overrun => Paired

-----------------------------------------------------------------------------
(* Bytes, events and FIFOs *)

LEMMA Sizes ==
    KEYCMD_SIZE \in Nat /\ KEYCMD_SIZE >= 2 /\ FIFO_SIZE \in Nat /\ FIFO_SIZE >= 1
BY KeyCmdAssumption

\* Bytes are told apart by their first part.
LEMMA Bytes ==
    /\ KEYCMD_LED \in Cmds /\ KEYCMD_LED # NONE
    /\ \A l \in SUBSET Locks : Lamps(l) \in Cmds /\ Lamps(l) # NONE
                               /\ Lamps(l) # KEYCMD_LED /\ Lamps(l)[2] = l
    /\ \A c \in Cmds : c # NONE /\ (c # KEYCMD_LED => c[2] \in SUBSET Locks /\ c = Lamps(c[2]))
<1>1. Len(NONE) = 0 /\ Len(KEYCMD_LED) = 1 BY DEF NONE, KEYCMD_LED
<1>2. \A l : Len(Lamps(l)) = 2 /\ Lamps(l)[2] = l BY DEF Lamps
<1>3. \A c \in Cmds : c = KEYCMD_LED \/ \E l \in SUBSET Locks : c = Lamps(l) BY DEF Cmds
<1>4. KEYCMD_LED \in Cmds /\ \A l \in SUBSET Locks : Lamps(l) \in Cmds BY DEF Cmds
<1>5. \A l : Lamps(l) # NONE /\ Lamps(l) # KEYCMD_LED BY <1>1, <1>2
<1>6. KEYCMD_LED # NONE BY <1>1
<1> QED BY <1>2, <1>3, <1>4, <1>5, <1>6

LEMMA EventKinds ==
    /\ ACK \in Events /\ RESEND \in Events /\ OTHER_EVENT \in Events
    /\ \A k \in Locks : Key(k) \in Events /\ Key(k) \notin Answers
    /\ Answers = {ACK, RESEND} /\ ACK # RESEND
    /\ OTHER_EVENT \notin Answers /\ NONE \notin Answers
<1>1. Len(NONE) = 0 /\ Len(ACK) = 1 /\ Len(RESEND) = 1 BY DEF NONE, ACK, RESEND
<1>2. \A k : Len(Key(k)) = 2 BY DEF Key
<1>3. ACK[1] = "ack" /\ RESEND[1] = "resend" /\ OTHER_EVENT[1] = "other"
  BY DEF ACK, RESEND, OTHER_EVENT
<1>4. ACK # RESEND /\ OTHER_EVENT # ACK /\ OTHER_EVENT # RESEND BY <1>3
<1>5. NONE # ACK /\ NONE # RESEND BY <1>1
<1>6. \A k : Key(k) # ACK /\ Key(k) # RESEND BY <1>1, <1>2
<1> QED BY <1>4, <1>5, <1>6 DEF Answers, Events

LEMMA Parity ==
    /\ \A n \in Nat : n % 2 \in {0, 1} /\ ((1 + n) % 2 = 1 <=> n % 2 = 0)
    /\ \A n \in Nat : (2 + n) % 2 = n % 2 /\ (0 + n) % 2 = n % 2
    /\ 0 % 2 = 0 /\ 1 % 2 = 1 /\ 2 % 2 = 0
OBVIOUS

LEMMA Shifted == \A n, l \in Nat : (1 + n) + (l - 1) = n + l
OBVIOUS

\* fifo32_put drops and remembers it, or appends.
Fits(f, S, n) == f \in [q : Seq(S), overrun : BOOLEAN] /\ Len(f.q) <= n
Result(f, g, x) == ~g.overrun => ~f.overrun /\ g.q = Append(f.q, x)

LEMMA PutResult ==
    ASSUME NEW S, NEW f, NEW n \in Nat, Fits(f, S, n), NEW x \in S
    PROVE  Fits(Put(f, n, x), S, n) /\ Result(f, Put(f, n, x), x)
<1>1. f.q \in Seq(S) /\ f.overrun \in BOOLEAN /\ Len(f.q) <= n
      /\ f \in [q : Seq(S), overrun : BOOLEAN]
  BY DEF Fits
<1>2. Append(f.q, x) \in Seq(S) /\ Len(Append(f.q, x)) = Len(f.q) + 1 BY <1>1
<1>3. CASE Len(f.q) = n BY <1>1, <1>3 DEF Put, Fits, Result
<1>4. CASE Len(f.q) # n
  <2>1. Put(f, n, x) = [f EXCEPT !.q = Append(f.q, x)] BY <1>4 DEF Put
  <2>2. Put(f, n, x).q = Append(f.q, x) /\ Put(f, n, x).overrun = f.overrun BY <1>1, <2>1
  <2>3. Len(f.q) < n BY <1>1, <1>4
  <2>4. Len(Put(f, n, x).q) <= n BY <1>1, <1>2, <2>2, <2>3
  <2>5. Put(f, n, x) \in [q : Seq(S), overrun : BOOLEAN] BY <1>1, <1>2, <2>1
  <2>6. Result(f, Put(f, n, x), x) BY <2>2 DEF Result
  <2> QED BY <2>4, <2>5, <2>6 DEF Fits
<1> QED BY <1>3, <1>4

LEMMA GetResult ==
    ASSUME NEW S, NEW f \in [q : Seq(S), overrun : BOOLEAN], f.q # <<>>
    PROVE  /\ Get(f) \in [q : Seq(S), overrun : BOOLEAN]
           /\ Get(f).q = Tail(f.q) /\ Get(f).overrun = f.overrun
           /\ Len(Get(f).q) = Len(f.q) - 1
           /\ Head(f.q) \in S /\ Head(f.q) = f.q[1]
           /\ \A k \in DOMAIN Tail(f.q) : Tail(f.q)[k] = f.q[k + 1] /\ k + 1 \in DOMAIN f.q
<1>1. f.q \in Seq(S) OBVIOUS
<1>2. Tail(f.q) \in Seq(S) /\ Len(Tail(f.q)) = Len(f.q) - 1 /\ Head(f.q) \in S /\ Head(f.q) = f.q[1]
      /\ \A k \in DOMAIN Tail(f.q) : Tail(f.q)[k] = f.q[k + 1] /\ k + 1 \in DOMAIN f.q
  BY <1>1
<1>3. Get(f) = [f EXCEPT !.q = Tail(f.q)] BY DEF Get
<1>4. Get(f).q = Tail(f.q) /\ Get(f).overrun = f.overrun BY <1>3
<1> QED BY <1>2, <1>3, <1>4

\* An event that is put at the end or taken from the front, and the answers in the FIFO.
LEMMA AnswerAppended ==
    ASSUME NEW q \in Seq(Events), NEW x \in Events, NoAnswer(q)
    PROVE  /\ x \notin Answers => NoAnswer(Append(q, x))
           /\ x \in Answers => OneAnswer(Append(q, x))
           /\ RESEND \in ToSet(Append(q, x)) <=> x = RESEND
<1>1. /\ DOMAIN q = 1 .. Len(q) /\ DOMAIN Append(q, x) = 1 .. (Len(q) + 1) /\ Len(q) \in Nat
      /\ \A k \in 1 .. Len(q) : Append(q, x)[k] = q[k]
      /\ Append(q, x)[Len(q) + 1] = x
  OBVIOUS
<1>2. \A k \in 1 .. (Len(q) + 1) : Append(q, x)[k] \in Answers => k = Len(q) + 1
  BY <1>1 DEF NoAnswer
<1>3. x \notin Answers => NoAnswer(Append(q, x)) BY <1>1, <1>2 DEF NoAnswer
<1>4. x \in Answers => OneAnswer(Append(q, x)) BY <1>1, <1>2 DEF OneAnswer
<1>5. RESEND \in ToSet(Append(q, x)) <=> x = RESEND BY <1>1, <1>2, EventKinds DEF ToSet
<1> QED BY <1>3, <1>4, <1>5

LEMMA OtherAppended ==
    ASSUME NEW q \in Seq(Events), NEW x \in Events, x \notin Answers
    PROVE  /\ OneAnswer(q) => OneAnswer(Append(q, x))
           /\ RESEND \in ToSet(Append(q, x)) <=> RESEND \in ToSet(q)
<1>1. /\ DOMAIN q = 1 .. Len(q) /\ DOMAIN Append(q, x) = 1 .. (Len(q) + 1) /\ Len(q) \in Nat
      /\ \A k \in 1 .. Len(q) : Append(q, x)[k] = q[k]
      /\ Append(q, x)[Len(q) + 1] = x
  OBVIOUS
<1>2. ASSUME OneAnswer(q) PROVE OneAnswer(Append(q, x))
  <2>1. PICK k \in 1 .. Len(q) : q[k] \in Answers /\ \A j \in 1 .. Len(q) : q[j] \in Answers => j = k
    BY <1>1, <1>2 DEF OneAnswer
  <2>2. k \in DOMAIN Append(q, x) /\ Append(q, x)[k] \in Answers BY <1>1, <2>1
  <2>3. ASSUME NEW j \in 1 .. (Len(q) + 1), Append(q, x)[j] \in Answers PROVE j = k
    <3>1. j # Len(q) + 1 BY <1>1, <2>3
    <3>2. j \in 1 .. Len(q) BY <1>1, <3>1
    <3> QED BY <1>1, <2>1, <2>3, <3>2
  <2> QED BY <1>1, <2>2, <2>3 DEF OneAnswer
<1>3. x # RESEND BY EventKinds
<1>4. RESEND \in ToSet(Append(q, x)) <=> RESEND \in ToSet(q) BY <1>1, <1>3 DEF ToSet
<1> QED BY <1>2, <1>4

LEMMA EventTaken ==
    ASSUME NEW q \in Seq(Events), q # <<>>
    PROVE  /\ NoAnswer(q) => NoAnswer(Tail(q)) /\ Head(q) \notin Answers /\ RESEND \notin ToSet(q)
           /\ NoAnswer(Tail(q)) => RESEND \notin ToSet(Tail(q))
           /\ OneAnswer(q) /\ Head(q) \in Answers =>
                 NoAnswer(Tail(q)) /\ (RESEND \in ToSet(q) <=> Head(q) = RESEND)
           /\ OneAnswer(q) /\ Head(q) \notin Answers =>
                 OneAnswer(Tail(q)) /\ (RESEND \in ToSet(q) <=> RESEND \in ToSet(Tail(q)))
<1>1. /\ DOMAIN q = 1 .. Len(q) /\ DOMAIN Tail(q) = 1 .. (Len(q) - 1) /\ Len(q) \in Nat /\ Len(q) >= 1
      /\ \A k \in 1 .. (Len(q) - 1) : Tail(q)[k] = q[k + 1]
      /\ Head(q) = q[1]
  OBVIOUS
<1>2. \A k \in 1 .. Len(q) : k = 1 \/ (k - 1 \in 1 .. (Len(q) - 1) /\ q[k] = Tail(q)[k - 1]) BY <1>1
<1>3. RESEND \in Answers BY EventKinds
<1>4. ASSUME NoAnswer(q) PROVE NoAnswer(Tail(q)) /\ Head(q) \notin Answers /\ RESEND \notin ToSet(q)
  BY <1>1, <1>3, <1>4 DEF NoAnswer, ToSet
<1>5. NoAnswer(Tail(q)) => RESEND \notin ToSet(Tail(q)) BY <1>1, <1>3 DEF NoAnswer, ToSet
<1>6. ASSUME OneAnswer(q), Head(q) \in Answers
      PROVE  NoAnswer(Tail(q)) /\ (RESEND \in ToSet(q) <=> Head(q) = RESEND)
  <2>1. \A j \in 1 .. Len(q) : q[j] \in Answers => j = 1 BY <1>1, <1>6 DEF OneAnswer
  <2>2. \A k \in 1 .. (Len(q) - 1) : k + 1 \in 1 .. Len(q) /\ k + 1 # 1 BY <1>1
  <2>3. NoAnswer(Tail(q)) BY <1>1, <2>1, <2>2 DEF NoAnswer
  <2>4. 1 \in 1 .. Len(q) BY <1>1
  <2>5. RESEND \in ToSet(q) <=> Head(q) = RESEND BY <1>1, <1>3, <2>1, <2>4 DEF ToSet
  <2> QED BY <2>3, <2>5
<1>7. ASSUME OneAnswer(q), Head(q) \notin Answers
      PROVE  OneAnswer(Tail(q)) /\ (RESEND \in ToSet(q) <=> RESEND \in ToSet(Tail(q)))
  <2>1. PICK k \in 1 .. Len(q) : q[k] \in Answers /\ \A j \in 1 .. Len(q) : q[j] \in Answers => j = k
    BY <1>1, <1>7 DEF OneAnswer
  <2>2. k # 1 BY <1>1, <1>7, <2>1
  <2>3. k - 1 \in 1 .. (Len(q) - 1) /\ Tail(q)[k - 1] \in Answers BY <1>2, <2>1, <2>2
  <2>4. ASSUME NEW j \in 1 .. (Len(q) - 1), Tail(q)[j] \in Answers PROVE j = k - 1
    <3>1. j + 1 \in 1 .. Len(q) /\ q[j + 1] \in Answers BY <1>1, <2>4
    <3>2. j + 1 = k BY <2>1, <3>1
    <3> QED BY <3>2
  <2>5. OneAnswer(Tail(q)) BY <1>1, <2>3, <2>4 DEF OneAnswer
  <2>6. Head(q) # RESEND BY <1>3, <1>7
  <2>7. \A k1 \in 1 .. (Len(q) - 1) : k1 + 1 \in 1 .. Len(q) BY <1>1
  <2>8. RESEND \in ToSet(q) <=> RESEND \in ToSet(Tail(q))
    <3>1. RESEND \in ToSet(q) <=> \E j \in 1 .. Len(q) : q[j] = RESEND BY <1>1 DEF ToSet
    <3>2. RESEND \in ToSet(Tail(q)) <=> \E j \in 1 .. (Len(q) - 1) : Tail(q)[j] = RESEND
      BY <1>1 DEF ToSet
    <3>3. \A j \in 1 .. Len(q) : q[j] = RESEND => j - 1 \in 1 .. (Len(q) - 1) /\ Tail(q)[j - 1] = RESEND
      BY <1>1, <1>2, <2>6
    <3>4. \A j \in 1 .. (Len(q) - 1) : Tail(q)[j] = RESEND => q[j + 1] = RESEND BY <1>1
    <3> QED BY <2>7, <3>1, <3>2, <3>3, <3>4
  <2> QED BY <2>5, <2>8
<1> QED BY <1>4, <1>5, <1>6, <1>7

-----------------------------------------------------------------------------
(* IInv and the properties of KeyCmd *)

LEMMA Initially ==
    ASSUME Init PROVE IInv
<1>1. key_leds \in SUBSET Locks /\ keycmd_wait = NONE /\ wire = NONE /\ port = NONE /\ pc = "top"
      /\ keycmd = [q |-> <<KEYCMD_LED, Lamps(key_leds)>>, overrun |-> FALSE]
      /\ fifo = [q |-> <<>>, overrun |-> FALSE]
      /\ keyboard \in [leds : SUBSET Locks, second : {FALSE}]
  BY DEF Init, Empty
<1>2. <<KEYCMD_LED, Lamps(key_leds)>> \in Seq(Cmds) BY <1>1, Bytes
<1>3. <<>> \in Seq(Events) /\ Len(<<>>) = 0 OBVIOUS
<1>4. keycmd.q = <<KEYCMD_LED, Lamps(key_leds)>> /\ Len(keycmd.q) = 2 BY <1>1
<1>5. fifo.q = <<>> BY <1>1
<1>6. Types
  <2>1. keycmd \in [q : Seq(Cmds), overrun : BOOLEAN] BY <1>1, <1>2
  <2>2. fifo \in [q : Seq(Events), overrun : BOOLEAN] BY <1>1, <1>3
  <2>3. keyboard \in [leds : SUBSET Locks, second : BOOLEAN] BY <1>1
  <2>4. Len(keycmd.q) <= KEYCMD_SIZE /\ Len(fifo.q) <= FIFO_SIZE BY <1>3, <1>4, <1>5, Sizes
  <2> QED BY <1>1, <2>1, <2>2, <2>3, <2>4 DEF Types
<1>7. Turn BY <1>1, <1>5, EventKinds DEF Turn, Idle, NoAnswer
<1>8. Paired
  <2>1. ToSet(fifo.q) = {} BY <1>5 DEF ToSet
  <2>2. NONE # RESEND BY EventKinds
  <2>3. ~Coming
    <3>1. ~(wire # NONE) /\ port # RESEND /\ RESEND \notin ToSet(fifo.q) BY <1>1, <2>1, <2>2
    <3> QED BY <3>1 DEF Coming
  <2>4. Begun = 0
    <3>1. ~keyboard.second BY <1>1
    <3> QED BY <2>3, <3>1 DEF Begun
  <2>5. DOMAIN keycmd.q = {1, 2} /\ keycmd.q[1] = KEYCMD_LED /\ keycmd.q[2] = Lamps(key_leds)
    BY <1>4
  <2>6. keycmd.q # <<>> /\ Last(keycmd.q)[2] = key_leds BY <1>1, <1>4, <2>5, Bytes DEF Last
  <2>7. \A k \in DOMAIN keycmd.q : keycmd.q[k] = KEYCMD_LED <=> (0 + k) % 2 = 1
    BY <1>1, <2>5, Bytes, Parity
  <2> QED BY <1>4, <2>3, <2>4, <2>6, <2>7, Parity DEF Paired
<1> QED BY <1>6, <1>7, <1>8 DEF IInv

\* What a step leaves that changes neither commands nor lamps, nor what is coming.
LEMMA PairedStays ==
    ASSUME Paired, Coming' <=> Coming, UNCHANGED <<key_leds, keycmd, keycmd_wait, keyboard>>
    PROVE  Paired'
BY DEF Paired, Begun

\* An event that is not an answer arrives at the port, and an interrupt puts what is
\* there into the FIFO.
LEMMA ArrivesKeeps ==
    ASSUME IInv, NEW x \in Events, x \notin Answers, Arrives(x), UNCHANGED <<hariMain, fifo, wire, keyboard>>
    PROVE  IInv'
<1>1. port = NONE /\ port' = x /\ UNCHANGED <<key_leds, keycmd, keycmd_wait, pc, fifo, wire, keyboard>>
  BY DEF Arrives, hariMain
<1>2. Types' BY <1>1 DEF IInv, Types
<1>3. ASSUME ~fifo.overrun PROVE Turn'
  <2>1. NONE \notin Answers BY EventKinds
  <2>2. Idle => Idle' BY <1>1 DEF Idle
  <2>3. OnWire => OnWire' BY <1>1 DEF OnWire
  <2>4. InFifo => InFifo' BY <1>1 DEF InFifo
  <2>5. ~AtPort BY <1>1, <2>1 DEF AtPort
  <2> QED BY <1>3, <2>2, <2>3, <2>4, <2>5 DEF IInv, Turn
<1>4. x # RESEND /\ NONE # RESEND BY EventKinds
<1>5. Coming' <=> Coming BY <1>1, <1>4 DEF Coming
<1>6. ASSUME ~fifo.overrun, ~keycmd.overrun PROVE Paired' BY <1>1, <1>5, <1>6, PairedStays DEF IInv
<1> QED BY <1>1, <1>2, <1>3, <1>6 DEF IInv

LEMMA InterruptKeeps ==
    ASSUME IInv, Interrupt PROVE IInv'
<1>1. /\ port # NONE /\ port' = NONE /\ fifo' = Put(fifo, FIFO_SIZE, port)
      /\ pc' = IF pc = "asleep" THEN "top" ELSE pc
      /\ UNCHANGED <<key_leds, keycmd, keycmd_wait, wire, keyboard>>
  BY DEF Interrupt
<1>2. port \in Events /\ fifo \in [q : Seq(Events), overrun : BOOLEAN] /\ Len(fifo.q) <= FIFO_SIZE
  BY <1>1 DEF IInv, Types
<1>3. Fits(fifo', Events, FIFO_SIZE) /\ Result(fifo, fifo', port)
  <2>1. Fits(fifo, Events, FIFO_SIZE) /\ FIFO_SIZE \in Nat BY <1>2, Sizes DEF Fits
  <2> QED BY <1>1, <1>2, <2>1, PutResult
<1>4. Types' BY <1>1, <1>3 DEF IInv, Types, Fits
<1>5. SUFFICES ASSUME ~fifo'.overrun PROVE Turn' /\ (Coming' <=> Coming)
  <2>1. ASSUME ~fifo'.overrun, ~keycmd'.overrun PROVE Paired'
    BY <1>1, <1>3, <1>5, <2>1, PairedStays DEF IInv, Result
  <2> QED BY <1>4, <1>5, <2>1 DEF IInv
<1>6. fifo'.q = Append(fifo.q, port) /\ fifo.q \in Seq(Events) /\ Turn
  BY <1>2, <1>3, <1>5 DEF IInv, Result
<1>7. NONE \notin Answers /\ RESEND \in Answers /\ RESEND # NONE BY EventKinds
<1>8. NoAnswer(fifo.q) => RESEND \notin ToSet(fifo.q) BY <1>7 DEF NoAnswer, ToSet
<1>9. CASE port \notin Answers
  <2>1. Idle => Idle' BY <1>1, <1>2, <1>6, <1>7, <1>9, AnswerAppended DEF Idle
  <2>2. OnWire => OnWire' BY <1>1, <1>2, <1>6, <1>7, <1>9, AnswerAppended DEF OnWire
  <2>3. InFifo => InFifo' BY <1>1, <1>2, <1>6, <1>7, <1>9, OtherAppended DEF InFifo
  <2>4. ~AtPort BY <1>9 DEF AtPort
  <2>5. RESEND \in ToSet(fifo'.q) <=> RESEND \in ToSet(fifo.q) BY <1>2, <1>6, <1>9, OtherAppended
  <2>6. port # RESEND BY <1>7, <1>9
  <2>7. Coming' <=> Coming BY <1>1, <1>7, <2>5, <2>6 DEF Coming
  <2> QED BY <1>6, <2>1, <2>2, <2>3, <2>4, <2>7 DEF Turn
<1>10. CASE port \in Answers
  <2>1. AtPort BY <1>6, <1>10 DEF Turn, Idle, OnWire, InFifo
  <2>2. InFifo' BY <1>1, <1>2, <1>6, <1>7, <1>10, <2>1, AnswerAppended DEF AtPort, InFifo
  <2>3. RESEND \in ToSet(fifo'.q) <=> port = RESEND
    BY <1>2, <1>6, <2>1, AnswerAppended DEF AtPort
  <2>4. RESEND \notin ToSet(fifo.q) BY <1>8, <2>1 DEF AtPort
  <2>5. Coming' <=> Coming BY <1>1, <1>7, <2>1, <2>3, <2>4 DEF Coming, AtPort
  <2> QED BY <2>2, <2>5 DEF Turn
<1> QED BY <1>9, <1>10

-----------------------------------------------------------------------------
(* The keyboard *)

LEMMA AcceptKeeps ==
    ASSUME IInv, Accept PROVE IInv'
<1>1. /\ wire # NONE /\ wire' = NONE /\ port = NONE /\ port' = ACK
      /\ wire = KEYCMD_LED \/ keyboard.second
      /\ keyboard' = IF wire = KEYCMD_LED THEN [keyboard EXCEPT !.second = TRUE]
                     ELSE [leds |-> wire[2], second |-> FALSE]
      /\ UNCHANGED <<key_leds, keycmd, keycmd_wait, pc, fifo>>
  BY DEF Accept, Arrives, hariMain
<1>2. wire \in Cmds /\ keyboard \in [leds : SUBSET Locks, second : BOOLEAN]
  BY <1>1 DEF IInv, Types
<1>3. keyboard' \in [leds : SUBSET Locks, second : BOOLEAN] BY <1>1, <1>2, Bytes
<1>4. Types' BY <1>1, <1>3, EventKinds DEF IInv, Types
<1>5. ACK \in Answers /\ RESEND \in Answers /\ ACK # RESEND BY EventKinds
<1>6. SUFFICES ASSUME ~fifo.overrun PROVE Turn' /\ (~keycmd.overrun => Paired')
  BY <1>1, <1>4, <1>6 DEF IInv
<1>7. OnWire BY <1>1, <1>6 DEF IInv, Turn, Idle, AtPort, InFifo
<1>8. AtPort' BY <1>1, <1>5, <1>7 DEF OnWire, AtPort
<1>9. SUFFICES ASSUME ~keycmd.overrun PROVE Paired' BY <1>8 DEF Turn
<1>10. Coming BY <1>1 DEF Coming
<1>11. ~Coming'
  <2>1. RESEND \notin ToSet(fifo.q) BY <1>5, <1>7 DEF OnWire, NoAnswer, ToSet
  <2> QED BY <1>1, <1>5, <2>1 DEF Coming
<1>12. /\ Paired /\ wire = keycmd_wait
       /\ wire = KEYCMD_LED <=> ~keyboard.second
  BY <1>6, <1>7, <1>9, <1>10 DEF IInv, OnWire, Paired
<1>13. keycmd.q \in Seq(Cmds) BY DEF IInv, Types
<1>14. CASE wire = KEYCMD_LED
  <2>1. Begun = 1 BY <1>10, <1>12, <1>14 DEF Begun
  <2>2. keyboard'.second BY <1>1, <1>2, <1>14
  <2>3. Begun' = 1 BY <1>11, <2>2 DEF Begun
  <2>4. keycmd.q # <<>>
    <3>1. (1 + Len(keycmd.q)) % 2 = 0 BY <1>12, <2>1 DEF Paired
    <3>2. keycmd.q = <<>> => Len(keycmd.q) = 0 OBVIOUS
    <3>3. (1 + 0) % 2 # 0 BY Parity
    <3> QED BY <3>1, <3>2, <3>3, Zenon
  <2> QED BY <1>1, <1>11, <1>12, <2>1, <2>3, <2>4 DEF Paired
<1>15. CASE wire # KEYCMD_LED
  <2>1. Begun = 2 BY <1>10, <1>12, <1>15 DEF Begun
  <2>2. ~keyboard'.second /\ keyboard'.leds = wire[2] BY <1>1, <1>15
  <2>3. Begun' = 0 BY <1>11, <2>2 DEF Begun
  <2>4. (0 + Len(keycmd.q)) % 2 = 0
    <3>1. (2 + Len(keycmd.q)) % 2 = 0 BY <1>12, <2>1 DEF Paired
    <3>2. Len(keycmd.q) \in Nat BY <1>13
    <3> QED BY <3>1, <3>2, Parity
  <2>5. \A k \in DOMAIN keycmd.q : keycmd.q[k] = KEYCMD_LED <=> (0 + k) % 2 = 1
    <3> SUFFICES ASSUME NEW k \in DOMAIN keycmd.q PROVE keycmd.q[k] = KEYCMD_LED <=> (0 + k) % 2 = 1
      OBVIOUS
    <3>1. keycmd.q[k] = KEYCMD_LED <=> (2 + k) % 2 = 1 BY <1>12, <2>1 DEF Paired
    <3>2. k \in Nat BY <1>13
    <3>3. (2 + k) % 2 = (0 + k) % 2 BY <3>2, Parity
    <3> QED BY <3>1, <3>3
  <2>6. key_leds = IF keycmd.q # <<>> THEN Last(keycmd.q)[2] ELSE wire[2]
    BY <1>10, <1>12 DEF Paired
  <2> QED BY <1>1, <1>11, <2>2, <2>3, <2>4, <2>5, <2>6 DEF Paired
<1> QED BY <1>14, <1>15

LEMMA RefuseKeeps ==
    ASSUME IInv, Refuse PROVE IInv'
<1>1. /\ wire # NONE /\ wire' = NONE /\ port = NONE /\ port' = RESEND
      /\ UNCHANGED <<key_leds, keycmd, keycmd_wait, pc, fifo, keyboard>>
  BY DEF Refuse, Arrives, hariMain
<1>2. Types' BY <1>1, EventKinds DEF IInv, Types
<1>3. RESEND \in Answers BY EventKinds
<1>4. ASSUME ~fifo.overrun PROVE Turn'
  <2>1. OnWire BY <1>1, <1>4 DEF IInv, Turn, Idle, AtPort, InFifo
  <2>2. AtPort' BY <1>1, <1>3, <2>1 DEF OnWire, AtPort
  <2> QED BY <2>2 DEF Turn
<1>5. Coming /\ Coming' BY <1>1 DEF Coming
<1>6. ASSUME ~fifo.overrun, ~keycmd.overrun PROVE Paired' BY <1>1, <1>5, <1>6, PairedStays DEF IInv
<1> QED BY <1>1, <1>2, <1>4, <1>6 DEF IInv

-----------------------------------------------------------------------------
(* HariMain *)

LEMMA SendKeeps ==
    ASSUME IInv, Send PROVE IInv'
<1> PICK q : q = keycmd.q OBVIOUS
<1>1. /\ q # <<>> /\ keycmd_wait = NONE /\ keycmd' = Get(keycmd) /\ keycmd_wait' = Head(q)
      /\ wire = NONE /\ wire' = Head(q) /\ pc' = "test"
      /\ UNCHANGED <<key_leds, fifo, port, keyboard>>
  BY DEF Send, Out
<1>2. keycmd \in [q : Seq(Cmds), overrun : BOOLEAN] /\ Len(q) <= KEYCMD_SIZE BY DEF IInv, Types
<1>3. /\ Get(keycmd) \in [q : Seq(Cmds), overrun : BOOLEAN]
      /\ Get(keycmd).q = Tail(q) /\ Get(keycmd).overrun = keycmd.overrun
      /\ Len(Get(keycmd).q) = Len(q) - 1
      /\ Head(q) \in Cmds /\ Head(q) = q[1]
      /\ \A k \in DOMAIN Tail(q) : Tail(q)[k] = q[k + 1] /\ k + 1 \in DOMAIN q
  BY <1>1, <1>2, GetResult
<1>4. /\ keycmd' \in [q : Seq(Cmds), overrun : BOOLEAN] /\ keycmd'.q = Tail(q)
      /\ keycmd'.overrun = keycmd.overrun /\ Len(keycmd'.q) = Len(q) - 1
  BY <1>1, <1>3
<1>5. q \in Seq(Cmds) /\ DOMAIN q = 1 .. Len(q) /\ Len(q) \in Nat /\ Len(q) >= 1 BY <1>1, <1>2
<1>6. Len(keycmd'.q) <= KEYCMD_SIZE BY <1>2, <1>4, <1>5, Sizes
<1>7. Types' BY <1>1, <1>3, <1>4, <1>6 DEF IInv, Types
<1>8. Head(q) # NONE BY <1>3, Bytes
<1>9. ASSUME ~fifo.overrun PROVE Idle /\ Turn'
  <2>1. Idle BY <1>1, <1>9 DEF IInv, Turn, OnWire, AtPort, InFifo
  <2>2. OnWire' BY <1>1, <1>8, <2>1 DEF Idle, OnWire
  <2> QED BY <2>1, <2>2 DEF Turn
<1>10. ASSUME ~fifo.overrun, ~keycmd.overrun PROVE Paired'
  <2>1. Paired /\ Idle BY <1>9, <1>10 DEF IInv
  <2>2. ~Coming
    <3>1. RESEND \in Answers BY EventKinds
    <3>2. RESEND \notin ToSet(fifo.q) /\ port # RESEND BY <2>1, <3>1 DEF Idle, NoAnswer, ToSet
    <3> QED BY <1>1, <3>2 DEF Coming
  <2>3. Coming' BY <1>1, <1>8 DEF Coming
  <2> DEFINE n == IF keyboard.second THEN 1 ELSE 0
  <2>4. /\ Begun = n /\ Begun' = 1 + n /\ n \in {0, 1} /\ n \in Nat
        /\ keyboard.second <=> n = 1
    BY <1>1, <2>2, <2>3 DEF Begun
  <2> HIDE DEF n
  <2>5. /\ (n + Len(q)) % 2 = 0
        /\ \A k \in 1 .. Len(q) : q[k] = KEYCMD_LED <=> (n + k) % 2 = 1
        /\ key_leds = Last(q)[2]
    BY <1>1, <1>5, <2>1, <2>4 DEF Paired
  <2>6. Head(q) = KEYCMD_LED <=> ~keyboard.second
    <3>1. 1 \in 1 .. Len(q) BY <1>5
    <3>2. Head(q) = KEYCMD_LED <=> (n + 1) % 2 = 1 BY <1>3, <2>5, <3>1, Zenon
    <3>3. (0 + 1) % 2 = 1 /\ (1 + 1) % 2 # 1 BY Parity
    <3> QED BY <2>4, <3>2, <3>3
  <2>7. ((1 + n) + (Len(q) - 1)) % 2 = 0
    <3>1. (1 + n) + (Len(q) - 1) = n + Len(q)
      <4>1. n \in Nat BY <2>4
      <4>2. Len(q) \in Nat BY <1>5
      <4> QED BY <4>1, <4>2, Shifted, Zenon
    <3> QED BY <2>5, <3>1
  <2>8. \A k \in DOMAIN Tail(q) : Tail(q)[k] = KEYCMD_LED <=> ((1 + n) + k) % 2 = 1
    <3> SUFFICES ASSUME NEW k \in DOMAIN Tail(q)
                 PROVE  Tail(q)[k] = KEYCMD_LED <=> ((1 + n) + k) % 2 = 1
      OBVIOUS
    <3>1. Tail(q)[k] = q[k + 1] /\ k + 1 \in 1 .. Len(q) /\ k \in Nat BY <1>3, <1>4, <1>5
    <3>2. n + (k + 1) = (1 + n) + k BY <2>4, <3>1
    <3>3. q[k + 1] = KEYCMD_LED <=> (n + (k + 1)) % 2 = 1 BY <2>5, <3>1
    <3> QED BY <3>1, <3>2, <3>3
  <2>9. key_leds = IF Tail(q) # <<>> THEN Last(Tail(q))[2] ELSE Head(q)[2]
    <3>1. CASE Tail(q) # <<>>
      <4>1. Len(Tail(q)) >= 1 /\ Len(Tail(q)) = Len(q) - 1 /\ DOMAIN Tail(q) = 1 .. Len(Tail(q))
        BY <1>5, <3>1
      <4>2. Tail(q)[Len(q) - 1] = q[(Len(q) - 1) + 1] BY <1>3, <1>5, <4>1
      <4>3. Last(Tail(q)) = Last(q) BY <1>5, <4>1, <4>2 DEF Last
      <4> QED BY <2>5, <3>1, <4>3
    <3>2. CASE Tail(q) = <<>>
      <4>1. Len(Tail(q)) = 0 BY <3>2
      <4>2. Len(q) = 1 BY <1>3, <1>4, <1>5, <4>1
      <4> QED BY <1>3, <2>5, <3>2, <4>2 DEF Last
    <3> QED BY <3>1, <3>2
  <2>10. keycmd_wait' = Head(q) /\ keyboard' = keyboard /\ key_leds' = key_leds BY <1>1
  <2> QED BY <1>4, <1>8, <2>3, <2>4, <2>6, <2>7, <2>8, <2>9, <2>10 DEF Paired
<1> QED BY <1>1, <1>4, <1>7, <1>9, <1>10 DEF IInv

\* HariMain goes on, or sleeps.
LEMMA PcKeeps ==
    ASSUME IInv, NothingToSend \/ Sleep \/ UNCHANGED vars
    PROVE  IInv'
<1>1. /\ UNCHANGED <<key_leds, keycmd, keycmd_wait, fifo, wire, port, keyboard>>
      /\ pc' \in {"test", "asleep", pc}
  BY DEF NothingToSend, Sleep, vars, hariMain
<1>2. Types' BY <1>1 DEF IInv, Types
<1>3. Turn => Turn' BY <1>1 DEF Turn, Idle, OnWire, AtPort, InFifo
<1>4. Coming' <=> Coming BY <1>1 DEF Coming
<1>5. Paired => Paired' BY <1>1, <1>4, PairedStays
<1> QED BY <1>1, <1>2, <1>3, <1>5 DEF IInv

\* The front of the FIFO is taken.
LEMMA TakesResult ==
    ASSUME IInv, NEW e, Takes(e)
    PROVE  /\ fifo.q \in Seq(Events) /\ fifo.q # <<>> /\ Head(fifo.q) = e
           /\ fifo' \in [q : Seq(Events), overrun : BOOLEAN] /\ Len(fifo'.q) <= FIFO_SIZE
           /\ fifo'.q = Tail(fifo.q) /\ fifo'.overrun = fifo.overrun
           /\ pc' = "top" /\ UNCHANGED <<port, keyboard>>
<1>1. /\ fifo.q # <<>> /\ Head(fifo.q) = e /\ fifo' = Get(fifo) /\ pc' = "top"
      /\ UNCHANGED <<port, keyboard>>
  BY DEF Takes
<1>2. fifo \in [q : Seq(Events), overrun : BOOLEAN] /\ Len(fifo.q) <= FIFO_SIZE
  BY DEF IInv, Types
<1>3. /\ Get(fifo) \in [q : Seq(Events), overrun : BOOLEAN] /\ Get(fifo).q = Tail(fifo.q)
      /\ Get(fifo).overrun = fifo.overrun /\ Len(Get(fifo).q) = Len(fifo.q) - 1
  BY <1>1, <1>2, GetResult
<1>4. Len(fifo.q) \in Nat BY <1>2
<1>5. Len(fifo'.q) <= FIFO_SIZE BY <1>1, <1>2, <1>3, <1>4, Sizes
<1> QED BY <1>1, <1>2, <1>3, <1>5

LEMMA AcceptedKeeps ==
    ASSUME IInv, Accepted PROVE IInv'
<1>1. Takes(ACK) /\ keycmd_wait' = NONE /\ UNCHANGED <<key_leds, keycmd, wire>> BY DEF Accepted
<1>2. /\ fifo.q \in Seq(Events) /\ fifo.q # <<>> /\ Head(fifo.q) = ACK
      /\ fifo' \in [q : Seq(Events), overrun : BOOLEAN] /\ Len(fifo'.q) <= FIFO_SIZE
      /\ fifo'.q = Tail(fifo.q) /\ fifo'.overrun = fifo.overrun
      /\ pc' = "top" /\ UNCHANGED <<port, keyboard>>
  BY <1>1, TakesResult
<1>3. Types' BY <1>1, <1>2 DEF IInv, Types
<1>4. ACK \in Answers /\ RESEND \in Answers /\ ACK # RESEND BY EventKinds
<1>5. ASSUME ~fifo.overrun PROVE InFifo /\ Idle' /\ ~Coming /\ ~Coming'
  <2>1. ~NoAnswer(fifo.q) BY <1>2, <1>4, EventTaken
  <2>2. InFifo BY <1>5, <2>1 DEF IInv, Turn, Idle, OnWire, AtPort
  <2>3. NoAnswer(Tail(fifo.q)) /\ RESEND \notin ToSet(fifo.q)
    BY <1>2, <1>4, <2>2, EventTaken DEF InFifo
  <2>4. RESEND \notin ToSet(Tail(fifo.q)) BY <1>2, <2>3, EventTaken
  <2>5. Idle' BY <1>1, <1>2, <2>2, <2>3 DEF InFifo, Idle
  <2>6. ~Coming BY <1>4, <2>2, <2>3 DEF InFifo, Coming
  <2>7. ~Coming' BY <1>1, <1>2, <1>4, <2>2, <2>4 DEF InFifo, Coming
  <2> QED BY <2>2, <2>5, <2>6, <2>7
<1>6. ASSUME ~fifo.overrun, ~keycmd.overrun PROVE Paired'
  <2>1. Paired /\ ~Coming /\ ~Coming' BY <1>5, <1>6 DEF IInv
  <2>2. Begun' = Begun BY <1>2, <2>1 DEF Begun
  <2> QED BY <1>1, <1>2, <2>1, <2>2 DEF Paired
<1> QED BY <1>1, <1>2, <1>3, <1>5, <1>6 DEF IInv, Turn

LEMMA RefusedKeeps ==
    ASSUME IInv, Refused PROVE IInv'
<1>1. Takes(RESEND) /\ wire = NONE /\ wire' = keycmd_wait /\ UNCHANGED <<key_leds, keycmd, keycmd_wait>>
  BY DEF Refused, Out
<1>2. /\ fifo.q \in Seq(Events) /\ fifo.q # <<>> /\ Head(fifo.q) = RESEND
      /\ fifo' \in [q : Seq(Events), overrun : BOOLEAN] /\ Len(fifo'.q) <= FIFO_SIZE
      /\ fifo'.q = Tail(fifo.q) /\ fifo'.overrun = fifo.overrun
      /\ pc' = "top" /\ UNCHANGED <<port, keyboard>>
  BY <1>1, TakesResult
<1>3. Types' BY <1>1, <1>2 DEF IInv, Types
<1>4. RESEND \in Answers BY EventKinds
<1>5. ASSUME ~fifo.overrun PROVE OnWire' /\ Coming /\ Coming'
  <2>1. ~NoAnswer(fifo.q) BY <1>2, <1>4, EventTaken
  <2>2. InFifo BY <1>5, <2>1 DEF IInv, Turn, Idle, OnWire, AtPort
  <2>3. NoAnswer(Tail(fifo.q)) /\ RESEND \in ToSet(fifo.q)
    BY <1>2, <1>4, <2>2, EventTaken DEF InFifo
  <2>4. OnWire' BY <1>1, <1>2, <2>2, <2>3 DEF InFifo, OnWire
  <2>5. Coming /\ Coming' BY <1>1, <2>2, <2>3 DEF InFifo, Coming
  <2> QED BY <2>4, <2>5
<1>6. ASSUME ~fifo.overrun, ~keycmd.overrun PROVE Paired'
  BY <1>1, <1>2, <1>5, <1>6, PairedStays DEF IInv
<1> QED BY <1>1, <1>2, <1>3, <1>5, <1>6 DEF IInv, Turn

\* Any other event leaves what is coming alone.
LEMMA OtherTaken ==
    ASSUME IInv, NEW e \in Events, e \notin Answers, Takes(e), UNCHANGED <<keycmd_wait, wire>>, ~fifo.overrun
    PROVE  Turn' /\ (Coming' <=> Coming)
<1>1. /\ fifo.q \in Seq(Events) /\ fifo.q # <<>> /\ Head(fifo.q) = e
      /\ fifo'.q = Tail(fifo.q) /\ UNCHANGED port
  BY TakesResult
<1>2. Turn BY DEF IInv
<1>3. CASE NoAnswer(fifo.q)
  <2>1. NoAnswer(Tail(fifo.q)) /\ RESEND \notin ToSet(fifo.q) /\ RESEND \notin ToSet(Tail(fifo.q))
    BY <1>1, <1>3, EventTaken
  <2>2. Idle \/ OnWire \/ AtPort BY <1>2, <1>3 DEF Turn, InFifo, NoAnswer, OneAnswer
  <2>3. UNCHANGED <<keycmd_wait, wire, port>> /\ NoAnswer(fifo'.q) BY <1>1, <2>1
  <2>4. Turn' BY <2>2, <2>3 DEF Turn, Idle, OnWire, AtPort
  <2>5. Coming' <=> Coming BY <1>1, <2>1 DEF Coming
  <2> QED BY <2>4, <2>5
<1>4. CASE ~NoAnswer(fifo.q)
  <2>1. InFifo BY <1>2, <1>4 DEF Turn, Idle, OnWire, AtPort
  <2>2. OneAnswer(Tail(fifo.q)) /\ (RESEND \in ToSet(fifo.q) <=> RESEND \in ToSet(Tail(fifo.q)))
    BY <1>1, <2>1, EventTaken DEF InFifo
  <2>3. Turn' BY <1>1, <2>1, <2>2 DEF Turn, InFifo
  <2>4. Coming' <=> Coming BY <1>1, <2>2 DEF Coming
  <2> QED BY <2>3, <2>4
<1> QED BY <1>3, <1>4

LEMMA TakeOtherKeeps ==
    ASSUME IInv, TakeOther PROVE IInv'
<1>1. Takes(OTHER_EVENT) /\ UNCHANGED <<key_leds, keycmd, keycmd_wait, wire>> BY DEF TakeOther
<1>2. /\ fifo' \in [q : Seq(Events), overrun : BOOLEAN] /\ Len(fifo'.q) <= FIFO_SIZE
      /\ fifo'.overrun = fifo.overrun /\ pc' = "top" /\ UNCHANGED <<port, keyboard>>
  BY <1>1, TakesResult
<1>3. Types' BY <1>1, <1>2 DEF IInv, Types
<1>4. ASSUME ~fifo.overrun PROVE Turn' /\ (Coming' <=> Coming)
  BY <1>1, <1>4, EventKinds, OtherTaken
<1>5. ASSUME ~fifo.overrun, ~keycmd.overrun PROVE Paired'
  BY <1>1, <1>2, <1>4, <1>5, PairedStays DEF IInv
<1> QED BY <1>1, <1>2, <1>3, <1>4, <1>5 DEF IInv

LEMMA LockKeeps ==
    ASSUME IInv, NEW k \in Locks, Lock(k) PROVE IInv'
<1> PICK l : l = SymDiff(key_leds, {k}) OBVIOUS
<1> DEFINE half == Put(keycmd, KEYCMD_SIZE, KEYCMD_LED)
<1>1. /\ Takes(Key(k)) /\ key_leds' = l /\ keycmd' = Put(half, KEYCMD_SIZE, Lamps(l))
      /\ UNCHANGED <<keycmd_wait, wire>>
  BY DEF Lock
<1>2. /\ fifo' \in [q : Seq(Events), overrun : BOOLEAN] /\ Len(fifo'.q) <= FIFO_SIZE
      /\ fifo'.overrun = fifo.overrun /\ pc' = "top" /\ UNCHANGED <<port, keyboard>>
  BY <1>1, TakesResult
<1>3. l \in SUBSET Locks BY DEF SymDiff, IInv, Types
<1>4. Lamps(l) \in Cmds /\ Lamps(l) # KEYCMD_LED /\ Lamps(l)[2] = l /\ KEYCMD_LED \in Cmds
  BY <1>3, Bytes
<1>5. Fits(keycmd, Cmds, KEYCMD_SIZE) /\ KEYCMD_SIZE \in Nat BY Sizes DEF Fits, IInv, Types
<1>6. Fits(half, Cmds, KEYCMD_SIZE) /\ Result(keycmd, half, KEYCMD_LED) BY <1>4, <1>5, PutResult
<1> HIDE DEF half
<1>7. Fits(keycmd', Cmds, KEYCMD_SIZE) /\ Result(half, keycmd', Lamps(l))
  BY <1>1, <1>4, <1>5, <1>6, PutResult
<1>8. Types' BY <1>1, <1>2, <1>3, <1>7 DEF IInv, Types, Fits
<1>9. ASSUME ~fifo.overrun PROVE Turn' /\ (Coming' <=> Coming)
  BY <1>1, <1>9, EventKinds, OtherTaken
<1>10. ASSUME ~fifo.overrun, ~keycmd'.overrun PROVE Paired'
  <2> PICK q : q = keycmd.q OBVIOUS
  <2> PICK n : n = Len(q) OBVIOUS
  <2>1. ~keycmd.overrun /\ half.q = Append(q, KEYCMD_LED) /\ keycmd'.q = Append(half.q, Lamps(l))
    BY <1>6, <1>7, <1>10 DEF Result
  <2>2. q \in Seq(Cmds) /\ n \in Nat BY <1>5 DEF Fits
  <2>3. /\ Len(half.q) = n + 1 /\ half.q \in Seq(Cmds) /\ half.q[n + 1] = KEYCMD_LED
        /\ \A j \in 1 .. n : half.q[j] = q[j]
    BY <1>4, <2>1, <2>2
  <2>4. /\ Len(keycmd'.q) = n + 2 /\ DOMAIN keycmd'.q = 1 .. (n + 2) /\ keycmd'.q # <<>>
        /\ keycmd'.q[n + 2] = Lamps(l) /\ keycmd'.q[n + 1] = KEYCMD_LED
        /\ \A j \in 1 .. n : keycmd'.q[j] = q[j]
    BY <1>4, <2>1, <2>2, <2>3
  <2>5. Paired /\ (Coming' <=> Coming) BY <1>9, <1>10, <2>1 DEF IInv
  <2> PICK b : b = Begun OBVIOUS
  <2>6. b \in Nat /\ Begun' = b BY <1>2, <2>5 DEF Begun
  <2>7. (b + n) % 2 = 0 /\ \A j \in 1 .. n : q[j] = KEYCMD_LED <=> (b + j) % 2 = 1
    BY <2>2, <2>5 DEF Paired
  <2>8. (b + (n + 1)) % 2 = 1 /\ (b + (n + 2)) % 2 = 0
    <3>1. b + n \in Nat /\ b + (n + 1) = 1 + (b + n) /\ b + (n + 2) = 2 + (b + n) BY <2>2, <2>6
    <3> QED BY <2>7, <3>1, Parity
  <2>9. ASSUME NEW j \in 1 .. (n + 2) PROVE keycmd'.q[j] = KEYCMD_LED <=> (b + j) % 2 = 1
    <3>1. j \in 1 .. n \/ j = n + 1 \/ j = n + 2 BY <2>2, <2>9
    <3>2. CASE j \in 1 .. n BY <2>4, <2>7, <3>2
    <3>3. CASE j = n + 1 BY <2>4, <2>8, <3>3
    <3>4. CASE j = n + 2
      <4>1. (b + j) % 2 # 1 BY <2>8, <3>4
      <4> QED BY <1>4, <2>4, <3>4, <4>1
    <3> QED BY <3>1, <3>2, <3>3, <3>4
  <2>10. key_leds' = Last(keycmd'.q)[2] BY <1>1, <1>4, <2>4 DEF Last
  <2>11. Coming' => keycmd_wait' # NONE /\ (keycmd_wait' = KEYCMD_LED <=> ~keyboard'.second)
    BY <1>1, <1>2, <2>5 DEF Paired
  <2>12. (Begun' + Len(keycmd'.q)) % 2 = 0 BY <2>4, <2>6, <2>8
  <2>13. \A j \in DOMAIN keycmd'.q : keycmd'.q[j] = KEYCMD_LED <=> (Begun' + j) % 2 = 1
    BY <2>4, <2>6, <2>9
  <2> QED BY <2>4, <2>10, <2>11, <2>12, <2>13 DEF Paired
<1> QED BY <1>2, <1>8, <1>9, <1>10 DEF IInv

-----------------------------------------------------------------------------
(* The theorems *)

LEMMA StepKeeps ==
    ASSUME IInv, [Next]_vars PROVE IInv'
<1>1. CASE NothingToSend \/ Sleep \/ UNCHANGED vars BY <1>1, PcKeeps
<1>2. CASE Send BY <1>2, SendKeeps
<1>3. CASE Accepted BY <1>3, AcceptedKeeps
<1>4. CASE Refused BY <1>4, RefusedKeeps
<1>5. CASE TakeOther BY <1>5, TakeOtherKeeps
<1>6. CASE \E k \in Locks : Lock(k) BY <1>6, LockKeeps
<1>7. CASE Interrupt BY <1>7, InterruptKeeps
<1>8. CASE Accept BY <1>8, AcceptKeeps
<1>9. CASE Refuse BY <1>9, RefuseKeeps
<1>10. CASE OtherInput BY <1>10, EventKinds, ArrivesKeeps DEF OtherInput
<1>11. CASE \E k \in Locks : Press(k) BY <1>11, EventKinds, ArrivesKeeps DEF Press
<1> QED BY <1>1, <1>2, <1>3, <1>4, <1>5, <1>6, <1>7, <1>8, <1>9, <1>10, <1>11 DEF Next, HariMain

LEMMA Inductive == Spec => []IInv
<1>1. Init => IInv BY Initially
<1>2. IInv /\ [Next]_vars => IInv' BY StepKeeps
<1> QED BY <1>1, <1>2, PTL DEF Spec

LEMMA Bounded ==
    ASSUME NEW S, NEW n \in Nat, NEW q \in Seq(S), Len(q) <= n
    PROVE  q \in BoundedSeq(S, n)
<1>1. q \in [1 .. Len(q) -> S] /\ Len(q) \in 0 .. n OBVIOUS
<1> QED BY <1>1 DEF BoundedSeq, SeqOf

\* In every reachable state, for any locks and sizes, the FIFOs hold at most what
\* fifo32_put lets them hold, and the variables keep their types.
THEOREM TypeCorrect == Spec => []TypeOK
<1>1. ASSUME IInv PROVE TypeOK
  <2>1. keycmd.q \in Seq(Cmds) /\ Len(keycmd.q) <= KEYCMD_SIZE /\ keycmd.overrun \in BOOLEAN
    BY <1>1 DEF IInv, Types
  <2>2. fifo.q \in Seq(Events) /\ Len(fifo.q) <= FIFO_SIZE /\ fifo.overrun \in BOOLEAN
    BY <1>1 DEF IInv, Types
  <2>3. keycmd.q \in BoundedSeq(Cmds, KEYCMD_SIZE) BY <2>1, Sizes, Bounded
  <2>4. fifo.q \in BoundedSeq(Events, FIFO_SIZE) BY <2>2, Sizes, Bounded
  <2> QED BY <1>1, <2>1, <2>2, <2>3, <2>4 DEF IInv, Types, TypeOK
<1> QED BY <1>1, Inductive, PTL

LEMMA AnswersCounted ==
    LET held == {k \in DOMAIN fifo.q : fifo.q[k] \in Answers} IN
    /\ NoAnswer(fifo.q) => Cardinality(held) = 0
    /\ OneAnswer(fifo.q) => Cardinality(held) = 1
<1> DEFINE held == {k \in DOMAIN fifo.q : fifo.q[k] \in Answers}
<1>1. ASSUME NoAnswer(fifo.q) PROVE Cardinality(held) = 0
  <2>1. held = {} BY <1>1 DEF NoAnswer
  <2> QED BY <2>1, FS_EmptySet
<1>2. ASSUME OneAnswer(fifo.q) PROVE Cardinality(held) = 1
  <2>1. PICK k : held = {k} BY <1>2 DEF OneAnswer
  <2> QED BY <2>1, FS_Singleton
<1> QED BY <1>1, <1>2

\* With any sizes and locks, until task_a's FIFO overruns, the keyboard owes exactly one
\* answer while keycmd_wait holds a byte and none while it does not, so that keycmd_wait
\* is never cleared by the answer to an earlier byte.
THEOREM AnswersMatched == Spec => []OneOutstanding
<1>1. ASSUME IInv PROVE OneOutstanding
  <2> DEFINE held == {k \in DOMAIN fifo.q : fifo.q[k] \in Answers}
  <2>1. (NoAnswer(fifo.q) => Cardinality(held) = 0) /\ (OneAnswer(fifo.q) => Cardinality(held) = 1)
    BY AnswersCounted
  <2>2. AnswersComing = Cardinality(held) + (IF port \in Answers THEN 1 ELSE 0) BY DEF AnswersComing
  <2> HIDE DEF held
  <2>3. SUFFICES ASSUME ~fifo.overrun
                 PROVE  AnswersComing + (IF wire # NONE THEN 1 ELSE 0)
                        = (IF keycmd_wait # NONE THEN 1 ELSE 0)
    BY DEF OneOutstanding
  <2>4. Turn BY <1>1, <2>3 DEF IInv
  <2>5. CASE Idle BY <2>1, <2>2, <2>5 DEF Idle
  <2>6. CASE OnWire BY <2>1, <2>2, <2>6 DEF OnWire
  <2>7. CASE AtPort BY <2>1, <2>2, <2>7 DEF AtPort
  <2>8. CASE InFifo BY <2>1, <2>2, <2>8 DEF InFifo
  <2> QED BY <2>4, <2>5, <2>6, <2>7, <2>8 DEF Turn
<1> QED BY <1>1, Inductive, PTL

\* Bytes of which n of a command are gone, as Paired says it of keycmd.
PairsAfter(n, q) ==
    /\ (n + Len(q)) % 2 = 0
    /\ \A k \in DOMAIN q : q[k] = KEYCMD_LED <=> (n + k) % 2 = 1

LEMMA Fronted ==
    ASSUME NEW S, NEW q \in Seq(S), NEW x \in S
    PROVE  /\ <<x>> \o q \in Seq(S) /\ Len(<<x>> \o q) = 1 + Len(q)
           /\ (<<x>> \o q)[1] = x /\ <<x>> \o q # <<>>
           /\ \A k \in 2 .. (1 + Len(q)) : (<<x>> \o q)[k] = q[k - 1]
           /\ Last(<<x>> \o q) = IF q = <<>> THEN x ELSE Last(q)
<1>1. /\ <<x>> \o q \in Seq(S) /\ Len(<<x>> \o q) = 1 + Len(q) /\ (<<x>> \o q)[1] = x
      /\ \A k \in 2 .. (1 + Len(q)) : (<<x>> \o q)[k] = q[k - 1]
  OBVIOUS
<1>2. CASE q = <<>> BY <1>1, <1>2 DEF Last
<1>3. CASE q # <<>>
  <2>1. Len(q) \in Nat /\ Len(q) >= 1 BY <1>3
  <2>2. 1 + Len(q) \in 2 .. (1 + Len(q)) /\ (1 + Len(q)) - 1 = Len(q) BY <2>1
  <2>3. (<<x>> \o q)[1 + Len(q)] = q[Len(q)] BY <1>1, <2>2
  <2> QED BY <1>1, <1>3, <2>3 DEF Last
<1> QED BY <1>1, <1>2, <1>3

LEMMA PairsFronted ==
    ASSUME NEW q \in Seq(Cmds), NEW x \in Cmds, NEW n \in {0, 1},
           PairsAfter(n + 1, q), x = KEYCMD_LED <=> n = 0
    PROVE  PairsAfter(n, <<x>> \o q)
<1> PICK r : r = <<x>> \o q OBVIOUS
<1>1. /\ DOMAIN r = 1 .. (1 + Len(q)) /\ Len(r) = 1 + Len(q) /\ Len(q) \in Nat /\ r[1] = x
      /\ \A k \in 2 .. (1 + Len(q)) : r[k] = q[k - 1]
  BY Fronted
<1> PICK l : l = Len(q) OBVIOUS
<1>2. DOMAIN q = 1 .. l /\ l \in Nat OBVIOUS
<1>3. (n + 1 + l) % 2 = 0 /\ \A k \in 1 .. l : q[k] = KEYCMD_LED <=> (n + 1 + k) % 2 = 1
  BY <1>2 DEF PairsAfter
<1>4. n + (1 + l) = n + 1 + l BY <1>2
<1>5. (n + Len(r)) % 2 = 0 BY <1>1, <1>3, <1>4
<1>6. (n + 1) % 2 = 1 <=> n = 0
  <2>1. CASE n = 0 BY <2>1, Parity
  <2>2. CASE n = 1 BY <2>2, Parity
  <2> QED BY <2>1, <2>2
<1>7. ASSUME NEW k \in 1 .. (1 + l) PROVE r[k] = KEYCMD_LED <=> (n + k) % 2 = 1
  <2>1. CASE k = 1 BY <1>1, <1>6, <2>1
  <2>2. CASE k # 1
    <3>1. k - 1 \in 1 .. l /\ k \in 2 .. (1 + l) /\ n + 1 + (k - 1) = n + k BY <1>2, <2>2
    <3>2. q[k - 1] = KEYCMD_LED <=> (n + k) % 2 = 1 BY <1>3, <3>1
    <3>3. r[k] = q[k - 1] BY <1>1, <3>1
    <3> QED BY <3>2, <3>3
  <2> QED BY <2>1, <2>2
<1> QED BY <1>1, <1>5, <1>7 DEF PairsAfter

\* Whatever the keyboard refuses, whatever is pressed in between and however many locks there
\* are, until something overruns the keyboard gets whole commands, and the last one
\* carries the lamps that key_leds names.
THEOREM PairsKept == Spec => []InPairs
<1>1. ASSUME IInv, ~fifo.overrun, ~keycmd.overrun
      PROVE  LET all == (IF keyboard.second THEN <<KEYCMD_LED>> ELSE <<>>) \o Upcoming IN
             /\ Len(all) % 2 = 0
             /\ \A k \in DOMAIN all : all[k] = KEYCMD_LED <=> k % 2 = 1
             /\ LET last == IF all = <<>> THEN keyboard.leds ELSE Last(all)[2] IN last = key_leds
  <2> PICK q : q = keycmd.q OBVIOUS
  <2> PICK n : n = IF keyboard.second THEN 1 ELSE 0 OBVIOUS
  <2> PICK r : r = Upcoming OBVIOUS
  <2> PICK all : all = (IF keyboard.second THEN <<KEYCMD_LED>> ELSE <<>>) \o r OBVIOUS
  <2>1. q \in Seq(Cmds) /\ keycmd_wait \in Cmds \cup {NONE} /\ n \in {0, 1} /\ KEYCMD_LED \in Cmds
    BY <1>1, Bytes DEF IInv, Types
  <2>2. Turn /\ Paired BY <1>1 DEF IInv
  <2>3. wire # NONE => wire = keycmd_wait BY <2>2 DEF Turn, Idle, OnWire, AtPort, InFifo
  <2>4. r = (IF Coming THEN <<keycmd_wait>> ELSE <<>>) \o q BY <2>3 DEF Upcoming, Coming
  <2>5. r \in Seq(Cmds) /\ PairsAfter(n, r) /\ key_leds = IF r # <<>> THEN Last(r)[2] ELSE keyboard.leds
    <3>1. CASE Coming
      <4>1. keycmd_wait \in Cmds /\ (keycmd_wait = KEYCMD_LED <=> n = 0)
        BY <2>1, <2>2, <3>1 DEF Paired
      <4>2. n + 1 = Begun BY <3>1 DEF Begun
      <4>3. PairsAfter(n + 1, q) BY <2>2, <4>2 DEF Paired, PairsAfter
      <4>4. r = <<keycmd_wait>> \o q BY <2>4, <3>1
      <4>5. PairsAfter(n, r) BY <2>1, <4>1, <4>3, <4>4, PairsFronted
      <4>6. /\ r \in Seq(Cmds) /\ r # <<>>
            /\ Last(r) = IF q = <<>> THEN keycmd_wait ELSE Last(q)
        BY <2>1, <4>1, <4>4, Fronted
      <4>7. key_leds = Last(r)[2] BY <2>2, <3>1, <4>6 DEF Paired
      <4> QED BY <4>5, <4>6, <4>7
    <3>2. CASE ~Coming
      <4>1. r = q BY <2>1, <2>4, <3>2
      <4>2. n = Begun BY <3>2 DEF Begun
      <4> QED BY <2>1, <2>2, <3>2, <4>1, <4>2 DEF Paired, PairsAfter
    <3> QED BY <3>1, <3>2
  <2>6. all \in Seq(Cmds) /\ PairsAfter(0, all) /\ key_leds = IF all # <<>> THEN Last(all)[2] ELSE keyboard.leds
    <3>1. CASE keyboard.second
      <4>1. n = 0 + 1 BY <3>1
      <4>2. all = <<KEYCMD_LED>> \o r BY <3>1
      <4>3. PairsAfter(0, all) BY <2>1, <2>5, <4>1, <4>2, PairsFronted
      <4>4. r # <<>>
        <5>1. (n + Len(r)) % 2 = 0 BY <2>5 DEF PairsAfter
        <5>2. Len(r) = 0 => n + Len(r) = 1 BY <4>1
        <5>3. ASSUME r = <<>> PROVE FALSE
          <6>1. n + Len(r) = 1 BY <5>2, <5>3
          <6>2. 1 % 2 = 0 BY <5>1, <6>1
          <6> QED BY <6>2, Parity
        <5> QED BY <5>3
      <4>5. all \in Seq(Cmds) /\ all # <<>> /\ Last(all) = Last(r) BY <2>1, <2>5, <4>2, <4>4, Fronted
      <4> QED BY <2>5, <4>3, <4>4, <4>5
    <3>2. CASE ~keyboard.second
      <4>1. all = r /\ n = 0 BY <2>5, <3>2
      <4> QED BY <2>5, <4>1
    <3> QED BY <3>1, <3>2
  <2>7. Len(all) % 2 = 0 /\ \A k \in DOMAIN all : all[k] = KEYCMD_LED <=> k % 2 = 1
    <3>1. DOMAIN all = 1 .. Len(all) /\ Len(all) \in Nat BY <2>6
    <3>2. 0 + Len(all) = Len(all) /\ \A k \in 1 .. Len(all) : 0 + k = k BY <3>1
    <3> QED BY <2>6, <3>1, <3>2 DEF PairsAfter
  <2> QED BY <2>6, <2>7
<1>2. IInv => InPairs BY <1>1 DEF InPairs
<1> QED BY <1>2, Inductive, PTL

=============================================================================
