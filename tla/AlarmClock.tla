----------------------------- MODULE AlarmClock -----------------------------
(***************************************************************************)
(* What the timers promise: an alarm that is set goes off at the first tick *)
(* after its time has run out, together with all others that are due, unless*)
(* it is cancelled before.                                                  *)
(***************************************************************************)
EXTENDS Integers

CONSTANTS Alarms, Delays    \* delays count ticks

VARIABLE left               \* of each alarm, the ticks left, or Off

Off == -1

\* Some alarms may be set already.
Init == left \in [Alarms -> Delays \cup {Off}]

SetAlarm(a, n) ==
    /\ left[a] = Off
    /\ left' = [left EXCEPT ![a] = n]

Cancel ==
    /\ left' \in [Alarms -> Delays \cup {Off}]
    /\ \A a \in Alarms : left'[a] \in {left[a], Off}

\* One tick: what is due goes off, and may be set anew for a later tick.
Ticked(a) ==
    CASE left[a] = Off -> {Off}
      [] left[a] > 1 -> {left[a] - 1}
      [] OTHER -> (Delays \ {0}) \cup {Off}

Tick ==
    /\ left' \in [Alarms -> Delays \cup {Off}]
    /\ \A a \in Alarms : left'[a] \in Ticked(a)

Next == Tick \/ Cancel \/ \E a \in Alarms, n \in Delays : SetAlarm(a, n)

Spec == Init /\ [][Next]_left
=============================================================================
