--------------------------- MODULE MCBarrierUnit ---------------------------
EXTENDS BarrierUnit

\* Barrier 0 is of every core, barrier 1 of the first two only.  The first
\* two cores meet between the two barriers of all.
TwoTeams ==
    [team |-> [b \in Barrier |-> IF b = 0 THEN Core ELSE {0, 1}],
     program |-> [c \in Core |-> IF c \in {0, 1} THEN <<0, 1, 0>> ELSE <<0, 0>>],
     irq |-> FALSE]

\* The first two cores meet while they are interrupted, n times.
Pair(n) ==
    [team |-> [b \in Barrier |-> IF b = 0 THEN {0, 1} ELSE {}],
     program |-> [c \in Core |-> IF c \in {0, 1} THEN [i \in 1 .. n |-> 0]
                                               ELSE <<>>],
     irq |-> TRUE]

MCPlans == {TwoTeams, Pair(1)}
TwicePlans == {Pair(2)}
=============================================================================
