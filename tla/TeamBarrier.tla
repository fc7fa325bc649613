---------------------------- MODULE TeamBarrier -----------------------------
(***************************************************************************)
(* What a synchronisation network promises: the tiles go through a list of *)
(* phases; in each, every tile belongs to a team, and leaves the phase     *)
(* only when its whole team has entered it.                                *)
(***************************************************************************)
EXTENDS Naturals

CONSTANTS Tile, Phases

VARIABLES entered, left,    \* phases each tile has entered, and left
          team              \* team[t][k]: the team of tile t in its phase k

Init ==
    /\ entered = [t \in Tile |-> 0] /\ left = [t \in Tile |-> 0]
    /\ team \in [Tile -> [1 .. Phases -> SUBSET Tile]]

Enter(t) ==
    /\ entered[t] = left[t] /\ left[t] < Phases
    /\ entered' = [entered EXCEPT ![t] = @ + 1]
    /\ UNCHANGED <<left, team>>

\* Some tiles leave together.
Leave(S) ==
    /\ S # {}
    /\ \A t \in S : /\ entered[t] = left[t] + 1
                    /\ \A u \in team[t][entered[t]] : entered[u] >= entered[t]
    /\ left' = [t \in Tile |-> IF t \in S THEN left[t] + 1 ELSE left[t]]
    /\ UNCHANGED <<entered, team>>

Next == (\E t \in Tile : Enter(t)) \/ (\E S \in SUBSET Tile : Leave(S))

Spec == Init /\ [][Next]_<<entered, left, team>>
=============================================================================
