----------------------------- MODULE MCPairing -----------------------------
(***************************************************************************)
(* Instances of PairingGen for TLC.                                        *)
(***************************************************************************)
EXTENDS PairingGen

\* With at most four matches half is 2, and only the parity of a round
\* function's two values matters: all 4^6 choices of the six functions.
AllRounds == [1..6 -> {<<x, y>> : x \in 0..1, y \in 0..1}]

\* Larger schedules: round functions of several shapes (constant, linear,
\* quadratic, irregular), long enough for the square root of the largest one.
SomeRounds ==
    {[r \in 1..6 |-> [x \in 1..16 |-> a * x * x + b * r * x + c * r]] :
         a \in 0..1, b \in {0, 3}, c \in 1..2}

Draws == {[c \in 1..5 |-> d] : d \in {0, 2}} \cup {[c \in 1..5 |-> c * c + 1]}

MCSeedsFor(participants, matches_per_player) ==
    LET total == CalculateMatchCount(participants, matches_per_player)
        draws == IF RoundRobin(participants, matches_per_player)
                 THEN {[c \in 1..5 |-> 0]} ELSE Draws
    IN  [round : IF total \in 2..4 THEN AllRounds ELSE SomeRounds, draw : draws]

=============================================================================
