-------------------------------- MODULE MCVm --------------------------------
(***************************************************************************)
(* Programs for TLC.                                                       *)
(***************************************************************************)
EXTENDS Vm

Over(alphabet, length) == [1..length -> alphabet]

\* All programs of up to three bytes over all opcodes and two unknown ones.
Short == UNION {Over(Known \cup {25, 255}, n) : n \in 0..3}

\* Longer ones over jumps, immediates, terminals and small operands.
Jumping == Over({0, 1, 2, 16, 20, 21, 24, 25}, 4) \cup Over({0, 1, 2, 20, 21}, 5)

\* Saturation: 255 + 1, 0 - 1, 16 * 16; a full and an overflowing stack.
Saturating == {<<1, a, 1, b, o, 24>> : a \in {0, 16, 255}, b \in {1, 16}, o \in 10..15}
Filling == {[i \in 1..n |-> IF i = 1 THEN 8 ELSE o] : n \in 8..10, o \in {19, 2, 9}}

\* n instructions in a straight line: 64 bytes is the longest program that is
\* accepted, 128 instructions the longest that is executed to its end.
Chain(n) == [i \in 1..n |-> IF i = 1 THEN 8 ELSE IF i = n THEN 22 ELSE 16]
Long == {Chain(n) : n \in {63, 64, 65, 127, 128, 129}}

MCPrograms == Short \cup Jumping \cup Saturating \cup Filling \cup Long

MCEnvironments ==
    {[opp |-> <<"Cooperate", "Defect">>, my |-> <<"Defect", "Cooperate">>,
      round |-> 2, draws |-> <<99, 0>>],
     [opp |-> << >>, my |-> << >>, round |-> 0, draws |-> <<50>>]}

=============================================================================
