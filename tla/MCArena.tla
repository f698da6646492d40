------------------------------ MODULE MCArena ------------------------------
(***************************************************************************)
(* Small instances of Arena for TLC.  Lamport amounts are scaled down but  *)
(* keep their order of magnitude: a stake covers several slots' rent, a    *)
(* fee of 1000 bps and a transaction fee are small against a stake.        *)
(***************************************************************************)
EXTENDS ArenaProps, TLC

CONSTANTS p1, p2, p3, p4, o1, o2

\* Two seeds: constant and index-dependent Feistel round functions.
MCSeeds == {1, 2}

MCSeed(s) ==
    [round |-> [r \in 1..6 |-> [x \in 1..16 |-> IF s = 1 THEN 0 ELSE x + r]],
     draw  |-> [c \in 1..4 |-> s * c]]

\* The schedules of up to four participants, computed once.
MCSchedules ==
    [n \in 2..4 |-> [k \in 1..(n - 1) |-> [s \in MCSeeds |->
        [m \in 0..(CalculateMatchCount(n, k) - 1) |->
            GetPairingForMatch(n, k, MCSeed(s), m)]]]]

MCPairingOf(n, k, s, m) == MCSchedules[n][k][s][m]

OneSeed == {2}

\* A builtin, and a custom program whose bytecode is valid or not.
Builtin == [strategy |-> 1, salt |-> "s", bytecode |-> "none"]
GoodCode == [strategy |-> 9, salt |-> "s", bytecode |-> "good"]
BadCode == [strategy |-> 9, salt |-> "s", bytecode |-> "bad"]

BuiltinSecret == {Builtin}
BuiltinCommitment == {Commitment(Builtin)}

AllSecrets == {Builtin, GoodCode, BadCode}
AllCommitments == {Commitment(s) : s \in AllSecrets}

Scores == {<<3, 3>>, <<5, 0>>}

Params(stake, min, max) ==
    [operator |-> o1, stake |-> stake, min_participants |-> min,
     max_participants |-> max, registration_duration |-> 1,
     matches_per_player |-> 1, reveal_duration |-> 1]

NoUpdate ==
    [operator |-> {}, house_fee_bps |-> {}, stake |-> {}, min_participants |-> {},
     max_participants |-> {}, registration_duration |-> {},
     matches_per_player |-> {}, reveal_duration |-> {}, operator_tx_fee |-> {}]

Upto3 == {Params(100, 2, 3)}
AllFour == {Params(100, 4, 4)}
APair == {Params(100, 2, 2)}

FeeUpdates == {[NoUpdate EXCEPT !.house_fee_bps = {1000}, !.operator_tx_fee = {7}]}

\* The admin hands over to another operator and raises both fees.
Rotation == {[NoUpdate EXCEPT !.operator = {o2}, !.house_fee_bps = {1000},
                              !.operator_tx_fee = {7}]}

FullFee == {[NoUpdate EXCEPT !.house_fee_bps = {10000}]}

PlayerSymmetry == Permutations(Players)

=============================================================================
