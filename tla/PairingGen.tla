---------------------------- MODULE PairingGen ----------------------------
(***************************************************************************)
(* generate_all_pairings of pairing.rs: the schedule of a tournament, one  *)
(* match index per step, over all participant counts, K and seeds of an    *)
(* instance.  run_matches computes the same pairs one index at a time.     *)
(***************************************************************************)
EXTENDS Pairing, FiniteSets

CONSTANTS
    MaxN,           \* bound on participant_count
    MaxK,           \* bound on matches_per_player
    SeedsFor(_,_)   \* seeds tried for participant_count and matches_per_player

\* What a seed has to offer: a value of each round function for each half, and a
\* draw for each offset.
ASSUME SeedsAssumption ==
    /\ MaxN \in Nat /\ MaxK \in Nat
    /\ \A p \in 0..MaxN, q \in 0..MaxK : \A s \in SeedsFor(p, q) :
          /\ \A r \in 1..6, x \in 1..IsqrtCeil(CalculateMatchCount(p, q)) :
                s.round[r][x] \in Nat
          /\ ~RoundRobin(p, q) => \A c \in 1..OffsetsToUse(p, q) : s.draw[c] \in Nat

VARIABLES n, k, seed, i, pairings

vars == <<n, k, seed, i, pairings>>

Total == CalculateMatchCount(n, k)

Init ==
    /\ n \in 0..MaxN
    /\ k \in 0..MaxK
    /\ seed \in SeedsFor(n, k)
    /\ i = 0
    /\ pairings = << >>

\* filter_map drops an index the permutation gives up on.
Generate ==
    /\ i < Total
    /\ pairings' = pairings \o SetToSeq(GetPairingForMatch(n, k, seed, i))
    /\ i' = i + 1
    /\ UNCHANGED <<n, k, seed>>

Spec == Init /\ [][Generate]_vars

-----------------------------------------------------------------------------
Occurrences(pair) == Cardinality({m \in DOMAIN pairings : pairings[m] = pair})
Matches(player) ==
    Cardinality({m \in DOMAIN pairings :
                     pairings[m][1] = player \/ pairings[m][2] = player})

Cycles == IF RoundRobin(n, k) THEN CeilDiv(k, n - 1) ELSE 1

\* Up to any match index, every index yields a match between two different
\* participants, and no two meet more often than there are full cycles: the
\* permutation is a bijection and each canonical index names a pair of its own.
NoRematch ==
    /\ Len(pairings) = i
    /\ \A m \in DOMAIN pairings :
          /\ pairings[m][1] < pairings[m][2] /\ pairings[m][2] < n
          /\ Occurrences(pairings[m]) <= Cycles

\* The complete schedule gives every participant the same number of matches,
\* all opponents once per cycle or two per circular offset; with more than K
\* participants these are K matches, or K + 1 if K is odd and not everybody
\* meets everybody.
EqualLoad ==
    i = Total => \A a \in 0..(n - 1) :
        /\ n * Matches(a) = 2 * Total
        /\ n > k /\ k > 0 =>
              Matches(a) = IF n = k + 1 THEN k ELSE 2 * CeilDiv(k, 2)

=============================================================================
