------------------------------ MODULE Pairing ------------------------------
(***************************************************************************)
(* The pairing algorithm of the match-logic crate (pairing.rs): which two  *)
(* participant indices meet in match number i.  Pure operators, without    *)
(* state.                                                                  *)
(*                                                                         *)
(* A seed is abstracted to what the algorithm draws from it: a record with *)
(*   round : the six Feistel round functions.  feistel_round_fn(x, key, h) *)
(*           hashes x with 64-bit wrapping arithmetic and reduces it       *)
(*           modulo h; the only fact the algorithm uses is that the result *)
(*           is some function of x in 0..h-1, so round[r] is any sequence  *)
(*           over Nat and the result is round[r][x + 1] % h;               *)
(*   draw  : the u32 values SeededRng(seed, 0) yields, any sequence.       *)
(* An Option is a set: Some(x) is {x}, None is {}.                         *)
(***************************************************************************)
EXTENDS Integers, Sequences, SequencesExt

\* Number of attempts of the cycle walk in feistel_permute.
WalkLimit == 1000

\* Capacity of the offsets array in select_offsets.
MaxOffsets == 50

Lesser(a, b)  == IF a <= b THEN a ELSE b
Greater(a, b) == IF a >= b THEN a ELSE b
CeilDiv(a, b) == (a + b - 1) \div b

(***************************************************************************)
(* Match counts                                                            *)
(***************************************************************************)
EffectiveK(n, config_k) ==
    IF n < 2 THEN 0
    ELSE IF n <= 200 THEN n - 1
    ELSE Greater(49, Lesser(config_k, 99))

RoundRobin(n, k) == n <= k + 1

PairCount(n) == (n * (n - 1)) \div 2

\* Mutant: the diameter is offered as an offset for even n.
Available_WithDiameter(n) == n \div 2

\* Circular offsets 1..Available(n): for even n the diameter is left out.
Available(n) == IF n % 2 = 0 THEN n \div 2 - 1 ELSE n \div 2

OffsetsToUse(n, k) == Lesser(CeilDiv(k, 2), Available(n))

CalculateMatchCount(n, k) ==
    IF n < 2 \/ k = 0 THEN 0
    ELSE IF RoundRobin(n, k) THEN PairCount(n) * CeilDiv(k, n - 1)
    ELSE OffsetsToUse(n, k) * n

(***************************************************************************)
(* Integer square roots by Newton's method, from x downwards.              *)
(***************************************************************************)
FloorSqrt(n) ==
    LET newton[x \in 1..n] ==
            LET y == (x + n \div x) \div 2
            IN  IF y < x THEN newton[y] ELSE x
    IN  newton[n]

IsqrtCeil(n) ==
    IF n <= 1 THEN n
    ELSE LET x == FloorSqrt(n) IN IF x * x = n THEN x ELSE x + 1

(***************************************************************************)
(* feistel_permute: six alternating rounds on <<left, right>>, repeated    *)
(* while the value is outside the domain (cycle walking).                  *)
(***************************************************************************)
FeistelRoundFn(seed, r, x, half) == seed.round[r][x + 1] % half

FeistelPass(val, half, seed) ==
    LET lr[r \in 0..6] ==
            IF r = 0 THEN <<val \div half, val % half>>
            ELSE LET left  == lr[r - 1][1]
                     right == lr[r - 1][2]
                 IN  IF r % 2 = 1
                     THEN <<left, (right + FeistelRoundFn(seed, r, left, half)) % half>>
                     ELSE <<(left + FeistelRoundFn(seed, r, right, half)) % half, right>>
    IN  lr[6][1] * half + lr[6][2]

\* Mutant: a value outside the domain is reduced instead of walked on.
FeistelPermute_Reduced(idx, domain_size, seed) ==
    IF domain_size <= 1 THEN {0}
    ELSE {FeistelPass(idx, IsqrtCeil(domain_size), seed) % domain_size}

FeistelPermute(idx, domain_size, seed) ==
    IF domain_size <= 1 THEN {0}
    ELSE LET half == IsqrtCeil(domain_size)
             pass[v \in 0..(half * half - 1)] == FeistelPass(v, half, seed)
             attempt[i \in 0..WalkLimit] ==
                 IF i = 0 THEN idx ELSE pass[attempt[i - 1]]
             walk[i \in 1..WalkLimit] ==
                 IF attempt[i] < domain_size THEN {attempt[i]}
                 ELSE IF i = WalkLimit THEN {} ELSE walk[i + 1]
         IN  walk[1]

(***************************************************************************)
(* select_offsets: Floyd's sampling of distinct offsets from 1..Available. *)
(***************************************************************************)
FloydSample(n, k, seed) ==
    LET big_n == Available(n)
        m     == Lesser(OffsetsToUse(n, k), MaxOffsets)
        sample[c \in 0..m] ==
            IF c = 0 THEN << >>
            ELSE LET j == big_n - m + c
                     t == (seed.draw[c] % j) + 1
                 IN  Append(sample[c - 1],
                            IF \E i \in 1..(c - 1) : sample[c - 1][i] = t
                            THEN j ELSE t)
    IN  sample[m]

\* sort_unstable: the sequence rearranged into ascending order.
Sorted(s) ==
    LET order == CHOOSE p \in Bijection(DOMAIN s, DOMAIN s) :
                     \A a, b \in DOMAIN s : a < b => s[p[a]] <= s[p[b]]
    IN  [a \in DOMAIN s |-> s[order[a]]]

SelectOffsets(n, k, seed) == Sorted(FloydSample(n, k, seed))

(***************************************************************************)
(* canonical index -> pair                                                 *)
(***************************************************************************)
\* Newton estimate of b, corrected down, then up; a is what remains.
UnrankPair(rank) ==
    LET down[b \in Nat] == IF b > 0 /\ (b * (b - 1)) \div 2 > rank
                           THEN down[b - 1] ELSE b
        up[b \in Nat]   == IF ((b + 1) * b) \div 2 <= rank THEN up[b + 1] ELSE b
        b == up[down[(1 + FloorSqrt(1 + 8 * rank)) \div 2]]
    IN  <<rank - (b * (b - 1)) \div 2, b>>

CanonicalToPairRoundRobin(canonical, n) == UnrankPair(canonical % PairCount(n))

CanonicalToPairCircular(canonical, n, offsets) ==
    LET i == canonical % n
        j == (i + offsets[canonical \div n + 1]) % n
    IN  <<Lesser(i, j), Greater(i, j)>>

GetPairingForMatch(n, k, seed, match_index) ==
    LET total == CalculateMatchCount(n, k)
    IN  IF match_index >= total THEN {}
        ELSE {IF RoundRobin(n, k)
              THEN CanonicalToPairRoundRobin(c, n)
              ELSE CanonicalToPairCircular(c, n, SelectOffsets(n, k, seed))
                  : c \in FeistelPermute(match_index, total, seed)}

=============================================================================
