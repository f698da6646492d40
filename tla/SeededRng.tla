----------------------------- MODULE SeededRng ------------------------------
(***************************************************************************)
(* The generator of random.rs.  A u64 is the set of its one bits, so that  *)
(* shifts and exclusive or are exact at their width.  Only the state is    *)
(* modelled: what next_u64 returns is the state times an odd constant, and *)
(* the models of its users allow every output.                             *)
(***************************************************************************)
EXTENDS Integers

Bits == 0..63
Word == SUBSET Bits
Zero == {}

Xor(x, y) == (x \ y) \cup (y \ x)
Shr(x, k) == {b \in Bits : b + k \in x}
Shl(x, k) == {b \in Bits : b - k \in x}

\* The state after next_u64 (xorshift64*).
NextState(state) ==
    LET s1 == Xor(state, Shr(state, 12))
        s2 == Xor(s1, Shl(s1, 25))
    IN  Xor(s2, Shr(s2, 27))

\* The state of for_round, given the word that the round is multiplied to.
ForRound(state, mix) == NextState(Xor(state, mix))

=============================================================================
