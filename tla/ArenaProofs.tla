---------------------------- MODULE ArenaProofs ----------------------------
(***************************************************************************)
(* Proofs that every reachable state of Arena is type correct (so that no  *)
(* unchecked subtraction of the code goes below zero), that accumulated    *)
(* fees are backed by lamports, and that a tournament holds its stakes     *)
(* until it is finalized.                                                  *)
(*                                                                         *)
(* The inductive invariant IInv adds to those what they depend on: the     *)
(* pool is the participants' stakes and there are at least as many open    *)
(* entries as participants (Custody), and the score vector is as long as   *)
(* the player vector.                                                      *)
(***************************************************************************)
EXTENDS ArenaProps, SequenceTheorems, FiniteSetTheorems, TLAPS

Custody(tr) ==
    tr.state \in Live =>
        /\ tr.pool = tr.participant_count * tr.stake
        /\ tr.entries_remaining >= tr.participant_count
        /\ tr.lamports >= BaseRent + tr.pool
        /\ tr.lamports >= MinBalance(Len(tr.players))
        /\ tr.lamports <= MinBalance(Len(tr.players)) + tr.pool

\* What holds of every Tournament account.
Sound(tr) ==
    /\ tr \in TournamentType
    /\ Len(tr.scores) = Len(tr.players)
    /\ Custody(tr)

TournamentsSound ==
    /\ tournament \in [TournamentIds -> TournamentType]
    /\ \A t \in TournamentIds : Sound(tournament[t])

EntriesTyped == entry \in [TournamentIds -> [Players -> EntryType]]

IInv ==
    /\ now \in Nat
    /\ config \in ConfigType
    /\ FeesBacked
    /\ TournamentsSound
    /\ EntriesTyped
    /\ wallet \in [Wallets -> Nat]

-----------------------------------------------------------------------------
(***************************************************************************)
(* Arithmetic and sequences                                                *)
(***************************************************************************)
\* A quotient times its divisor does not exceed the dividend: dust is never
\* negative.
LEMMA DivMulLe ==
    \A a \in Nat, b \in Nat : b > 0 => (a \div b) \in Nat /\ (a \div b) * b <= a
  OBVIOUS

\* Multiples of a stake, or of a slot's rent, as the count goes up or down.
LEMMA MulStep ==
    \A a \in Nat, b \in Nat :
        /\ a * b \in Nat
        /\ (a + 1) * b = a * b + b
        /\ a >= 1 => (a - 1) * b = a * b - b /\ a * b >= b
  OBVIOUS

\* Updating a sequence at any position, in or out of range, keeps its type and
\* its length.
LEMMA ExceptSeqAny ==
    ASSUME NEW S, NEW seq \in Seq(S), NEW i \in Nat, NEW e \in S
    PROVE  /\ [seq EXCEPT ![i] = e] \in Seq(S)
           /\ Len([seq EXCEPT ![i] = e]) = Len(seq)
<1>1. CASE i \in 1..Len(seq)
  BY <1>1, ExceptSeq
<1>2. CASE i \notin 1..Len(seq)
  <2>1. DOMAIN seq = 1..Len(seq)
    OBVIOUS
  <2>2. [seq EXCEPT ![i] = e] = seq
    BY <1>2, <2>1
  <2>3. QED
    BY <2>2
<1>3. QED
  BY <1>1, <1>2

\* The numeric fields of a Tournament account.
LEMMA Fields ==
    ASSUME NEW tr \in TournamentType
    PROVE  /\ tr.stake \in Nat /\ tr.pool \in Nat /\ tr.participant_count \in Nat
           /\ tr.entries_remaining \in Nat /\ tr.lamports \in Nat
           /\ tr.reveals_completed \in Nat /\ tr.matches_completed \in Nat
           /\ tr.operator_costs \in Nat /\ tr.winner_pool \in Nat
           /\ tr.winner_count \in Nat /\ tr.claims_processed \in Nat
           /\ tr.house_fee_bps \in Nat /\ tr.matches_total \in Nat
           /\ tr.reveal_duration \in Nat /\ tr.matches_per_player \in Nat
           /\ tr.payout_started_at \in Nat /\ tr.min_winning_score \in Nat
           /\ tr.state \in States
           /\ tr.players \in Seq(Players \cup {NoPlayer}) /\ tr.scores \in Seq(Nat)
           /\ tr.strategies \in Seq(0..Custom \cup {Unrevealed})
           /\ Len(tr.players) \in Nat
<1>1. tr.players \in Seq(Players \cup {NoPlayer})
  BY DEF TournamentType
<1>2. Len(tr.players) \in Nat
  BY <1>1
<1> QED
  BY <1>1, <1>2 DEF TournamentType

\* The rent-exempt minimum of a Tournament account is a natural number.
LEMMA RentNat ==
    ASSUME NEW n \in Nat
    PROVE  /\ MinBalance(n) \in Nat
           /\ MinBalance(n) >= BaseRent
           /\ MinBalance(n + 1) = MinBalance(n) + RentPerPlayer
<1>1. BaseRent \in Nat /\ RentPerPlayer \in Nat
  BY AmountsAssumption
<1>2. n * RentPerPlayer \in Nat /\ (n + 1) * RentPerPlayer = n * RentPerPlayer + RentPerPlayer
  BY <1>1, MulStep
<1> QED
  BY <1>1, <1>2 DEF MinBalance

-----------------------------------------------------------------------------
(***************************************************************************)
(* Each update of a Tournament account keeps it sound                      *)
(***************************************************************************)
LEMMA NoTournamentSound == Sound(NoTournament)
<1>1. << >> \in Seq(Players \cup {NoPlayer}) /\ << >> \in Seq(Nat)
      /\ << >> \in Seq(0..Custom \cup {Unrevealed})
  OBVIOUS
<1>2. NoTournament \in TournamentType
  BY <1>1 DEF NoTournament, TournamentType, States
<1>3. Len(NoTournament.scores) = Len(NoTournament.players)
  BY DEF NoTournament
<1>4. Custody(NoTournament)
  BY DEF Custody, NoTournament, Live
<1> QED
  BY <1>2, <1>3, <1>4 DEF Sound

\* A freshly created tournament is sound: nothing staked, its rent held.
LEMMA NewTournamentSound ==
    ASSUME NEW c \in ConfigType, now \in Nat
    PROVE  Sound(NewTournament(c))
<1> DEFINE tr == NewTournament(c)
<1>0. /\ c.stake \in Nat /\ c.house_fee_bps \in Nat /\ c.matches_per_player \in Nat
      /\ c.reveal_duration \in Nat /\ c.registration_duration \in Nat
  BY DEF ConfigType
<1>1. now + c.registration_duration \in Nat /\ BaseRent \in Nat
  BY <1>0, AmountsAssumption
<1>2. NoTournament \in TournamentType
  BY NoTournamentSound DEF Sound
<1>3. tr \in TournamentType
  BY <1>0, <1>1, <1>2 DEF NewTournament, TournamentType, States
<1>4. /\ tr.pool = 0 /\ tr.participant_count = 0 /\ tr.entries_remaining = 0
      /\ tr.lamports = BaseRent /\ tr.players = << >> /\ tr.scores = << >>
      /\ tr.stake = c.stake
  BY DEF NewTournament, NoTournament
<1>5. MinBalance(0) = BaseRent
  BY AmountsAssumption DEF MinBalance
<1>6. Custody(tr)
  BY <1>0, <1>1, <1>4, <1>5 DEF Custody
<1> QED
  BY <1>3, <1>4, <1>6 DEF Sound

\* A refund takes one stake and one entry out together.
LEMMA RefundedSound ==
    ASSUME NEW tr, Sound(tr), tr.state \in Live, NEW index \in Nat,
           tr.participant_count >= 1,
           RentExempt(tr, tr.lamports - tr.stake)
    PROVE  /\ Sound(Refunded(tr, index))
           /\ Refunded(tr, index).state = tr.state
           /\ Refunded(tr, index).reveals_completed = tr.reveals_completed
<1> DEFINE new == Refunded(tr, index)
<1> DEFINE holes == [tr.players EXCEPT ![index + 1] = NoPlayer]
<1> DEFINE blanks == [tr.strategies EXCEPT ![index + 1] = Unrevealed]
<1> DEFINE n == Len(tr.players)
<1>0. tr \in TournamentType /\ Custody(tr) /\ Len(tr.scores) = n
  BY DEF Sound
<1>f. /\ tr.stake \in Nat /\ tr.pool \in Nat /\ tr.participant_count \in Nat
      /\ tr.entries_remaining \in Nat /\ tr.lamports \in Nat /\ n \in Nat
  BY <1>0, Fields
<1>g. /\ tr.players \in Seq(Players \cup {NoPlayer})
      /\ tr.strategies \in Seq(0..Custom \cup {Unrevealed})
  BY <1>0, Fields
<1>1. holes \in Seq(Players \cup {NoPlayer}) /\ Len(holes) = n
  <2>1. index + 1 \in Nat /\ NoPlayer \in Players \cup {NoPlayer}
    OBVIOUS
  <2>2. holes \in Seq(Players \cup {NoPlayer})
    BY ONLY <1>g, <2>1, ExceptSeqAny
  <2>3. Len(holes) = n
    BY ONLY <1>g, <2>1, ExceptSeqAny
  <2> QED
    BY <2>2, <2>3
<1>2. blanks \in Seq(0..Custom \cup {Unrevealed})
  <2>1. index + 1 \in Nat /\ Unrevealed \in 0..Custom \cup {Unrevealed}
    OBVIOUS
  <2> QED
    BY ONLY <1>g, <2>1, ExceptSeqAny
<1>3. MinBalance(n) \in Nat
  BY <1>f, RentNat
<1>m. tr.pool = tr.participant_count * tr.stake
  BY <1>0 DEF Custody
<1>4. /\ tr.entries_remaining >= tr.participant_count
      /\ tr.lamports >= BaseRent + tr.pool
      /\ tr.lamports <= MinBalance(n) + tr.pool
      /\ tr.lamports - tr.stake >= MinBalance(n)
  BY <1>0 DEF Custody, RentExempt
<1>5. (tr.participant_count - 1) * tr.stake = tr.pool - tr.stake /\ tr.pool >= tr.stake
  <2>1. \A a \in Nat, b \in Nat : a >= 1 => (a - 1) * b = a * b - b /\ a * b >= b
    BY MulStep
  <2>2. /\ (tr.participant_count - 1) * tr.stake = tr.participant_count * tr.stake - tr.stake
        /\ tr.participant_count * tr.stake >= tr.stake
    BY <1>f, <2>1
  <2> QED
    BY <1>m, <2>2
<1>p. tr.pool >= tr.stake
  BY <1>5
<1>6. /\ tr.participant_count - 1 \in Nat /\ tr.entries_remaining - 1 \in Nat
      /\ tr.pool - tr.stake \in Nat /\ tr.lamports - tr.stake \in Nat
  BY <1>f, <1>3, <1>4, <1>p, SMTT(60)
<1>7. new \in TournamentType
  BY <1>0, <1>1, <1>2, <1>6, ZenonT(60) DEF Refunded, TournamentType
<1>8. /\ new.pool = tr.pool - tr.stake /\ new.participant_count = tr.participant_count - 1
      /\ new.stake = tr.stake /\ new.entries_remaining = tr.entries_remaining - 1
      /\ new.lamports = tr.lamports - tr.stake /\ new.scores = tr.scores
      /\ new.players = holes /\ new.state = tr.state
      /\ new.reveals_completed = tr.reveals_completed
  BY <1>0 DEF Refunded, TournamentType
<1> HIDE DEF new, holes, blanks
<1>9. Custody(new)
  <2>1. BaseRent \in Nat
    BY AmountsAssumption
  <2>2. /\ tr.entries_remaining - 1 >= tr.participant_count - 1
        /\ tr.lamports - tr.stake >= BaseRent + (tr.pool - tr.stake)
        /\ tr.lamports - tr.stake <= MinBalance(n) + (tr.pool - tr.stake)
    BY ONLY <1>f, <1>3, <1>4, <2>1, SMTT(60)
  <2>3. new.pool = new.participant_count * new.stake
    BY <1>5, <1>8
  <2> QED
    BY <1>1, <1>4, <1>8, <2>2, <2>3 DEF Custody
<1> QED
  BY <1>0, <1>1, <1>7, <1>8, <1>9 DEF Sound, new

\* An update that leaves stakes, counts and lamports alone, in a tournament
\* before its payout.
LEMMA SameCustody ==
    ASSUME NEW tr, NEW new, Sound(tr), tr.state \in Live,
           new \in TournamentType, new.pool = tr.pool, new.stake = tr.stake,
           new.participant_count = tr.participant_count,
           new.entries_remaining = tr.entries_remaining,
           new.lamports = tr.lamports, new.players = tr.players,
           Len(new.scores) = Len(tr.scores)
    PROVE  Sound(new)
  BY DEF Sound, Custody

\* Custody says nothing of a tournament in payout.
LEMMA PastCustody ==
    ASSUME NEW new, new \in TournamentType, new.state = "Payout",
           Len(new.scores) = Len(new.players)
    PROVE  Sound(new)
  BY DEF Sound, Custody, Live

\* Charging an operator transaction fee touches no stake.
LEMMA ChargedSound ==
    ASSUME NEW tr, Sound(tr), tr.state \in Live, config \in ConfigType
    PROVE  /\ Sound(Charged(tr))
           /\ Charged(tr).state = tr.state /\ Charged(tr).stake = tr.stake
           /\ Charged(tr).participant_count = tr.participant_count
           /\ Charged(tr).reveals_completed = tr.reveals_completed
           /\ Charged(tr).lamports = tr.lamports
           /\ Charged(tr).players = tr.players
<1> DEFINE new == Charged(tr)
<1>1. tr \in TournamentType
  BY DEF Sound
<1>2. tr.operator_costs \in Nat /\ config.operator_tx_fee \in Nat
  BY <1>1 DEF TournamentType, ConfigType
<1>3. tr.operator_costs + config.operator_tx_fee \in Nat
  BY <1>2
<1>4. new \in TournamentType
  BY <1>1, <1>3 DEF Charged, TournamentType
<1>5. /\ new.pool = tr.pool /\ new.stake = tr.stake /\ new.state = tr.state
      /\ new.participant_count = tr.participant_count
      /\ new.entries_remaining = tr.entries_remaining
      /\ new.reveals_completed = tr.reveals_completed
      /\ new.lamports = tr.lamports /\ new.players = tr.players
      /\ new.scores = tr.scores
  BY <1>1 DEF Charged, TournamentType
<1> HIDE DEF new
<1>6. Sound(new)
  BY <1>4, <1>5, SameCustody
<1> QED
  BY <1>5, <1>6 DEF new

\* Recording a reveal or a forfeit changes a strategy slot and its counter only.
LEMMA RevealedSound ==
    ASSUME NEW tr, Sound(tr), tr.state \in Live, NEW index \in Nat,
           NEW strategy \in 0..Custom
    PROVE  Sound(Revealed(tr, index, strategy))
<1> DEFINE new == Revealed(tr, index, strategy)
<1> DEFINE filled == [tr.strategies EXCEPT ![index + 1] = strategy]
<1>1. tr \in TournamentType
  BY DEF Sound
<1>2. filled \in Seq(0..Custom \cup {Unrevealed})
  <2>1. index + 1 \in Nat /\ strategy \in 0..Custom \cup {Unrevealed}
    OBVIOUS
  <2>2. tr.strategies \in Seq(0..Custom \cup {Unrevealed})
    BY <1>1 DEF TournamentType
  <2> QED
    BY ONLY <2>1, <2>2, ExceptSeqAny
<1>3. tr.reveals_completed + 1 \in Nat
  <2>1. tr.reveals_completed \in Nat
    BY <1>1 DEF TournamentType
  <2> QED
    BY <2>1
<1>4. new \in TournamentType
  BY <1>1, <1>2, <1>3 DEF Revealed, TournamentType
<1>5. /\ new.pool = tr.pool /\ new.stake = tr.stake
      /\ new.participant_count = tr.participant_count
      /\ new.entries_remaining = tr.entries_remaining
      /\ new.lamports = tr.lamports /\ new.players = tr.players
      /\ new.scores = tr.scores
  BY <1>1 DEF Revealed, TournamentType
<1> HIDE DEF new
<1>6. Sound(new)
  BY <1>4, <1>5, SameCustody
<1> QED
  BY <1>6 DEF new

\* The matches per player that the tournament really uses.
LEMMA EffectiveKNat ==
    ASSUME NEW n \in Nat, NEW config_k \in Nat
    PROVE  EffectiveK(n, config_k) \in Nat
  BY DEF EffectiveK, Greater, Lesser

\* The number of matches of a tournament.
LEMMA MatchCountNat ==
    ASSUME NEW n \in Nat, NEW k \in Nat
    PROVE  CalculateMatchCount(n, k) \in Nat
<1>1. CASE n < 2 \/ k = 0
  BY <1>1 DEF CalculateMatchCount
<1>2. CASE n >= 2 /\ k > 0
  <2>1. PairCount(n) \in Nat
    <3>1. n - 1 \in Nat
      BY <1>2
    <3>2. n * (n - 1) \in Nat
      BY <3>1, MulStep
    <3> QED
      BY <3>2, DivMulLe DEF PairCount
  <2>2. CeilDiv(k, n - 1) \in Nat
    <3>1. k + (n - 1) - 1 \in Nat /\ n - 1 \in Nat /\ n - 1 > 0
      BY <1>2
    <3> QED
      BY <3>1, DivMulLe DEF CeilDiv
  <2>3. OffsetsToUse(n, k) \in Nat
    <3>1. CeilDiv(k, 2) \in Nat /\ Available(n) \in Nat
      BY <1>2 DEF CeilDiv, Available
    <3> QED
      BY <3>1 DEF OffsetsToUse, Lesser
  <2>4. PairCount(n) * CeilDiv(k, n - 1) \in Nat /\ OffsetsToUse(n, k) * n \in Nat
    BY <2>1, <2>2, <2>3, MulStep
  <2> QED
    BY <1>2, <2>4 DEF CalculateMatchCount
<1> QED
  BY <1>1, <1>2

\* Moving to Running keeps the custody of the stakes.
LEMMA StartedSound ==
    ASSUME NEW tr, Sound(tr), tr.state \in Live, NEW seed \in Seeds
    PROVE  Sound(Started(tr, seed))
<1> DEFINE new == Started(tr, seed)
<1> DEFINE k == EffectiveK(tr.participant_count, tr.matches_per_player)
<1> DEFINE total == CalculateMatchCount(tr.participant_count, k)
<1>1. tr \in TournamentType
  BY DEF Sound
<1>2. tr.participant_count \in Nat /\ tr.matches_per_player \in Nat
  BY <1>1 DEF TournamentType
<1>3. k \in Nat
  BY <1>2, EffectiveKNat
<1> HIDE DEF k
<1>4. total \in Nat
  BY <1>2, <1>3, MatchCountNat
<1> HIDE DEF total
<1>5. \/ new = [tr EXCEPT !.state = "Running", !.matches_total = 0, !.matches_completed = 0]
      \/ new = [tr EXCEPT !.state = "Running", !.randomness_seed = seed,
                          !.matches_per_player = k, !.matches_total = total]
  BY DEF Started, k, total
<1> HIDE DEF new
<1>6. new \in TournamentType
  <2>1. "Running" \in States /\ seed \in Seeds \cup {NoSeed} /\ 0 \in Nat
    BY DEF States
  <2>2. CASE new = [tr EXCEPT !.state = "Running", !.matches_total = 0,
                              !.matches_completed = 0]
    BY ONLY <1>1, <2>1, <2>2 DEF TournamentType
  <2>3. CASE new = [tr EXCEPT !.state = "Running", !.randomness_seed = seed,
                              !.matches_per_player = k, !.matches_total = total]
    BY ONLY <1>1, <1>3, <1>4, <2>1, <2>3 DEF TournamentType
  <2> QED
    BY <1>5, <2>2, <2>3
<1>7. /\ new.pool = tr.pool /\ new.stake = tr.stake
      /\ new.participant_count = tr.participant_count
      /\ new.entries_remaining = tr.entries_remaining
      /\ new.lamports = tr.lamports /\ new.players = tr.players
      /\ new.scores = tr.scores
  BY <1>1, <1>5, ZenonT(60) DEF TournamentType
<1>8. Sound(new)
  BY <1>6, <1>7, SameCustody
<1> QED
  BY <1>8 DEF new

\* The rent the entrant adds for one more player slot covers the reallocation.
LEMMA TopUp ==
    ASSUME NEW tr \in TournamentType
    PROVE  /\ ReallocTopUp(tr) \in Nat
           /\ ReallocTopUp(tr) = 0 \/ tr.lamports + ReallocTopUp(tr) = MinBalance(Len(tr.players) + 1)
           /\ tr.lamports + ReallocTopUp(tr) >= MinBalance(Len(tr.players) + 1)
<1> DEFINE min == MinBalance(Len(tr.players) + 1)
<1>1. tr.lamports \in Nat /\ Len(tr.players) \in Nat
  BY Fields
<1>2. min \in Nat
  <2>1. Len(tr.players) + 1 \in Nat
    BY <1>1
  <2> QED
    BY <2>1, RentNat
<1> HIDE DEF min
<1>3. ReallocTopUp(tr) = IF 0 >= min - tr.lamports THEN 0 ELSE min - tr.lamports
  BY DEF ReallocTopUp, Monus, Greater, min
<1>4. /\ ReallocTopUp(tr) \in Nat
      /\ ReallocTopUp(tr) = 0 \/ tr.lamports + ReallocTopUp(tr) = min
      /\ tr.lamports + ReallocTopUp(tr) >= min
  BY <1>1, <1>2, <1>3
<1> QED
  BY <1>4 DEF min

\* An entry adds one stake, one slot and the rent of that slot.
LEMMA EnteredSound ==
    ASSUME NEW tr, Sound(tr), tr.state \in Live, NEW p \in Players
    PROVE  Sound(Entered(tr, p))
<1> DEFINE new == Entered(tr, p)
<1> DEFINE n == Len(tr.players)
<1> DEFINE up == ReallocTopUp(tr)
<1>1. tr \in TournamentType /\ Custody(tr) /\ Len(tr.scores) = n
  BY DEF Sound
<1>2. /\ tr.stake \in Nat /\ tr.pool \in Nat /\ tr.participant_count \in Nat
      /\ tr.entries_remaining \in Nat /\ tr.lamports \in Nat /\ n \in Nat
  BY <1>1, Fields
<1>3. /\ Append(tr.players, p) \in Seq(Players \cup {NoPlayer})
      /\ Len(Append(tr.players, p)) = n + 1
      /\ Append(tr.scores, 0) \in Seq(Nat)
      /\ Len(Append(tr.scores, 0)) = n + 1
      /\ Append(tr.strategies, Unrevealed) \in Seq(0..Custom \cup {Unrevealed})
  <2>1. tr.players \in Seq(Players \cup {NoPlayer}) /\ p \in Players \cup {NoPlayer}
    BY <1>1 DEF TournamentType
  <2>2. tr.scores \in Seq(Nat) /\ 0 \in Nat
    BY <1>1 DEF TournamentType
  <2>3. /\ tr.strategies \in Seq(0..Custom \cup {Unrevealed})
        /\ Unrevealed \in 0..Custom \cup {Unrevealed}
    BY <1>1 DEF TournamentType
  <2>4. /\ Append(tr.players, p) \in Seq(Players \cup {NoPlayer})
        /\ Len(Append(tr.players, p)) = n + 1
    BY ONLY <2>1, AppendProperties
  <2>5. Append(tr.scores, 0) \in Seq(Nat) /\ Len(Append(tr.scores, 0)) = n + 1
    BY ONLY <1>1, <2>2, AppendProperties
  <2>6. Append(tr.strategies, Unrevealed) \in Seq(0..Custom \cup {Unrevealed})
    BY ONLY <2>3, AppendProperties
  <2> QED
    BY <2>4, <2>5, <2>6
<1>4. /\ up \in Nat
      /\ up = 0 \/ tr.lamports + up = MinBalance(n + 1)
      /\ tr.lamports + up >= MinBalance(n + 1)
  BY <1>1, TopUp
<1>5. /\ MinBalance(n) \in Nat /\ MinBalance(n + 1) = MinBalance(n) + RentPerPlayer
      /\ BaseRent \in Nat /\ RentPerPlayer \in Nat
  BY <1>2, RentNat, AmountsAssumption
<1>6. /\ tr.entries_remaining >= tr.participant_count
      /\ tr.lamports >= BaseRent + tr.pool
      /\ tr.lamports <= MinBalance(n) + tr.pool
  BY <1>1 DEF Custody
<1> HIDE DEF up, n
<1>7. (tr.participant_count + 1) * tr.stake = tr.pool + tr.stake
  <2>1. tr.pool = tr.participant_count * tr.stake
    BY <1>1 DEF Custody
  <2>2. \A a \in Nat, b \in Nat : (a + 1) * b = a * b + b
    BY MulStep
  <2>3. (tr.participant_count + 1) * tr.stake = tr.participant_count * tr.stake + tr.stake
    BY <1>2, <2>2
  <2> QED
    BY <2>1, <2>3
<1>8. /\ tr.participant_count + 1 \in Nat /\ tr.entries_remaining + 1 \in Nat
      /\ tr.pool + tr.stake \in Nat /\ tr.lamports + up + tr.stake \in Nat
  BY <1>2, <1>4
<1>9. new \in TournamentType
  BY <1>1, <1>3, <1>8 DEF Entered, TournamentType, up
<1>10. /\ new.pool = tr.pool + tr.stake /\ new.participant_count = tr.participant_count + 1
       /\ new.stake = tr.stake /\ new.entries_remaining = tr.entries_remaining + 1
       /\ new.lamports = tr.lamports + up + tr.stake
       /\ new.scores = Append(tr.scores, 0) /\ new.players = Append(tr.players, p)
  BY <1>1 DEF Entered, TournamentType, up
<1> HIDE DEF new
<1>11. /\ tr.entries_remaining + 1 >= tr.participant_count + 1
       /\ tr.lamports + up + tr.stake >= BaseRent + (tr.pool + tr.stake)
       /\ tr.lamports + up + tr.stake >= MinBalance(n + 1)
       /\ tr.lamports + up + tr.stake <= MinBalance(n + 1) + (tr.pool + tr.stake)
  BY <1>2, <1>4, <1>5, <1>6
<1>12. Custody(new)
  BY <1>3, <1>7, <1>10, <1>11 DEF Custody
<1> QED
  BY <1>3, <1>9, <1>10, <1>12 DEF Sound, new

-----------------------------------------------------------------------------
(***************************************************************************)
(* A batch of matches.  Updating a vector or a map at an index outside its *)
(* domain changes nothing, so these facts need no bound on the pairing.    *)
(***************************************************************************)
LEMMA AddScoreType ==
    ASSUME NEW scores \in Seq(Nat), NEW i, NEW x \in Nat
    PROVE  AddScore(scores, i, x) \in Seq(Nat) /\ Len(AddScore(scores, i, x)) = Len(scores)
<1> DEFINE new == AddScore(scores, i, x)
<1>1. CASE i + 1 \in 1..Len(scores)
  <2>1. scores[i + 1] \in Nat
    BY <1>1
  <2>2. scores[i + 1] + x \in Nat
    BY <2>1
  <2>3. new = [scores EXCEPT ![i + 1] = scores[i + 1] + x]
    BY DEF AddScore
  <2> QED
    BY ONLY <1>1, <2>2, <2>3, ExceptSeq, scores \in Seq(Nat)
<1>2. CASE i + 1 \notin 1..Len(scores)
  <2>1. DOMAIN scores = 1..Len(scores)
    OBVIOUS
  <2>2. new = scores
    BY <1>2, <2>1 DEF AddScore
  <2> QED
    BY <2>2
<1> QED
  BY <1>1, <1>2

\* Crediting a match result leaves every entry well typed.
LEMMA AddResultType ==
    ASSUME NEW en \in [Players -> EntryType], NEW p, NEW x \in Nat
    PROVE  AddResult(en, p, x) \in [Players -> EntryType]
<1> DEFINE new == AddResult(en, p, x)
<1>1. ASSUME NEW q \in Players PROVE new[q] \in EntryType
  <2>1. en[q] \in EntryType
    OBVIOUS
  <2>2. en[q].score \in Nat /\ en[q].matches_played \in Nat
    BY <2>1 DEF EntryType
  <2>3. en[q].score + x \in Nat /\ en[q].matches_played + 1 \in Nat
    BY <2>2
  <2>4. AfterMatch(en[q], x) \in EntryType
    BY <2>1, <2>3 DEF AfterMatch, EntryType
  <2>5. new[q] = en[q] \/ new[q] = AfterMatch(en[q], x)
    BY DEF AddResult
  <2> QED
    BY <2>1, <2>4, <2>5
<1>2. new = [q \in Players |-> new[q]]
  BY DEF AddResult
<1> QED
  BY <1>1, <1>2

\* What a batch carries: a sound tournament before its payout, and its entries.
Batch(b) ==
    /\ Sound(b.tr) /\ b.tr.state \in Live
    /\ b.en \in [Players -> EntryType]

\* Counting a match, with or without new scores, touches nothing else.
CountedOnly(new, tr, s) ==
    /\ new \in TournamentType
    /\ new.pool = tr.pool /\ new.stake = tr.stake
    /\ new.participant_count = tr.participant_count
    /\ new.entries_remaining = tr.entries_remaining
    /\ new.lamports = tr.lamports /\ new.players = tr.players
    /\ new.state = tr.state
    /\ new.scores \in {tr.scores, s}

\* A skipped match leaves the scores alone.
LEMMA SkippedCounted ==
    ASSUME NEW tr \in TournamentType, NEW m \in Nat, NEW s \in Seq(Nat),
           NEW new, new = [tr EXCEPT !.matches_completed = m]
    PROVE  CountedOnly(new, tr, s)
<1>1. new \in TournamentType
  BY ZenonT(60) DEF TournamentType
<1>2. /\ new.pool = tr.pool /\ new.stake = tr.stake
      /\ new.participant_count = tr.participant_count
      /\ new.entries_remaining = tr.entries_remaining
      /\ new.lamports = tr.lamports /\ new.players = tr.players
      /\ new.state = tr.state /\ new.scores = tr.scores
  BY SMTT(30) DEF TournamentType
<1> QED
  BY ONLY <1>1, <1>2 DEF CountedOnly

\* A match that is played replaces them.
LEMMA PlayedCounted ==
    ASSUME NEW tr \in TournamentType, NEW m \in Nat, NEW s \in Seq(Nat),
           NEW new, new = [tr EXCEPT !.matches_completed = m, !.scores = s]
    PROVE  CountedOnly(new, tr, s)
<1>1. new \in TournamentType
  BY ZenonT(60) DEF TournamentType
<1>2. /\ new.pool = tr.pool /\ new.stake = tr.stake
      /\ new.participant_count = tr.participant_count
      /\ new.entries_remaining = tr.entries_remaining
      /\ new.lamports = tr.lamports /\ new.players = tr.players
      /\ new.state = tr.state /\ new.scores = s
  BY SMTT(30) DEF TournamentType
<1> QED
  BY ONLY <1>1, <1>2 DEF CountedOnly

\* One match of a batch keeps the batch sound.
LEMMA PlayMatchKeeps ==
    ASSUME NEW b, Batch(b), NEW score \in Nat \X Nat
    PROVE  Batch(PlayMatch(b, score))
<1> DEFINE tr   == b.tr
           pair == CHOOSE x \in PairingOption(tr, tr.matches_completed) : TRUE
           done == [tr EXCEPT !.matches_completed = @ + 1]
           sums == AddScore(AddScore(tr.scores, pair[1], score[1]), pair[2], score[2])
           pa   == tr.players[pair[1] + 1]
           pb   == tr.players[pair[2] + 1]
           new  == PlayMatch(b, score)
<1>1. Sound(tr) /\ tr.state \in Live /\ b.en \in [Players -> EntryType]
  BY DEF Batch
<1>2. tr \in TournamentType
  BY <1>1 DEF Sound
<1>3. tr.matches_completed + 1 \in Nat
  <2>1. tr.matches_completed \in Nat
    BY <1>2 DEF TournamentType
  <2> QED
    BY <2>1
<1>4. score[1] \in Nat /\ score[2] \in Nat
  OBVIOUS
<1> HIDE DEF pair, tr
<1>5. sums \in Seq(Nat) /\ Len(sums) = Len(tr.scores)
  <2>1. tr.scores \in Seq(Nat)
    BY <1>2 DEF TournamentType
  <2>2. /\ AddScore(tr.scores, pair[1], score[1]) \in Seq(Nat)
        /\ Len(AddScore(tr.scores, pair[1], score[1])) = Len(tr.scores)
    BY <1>4, <2>1, AddScoreType
  <2> QED
    BY <1>4, <2>2, AddScoreType
<1>6. AddResult(AddResult(b.en, pa, score[1]), pb, score[2]) \in [Players -> EntryType]
  <2>1. AddResult(b.en, pa, score[1]) \in [Players -> EntryType]
    BY <1>1, <1>4, AddResultType
  <2> QED
    BY <1>4, <2>1, AddResultType
<1> HIDE DEF sums
<1>7. /\ new.tr = done \/ new.tr = [done EXCEPT !.scores = sums]
      /\ new.en \in [Players -> EntryType]
  <2>1. CASE Skipped(tr, pair)
    <3>1. new = [tr |-> done, en |-> b.en]
      BY <2>1 DEF PlayMatch, tr, pair
    <3> QED
      BY <1>1, <3>1
  <2>2. CASE ~Skipped(tr, pair)
    <3>1. done.scores = tr.scores
      BY <1>2 DEF TournamentType
    <3>2. new = [tr |-> [done EXCEPT !.scores = sums],
                 en |-> AddResult(AddResult(b.en, pa, score[1]), pb, score[2])]
      BY <2>2, <3>1 DEF PlayMatch, tr, pair, sums
    <3> QED
      BY <1>6, <3>2
  <2> QED
    BY <2>1, <2>2
<1> HIDE DEF new
<1>8. /\ new.tr \in TournamentType /\ new.tr.pool = tr.pool /\ new.tr.stake = tr.stake
      /\ new.tr.participant_count = tr.participant_count
      /\ new.tr.entries_remaining = tr.entries_remaining
      /\ new.tr.lamports = tr.lamports /\ new.tr.players = tr.players
      /\ new.tr.state = tr.state
      /\ new.tr.scores \in {tr.scores, sums}
  <2> DEFINE m == tr.matches_completed + 1
  <2>1. \/ new.tr = [tr EXCEPT !.matches_completed = m]
        \/ new.tr = [tr EXCEPT !.matches_completed = m, !.scores = sums]
    BY <1>7
  <2>2. m \in Nat
    BY <1>3
  <2> HIDE DEF m
  <2>3. CountedOnly(new.tr, tr, sums)
    BY ONLY <1>2, <1>5, <2>1, <2>2, SkippedCounted, PlayedCounted
  <2> QED
    BY ONLY <2>3 DEF CountedOnly
<1>9. Sound(new.tr)
  <2>1. Len(new.tr.scores) = Len(tr.scores)
    BY <1>5, <1>8
  <2> QED
    BY <1>1, <1>8, <2>1, SameCustody
<1>10. Batch(new)
  BY <1>1, <1>7, <1>8, <1>9 DEF Batch
<1> QED
  BY <1>10 DEF new

\* So does the whole loop of RunMatches.
LEMMA PlayBatchKeeps ==
    ASSUME NEW b, Batch(b), NEW n \in Nat, NEW score \in [1..n -> MatchScores]
    PROVE  Batch(PlayBatch(b, score))
<1>1. ASSUME NEW c, Batch(c), NEW j \in 1..5
      PROVE  Batch(Played(c, j, score))
  <2>1. CASE j \in DOMAIN score
    <3>1. score[j] \in Nat \X Nat
      BY <2>1, ArgumentsAssumption
    <3> QED
      BY <1>1, <2>1, <3>1, PlayMatchKeeps DEF Played
  <2>2. CASE j \notin DOMAIN score
    BY <1>1, <2>2 DEF Played
  <2> QED
    BY <2>1, <2>2
<1> DEFINE b1 == Played(b, 1, score)
           b2 == Played(b1, 2, score)
           b3 == Played(b2, 3, score)
           b4 == Played(b3, 4, score)
           b5 == Played(b4, 5, score)
<1>2. Batch(b1)
  BY <1>1
<1> HIDE DEF b1
<1>3. Batch(b2)
  BY <1>1, <1>2
<1> HIDE DEF b2
<1>4. Batch(b3)
  BY <1>1, <1>3
<1> HIDE DEF b3
<1>5. Batch(b4)
  BY <1>1, <1>4
<1> HIDE DEF b4
<1>6. Batch(b5)
  BY <1>1, <1>5
<1> QED
  BY <1>6 DEF PlayBatch, b1, b2, b3, b4

-----------------------------------------------------------------------------
(***************************************************************************)
(* Settlement and payout                                                   *)
(***************************************************************************)
LEMMA ShareNat ==
    ASSUME NEW tr \in TournamentType, tr.winner_count > 0
    PROVE  Share(tr) \in Nat
<1>1. tr.winner_pool \in Nat /\ tr.winner_count \in Nat
  BY DEF TournamentType
<1> QED
  BY <1>1, DivMulLe DEF Share

\* What can be paid out of an account is no more than it holds.
LEMMA SpendableBound ==
    ASSUME NEW tr, tr.lamports \in Int, Len(tr.players) \in Nat
    PROVE  /\ Spendable(tr) \in Nat
           /\ tr.lamports >= 0 => Spendable(tr) <= tr.lamports
<1>1. MinBalance(Len(tr.players)) \in Nat
  BY RentNat
<1> QED
  BY <1>1 DEF Spendable, Greater

\* A claimed share leaves the tournament sound.
LEMMA ClaimedSound ==
    ASSUME NEW tr, Sound(tr), tr.state = "Payout", tr.winner_count > 0,
           tr.entries_remaining > 0, RentExempt(tr, tr.lamports - Share(tr))
    PROVE  Sound(Claimed(tr))
<1> DEFINE new == Claimed(tr)
<1>1. tr \in TournamentType /\ Len(tr.scores) = Len(tr.players)
  BY DEF Sound
<1>2. /\ tr.lamports \in Nat /\ tr.claims_processed \in Nat
      /\ tr.entries_remaining \in Nat /\ Len(tr.players) \in Nat
  BY <1>1, Fields
<1>3. Share(tr) \in Nat /\ MinBalance(Len(tr.players)) \in Nat
  BY <1>1, <1>2, ShareNat, RentNat
<1>4. /\ tr.lamports - Share(tr) \in Nat /\ tr.claims_processed + 1 \in Nat
      /\ tr.entries_remaining - 1 \in Nat
  BY <1>2, <1>3, SMTT(60) DEF RentExempt
<1>5. new \in TournamentType
  BY <1>1, <1>4 DEF Claimed, TournamentType
<1>6. new.state = "Payout" /\ new.scores = tr.scores /\ new.players = tr.players
  BY <1>1 DEF Claimed, TournamentType
<1> HIDE DEF new
<1>7. Sound(new)
  BY <1>1, <1>5, <1>6, PastCustody
<1> QED
  BY <1>7 DEF new

\* The transfer that closes an entry never overdraws the tournament.
LEMMA ClosingTransferBound ==
    ASSUME NEW tr \in TournamentType, NEW en
    PROVE  ClosingTransfer(tr, en) \in Nat /\ ClosingTransfer(tr, en) <= tr.lamports
<1>1. tr.lamports \in Nat /\ Len(tr.players) \in Nat /\ tr.winner_count \in Nat
  BY Fields
<1>2. Spendable(tr) \in Nat /\ Spendable(tr) <= tr.lamports
  BY <1>1, SpendableBound
<1>3. CASE IsWinner(tr, en)
  <2>1. Share(tr) \in Nat
    BY <1>3, ShareNat DEF IsWinner
  <2> QED
    BY <1>1, <1>2, <1>3, <2>1 DEF ClosingTransfer, Lesser
<1>4. CASE ~IsWinner(tr, en)
  BY <1>1, <1>4 DEF ClosingTransfer
<1> QED
  BY <1>3, <1>4

\* Closing an entry leaves the tournament sound.
LEMMA EntryClosedSound ==
    ASSUME NEW tr, Sound(tr), tr.state = "Payout", tr.entries_remaining > 0, NEW en
    PROVE  Sound(EntryClosed(tr, en))
<1> DEFINE new == EntryClosed(tr, en)
<1> DEFINE claims == IF IsWinner(tr, en) /\ ~Expired(tr) THEN tr.claims_processed + 1
                     ELSE tr.claims_processed
<1>1. tr \in TournamentType /\ Len(tr.scores) = Len(tr.players)
  BY DEF Sound
<1>2. /\ tr.lamports \in Nat /\ tr.claims_processed \in Nat /\ tr.entries_remaining \in Nat
  BY <1>1, Fields
<1>3. ClosingTransfer(tr, en) \in Nat /\ ClosingTransfer(tr, en) <= tr.lamports
  BY <1>1, ClosingTransferBound
<1>4. tr.lamports - ClosingTransfer(tr, en) \in Nat /\ tr.entries_remaining - 1 \in Nat
  BY <1>2, <1>3
<1>5. claims \in Nat
  BY <1>2
<1> HIDE DEF claims
<1>6. new = [tr EXCEPT !.lamports = tr.lamports - ClosingTransfer(tr, en),
                       !.claims_processed = claims,
                       !.entries_remaining = tr.entries_remaining - 1]
  BY DEF EntryClosed, claims
<1> HIDE DEF new
<1>7. new \in TournamentType
  BY ONLY <1>1, <1>4, <1>5, <1>6 DEF TournamentType
<1>8. new.state = "Payout" /\ new.scores = tr.scores /\ new.players = tr.players
  BY <1>1, <1>6 DEF TournamentType
<1>9. Sound(new)
  BY <1>1, <1>7, <1>8, PastCustody
<1> QED
  BY <1>9 DEF new

\* The costs the settlement deducts are a natural number.
LEMMA FinalCostsNat ==
    ASSUME NEW tr \in TournamentType, config \in ConfigType
    PROVE  FinalCosts(tr) \in Nat
<1>1. /\ tr.operator_costs \in Nat /\ tr.entries_remaining \in Nat
      /\ config.operator_tx_fee \in Nat
  BY DEF TournamentType, ConfigType
<1>2. tr.entries_remaining + 1 \in Nat
  BY <1>1
<1>3. (tr.entries_remaining + 1) * config.operator_tx_fee \in Nat
  BY <1>1, <1>2, MulStep
<1> QED
  BY <1>1, <1>3 DEF FinalCosts

\* The threshold is a score, and with participants left somebody reaches it, so
\* the division into shares is defined.
LEMMA ThresholdReached ==
    ASSUME NEW tr, Sound(tr), NEW threshold \in WinningThreshold(tr)
    PROVE  /\ threshold \in Nat
           /\ Cardinality(Reaching(tr, threshold)) \in Nat
           /\ tr.participant_count # 0 => Cardinality(Reaching(tr, threshold)) >= 1
<1>1. /\ tr \in TournamentType /\ Len(tr.scores) = Len(tr.players)
  BY DEF Sound
<1>2. /\ tr.scores \in Seq(Nat) /\ Len(tr.players) \in Nat /\ tr.participant_count \in Nat
  BY <1>1, Fields
<1>3. IsFiniteSet(Reaching(tr, threshold))
  <2>1. IsFiniteSet(Slots(tr))
    BY <1>2, FS_Interval DEF Slots
  <2>2. Reaching(tr, threshold) \subseteq Slots(tr)
    BY DEF Reaching, ActiveSlots
  <2> QED
    BY <2>1, <2>2, FS_Subset
<1>4. Cardinality(Reaching(tr, threshold)) \in Nat
  BY <1>3, FS_CardinalityType
<1>5. CASE tr.participant_count = 0
  BY <1>4, <1>5 DEF WinningThreshold
<1>6. CASE tr.participant_count # 0
  <2> DEFINE target == Greater(1, CeilDiv(tr.participant_count, 4))
  <2>1. target \in Nat /\ target >= 1
    <3>1. CeilDiv(tr.participant_count, 4) \in Nat
      BY <1>2 DEF CeilDiv
    <3> QED
      BY <3>1 DEF Greater
  <2> HIDE DEF target
  <2>2. /\ threshold \in {tr.scores[i + 1] : i \in ActiveSlots(tr)}
        /\ Cardinality(Reaching(tr, threshold)) >= target
    BY <1>6 DEF WinningThreshold, target
  <2>3. PICK i \in ActiveSlots(tr) : threshold = tr.scores[i + 1]
    BY <2>2
  <2>4. i + 1 \in 1..Len(tr.scores)
    BY <1>1, <1>2 DEF ActiveSlots, Slots
  <2>5. threshold \in Nat
    BY <1>2, <2>3, <2>4
  <2>6. Cardinality(Reaching(tr, threshold)) >= 1
    BY <1>4, <2>1, <2>2
  <2> QED
    BY <1>4, <2>5, <2>6
<1> QED
  BY <1>5, <1>6

\* min and saturating_sub stay in the naturals.
LEMMA LesserMonus ==
    \A a, b \in Nat : Lesser(a, b) \in Nat /\ Monus(a, b) \in Nat /\ Lesser(a, b) <= b
  BY DEF Lesser, Monus, Greater

\* The amounts the settlement computes are natural numbers.
LEMMA SettlementType ==
    ASSUME NEW tr, Sound(tr), config \in ConfigType,
           NEW threshold \in WinningThreshold(tr)
    PROVE  Settlement(tr, threshold) \in
               [winners : Nat, winner_pool : Nat, fees : Nat, reimbursed : Nat]
<1> DEFINE costs == FinalCosts(tr)
<1>1. tr \in TournamentType
  BY DEF Sound
<1>2. /\ tr.pool \in Nat /\ tr.house_fee_bps \in Nat /\ tr.lamports \in Nat
      /\ Len(tr.players) \in Nat
  BY <1>1, Fields
<1>3. costs \in Nat
  BY <1>1, FinalCostsNat
<1>4. Spendable(tr) \in Nat
  BY <1>2, SpendableBound
<1> HIDE DEF costs
<1>5. CASE tr.participant_count = 0
  <2> DEFINE paid == Lesser(costs, Spendable(tr))
  <2>1. paid \in Nat /\ paid <= Spendable(tr)
    BY <1>3, <1>4, LesserMonus
  <2>2. Spendable(tr) - paid \in Nat
    BY <1>4, <2>1
  <2>3. Settlement(tr, threshold) =
            [winners |-> 0, winner_pool |-> 0,
             fees |-> Spendable(tr) - paid, reimbursed |-> paid]
    BY <1>5 DEF Settlement, costs
  <2> HIDE DEF paid
  <2> QED
    BY <2>1, <2>2, <2>3
<1>6. CASE tr.participant_count # 0
  <2> DEFINE winners    == Cardinality(Reaching(tr, threshold))
             house_fee  == (tr.pool * tr.house_fee_bps) \div 10000
             raw        == Lesser(Monus(Monus(tr.pool, house_fee), costs), Spendable(tr))
             per_winner == raw \div winners
             fee_total  == house_fee + (raw - per_winner * winners)
             left       == [tr EXCEPT !.lamports = @ - fee_total]
  <2>1. winners \in Nat /\ winners > 0
    BY <1>6, ThresholdReached
  <2>2. house_fee \in Nat
    <3>1. tr.pool * tr.house_fee_bps \in Nat
      BY <1>2, MulStep
    <3> QED
      BY <3>1, DivMulLe
  <2> HIDE DEF winners, house_fee
  <2>3. raw \in Nat
    BY <1>2, <1>3, <1>4, <2>2, LesserMonus
  <2> HIDE DEF raw
  <2>4. per_winner \in Nat /\ per_winner * winners <= raw
    BY <2>1, <2>3, DivMulLe
  <2> HIDE DEF per_winner
  <2>5. per_winner * winners \in Nat
    BY <2>1, <2>4, MulStep
  <2>6. fee_total \in Nat
    BY <2>2, <2>3, <2>4, <2>5
  <2> HIDE DEF fee_total
  <2>7. Spendable(left) \in Nat
    <3>1. left.lamports = tr.lamports - fee_total /\ left.players = tr.players
      BY <1>1 DEF TournamentType
    <3>2. left.lamports \in Int /\ Len(left.players) \in Nat
      BY <1>2, <2>6, <3>1
    <3> HIDE DEF left
    <3> QED
      BY <3>2, SpendableBound
  <2> HIDE DEF left
  <2>8. Lesser(costs, Spendable(left)) \in Nat
    BY <1>3, <2>7, LesserMonus
  <2>9. Settlement(tr, threshold) =
            [winners |-> winners, winner_pool |-> per_winner * winners,
             fees |-> fee_total, reimbursed |-> Lesser(costs, Spendable(left))]
    BY <1>6 DEF Settlement, costs, winners, house_fee, raw, per_winner, fee_total, left
  <2> QED
    BY <2>1, <2>5, <2>6, <2>8, <2>9
<1> QED
  BY <1>5, <1>6

\* The finalised tournament is well typed, and past the states Custody is about.
LEMMA FinalizedSound ==
    ASSUME NEW tr, Sound(tr), config \in ConfigType, now \in Nat,
           NEW threshold \in WinningThreshold(tr),
           RentExempt(tr, tr.lamports - Settlement(tr, threshold).fees
                              - Settlement(tr, threshold).reimbursed)
    PROVE  Sound(Finalized(tr, threshold))
<1> DEFINE new == Finalized(tr, threshold)
<1> DEFINE s == Settlement(tr, threshold)
<1>1. tr \in TournamentType /\ Len(tr.scores) = Len(tr.players)
  BY DEF Sound
<1>2. tr.lamports \in Nat /\ Len(tr.players) \in Nat
  BY <1>1, Fields
<1>3. /\ s.winners \in Nat /\ s.winner_pool \in Nat
      /\ s.fees \in Nat /\ s.reimbursed \in Nat
  BY SettlementType
<1>4. threshold \in Nat /\ FinalCosts(tr) \in Nat
  BY <1>1, ThresholdReached, FinalCostsNat
<1>5. tr.lamports - s.fees - s.reimbursed \in Nat
  <2>1. MinBalance(Len(tr.players)) \in Nat
    BY <1>2, RentNat
  <2>2. tr.lamports - s.fees - s.reimbursed >= MinBalance(Len(tr.players))
    BY DEF RentExempt
  <2> HIDE DEF s
  <2> QED
    BY <1>2, <1>3, <2>1, <2>2
<1>6. new = [tr EXCEPT !.state = "Payout", !.operator_costs = FinalCosts(tr),
                       !.min_winning_score = threshold, !.winner_count = s.winners,
                       !.winner_pool = s.winner_pool, !.payout_started_at = now,
                       !.lamports = tr.lamports - s.fees - s.reimbursed]
  BY DEF Finalized
<1> HIDE DEF new, s
<1>7. new \in TournamentType
  <2>1. "Payout" \in States
    BY DEF States
  <2> QED
    BY ONLY <1>1, <1>3, <1>4, <1>5, <1>6, <2>1, now \in Nat DEF TournamentType
<1>8. new.state = "Payout" /\ new.scores = tr.scores /\ new.players = tr.players
  BY <1>1, <1>6 DEF TournamentType
<1>9. Sound(new)
  BY <1>1, <1>7, <1>8, PastCustody
<1> QED
  BY <1>9 DEF new

-----------------------------------------------------------------------------
(***************************************************************************)
(* Updates of the state                                                    *)
(***************************************************************************)
LEMMA TournamentUpdate ==
    ASSUME TournamentsSound, NEW t \in TournamentIds, NEW new, Sound(new),
           tournament' = [tournament EXCEPT ![t] = new]
    PROVE  TournamentsSound'
<1>1. new \in TournamentType
  BY DEF Sound
<1>2. tournament' \in [TournamentIds -> TournamentType]
  BY <1>1 DEF TournamentsSound
<1>3. ASSUME NEW u \in TournamentIds PROVE Sound(tournament'[u])
  <2>1. tournament'[u] = new \/ tournament'[u] = tournament[u]
    BY DEF TournamentsSound
  <2> QED
    BY <2>1 DEF TournamentsSound
<1> QED
  BY <1>2, <1>3 DEF TournamentsSound

\* Changing one entry keeps the table of entries well typed.
LEMMA EntryUpdate ==
    ASSUME EntriesTyped, NEW t \in TournamentIds, NEW p \in Players,
           NEW en \in EntryType, entry' = [entry EXCEPT ![t][p] = en]
    PROVE  EntriesTyped'
  BY DEF EntriesTyped

\* Changing one wallet keeps the table of wallets well typed.
LEMMA WalletUpdate ==
    ASSUME wallet \in [Wallets -> Nat], NEW w \in Wallets, NEW x,
           wallet[w] + x \in Nat, wallet' = [wallet EXCEPT ![w] = wallet[w] + x]
    PROVE  wallet' \in [Wallets -> Nat]
  OBVIOUS

\* The absent entry is well typed.
LEMMA NoEntryType == NoEntry \in EntryType
<1>1. (CHOOSE c \in Commitments : TRUE) \in Commitments
  BY ActorsAssumption
<1> QED
  BY <1>1 DEF NoEntry, EntryType, Custom

\* Crediting collected fees to the Config keeps them backed by its lamports.
LEMMA CollectedKeeps ==
    ASSUME config \in ConfigType, FeesBacked, NEW amount \in Nat
    PROVE  /\ Collected(config, amount) \in ConfigType
           /\ Collected(config, amount).initialized = config.initialized
           /\ config.initialized =>
                  Collected(config, amount).lamports =
                      ConfigRent + Collected(config, amount).accumulated_fees
<1>1. config.accumulated_fees \in Nat /\ config.lamports \in Nat /\ ConfigRent \in Nat
  BY AmountsAssumption DEF ConfigType
<1>2. config.accumulated_fees + amount \in Nat /\ config.lamports + amount \in Nat
  BY <1>1
<1>3. /\ Collected(config, amount) \in ConfigType
      /\ Collected(config, amount).initialized = config.initialized
      /\ Collected(config, amount).lamports = config.lamports + amount
      /\ Collected(config, amount).accumulated_fees = config.accumulated_fees + amount
  BY <1>2 DEF Collected, ConfigType
<1>4. config.initialized => config.lamports + amount = ConfigRent + (config.accumulated_fees + amount)
  BY <1>1 DEF FeesBacked
<1> QED
  BY <1>3, <1>4

-----------------------------------------------------------------------------
(***************************************************************************)
(* Each instruction preserves the invariant                                *)
(***************************************************************************)
LEMMA InitIInv == Init => IInv
<1> SUFFICES ASSUME Init PROVE IInv
  OBVIOUS
<1>1. NoConfig \in ConfigType
  <2>1. (CHOOSE o \in Operators : TRUE) \in Operators
    BY ActorsAssumption
  <2>2. U16Max \in Nat /\ MaxTournamentId \in Nat
    BY AmountsAssumption
  <2> QED
    BY <2>1, <2>2 DEF NoConfig, ConfigType, TournamentIds
<1>2. FeesBacked
  BY DEF Init, FeesBacked, NoConfig
<1>3. TournamentsSound
  BY NoTournamentSound DEF Init, TournamentsSound, Sound
<1>4. EntriesTyped
  BY NoEntryType DEF Init, EntriesTyped
<1>5. now \in Nat /\ wallet \in [Wallets -> Nat]
  BY AmountsAssumption DEF Init
<1> QED
  BY <1>1, <1>2, <1>3, <1>4, <1>5 DEF Init, IInv

\* The clock touches no account. From here on: one lemma per action of Next.
LEMMA TickIInv == IInv /\ Tick => IInv'
<1> SUFFICES ASSUME IInv, Tick PROVE IInv'
  OBVIOUS
<1>1. now' \in Nat
  BY DEF IInv, Tick
<1> QED
  BY <1>1 DEF IInv, Tick, FeesBacked, TournamentsSound, EntriesTyped

\* initialize_config creates the Config and tournament 0.
LEMMA InitializeConfigIInv ==
    ASSUME IInv, NEW params \in InitParams, InitializeConfig(params)
    PROVE  IInv'
<1>1. params \in InitParam
  BY ArgumentsAssumption
<1>2. ConfigRent \in Nat /\ BaseRent \in Nat /\ MaxTournamentId \in Nat
  BY AmountsAssumption
<1>3. /\ params.operator \in Operators /\ params.stake \in Nat
      /\ params.min_participants \in Nat /\ params.max_participants \in 0..U16Max
      /\ params.registration_duration \in Int /\ params.matches_per_player \in Nat
      /\ params.reveal_duration \in Int
  BY <1>1 DEF InitParam
<1>4. params.registration_duration \in Nat /\ params.reveal_duration \in Nat
  BY <1>3 DEF InitializeConfig
<1>5. config' \in ConfigType
  BY <1>2, <1>3, <1>4 DEF InitializeConfig, ConfigType, TournamentIds
<1>6. FeesBacked'
  BY <1>2 DEF InitializeConfig, FeesBacked
<1>7. TournamentsSound'
  <2>1. now \in Nat /\ TournamentsSound /\ 0 \in TournamentIds
    BY <1>2 DEF IInv, TournamentIds
  <2>2. Sound(NewTournament(config'))
    BY <1>5, <2>1, NewTournamentSound
  <2>3. tournament' = [tournament EXCEPT ![0] = NewTournament(config')]
    BY DEF InitializeConfig
  <2> QED
    BY ONLY <2>1, <2>2, <2>3, TournamentUpdate
<1>8. wallet' \in [Wallets -> Nat]
  <2>1. Admin \in Wallets /\ wallet[Admin] \in Nat
    BY DEF IInv, Wallets
  <2>2. wallet[Admin] - ConfigRent - BaseRent \in Nat
    BY <1>2, <2>1 DEF InitializeConfig
  <2> QED
    BY <2>2 DEF IInv, InitializeConfig
<1> QED
  BY <1>5, <1>6, <1>7, <1>8 DEF IInv, InitializeConfig, EntriesTyped

\* An optional argument replaces a field by a value of the same type.
LEMMA UpdatedIn ==
    ASSUME NEW S, NEW option \in SUBSET S, NEW current \in S
    PROVE  Updated(option, current) \in S
  BY DEF Updated

\* update_config changes parameters, never fees or lamports.
LEMMA UpdateConfigIInv ==
    ASSUME IInv, NEW params \in ConfigUpdates, UpdateConfig(params)
    PROVE  IInv'
<1> DEFINE min == Updated(params.min_participants, config.min_participants)
           new == [config EXCEPT
              !.operator = Updated(params.operator, @),
              !.house_fee_bps = Updated(params.house_fee_bps, @),
              !.stake = Updated(params.stake, @),
              !.min_participants = min,
              !.max_participants = Updated(params.max_participants, @),
              !.registration_duration = Updated(params.registration_duration, @),
              !.matches_per_player = Updated(params.matches_per_player, @),
              !.reveal_duration = Updated(params.reveal_duration, @),
              !.operator_tx_fee = Updated(params.operator_tx_fee, @)]
<1>1. params \in ConfigUpdate /\ config \in ConfigType
  BY ArgumentsAssumption DEF IInv
<1>2. /\ params.operator \in SUBSET Operators /\ params.house_fee_bps \in SUBSET Nat
      /\ params.stake \in SUBSET Nat /\ params.min_participants \in SUBSET Nat
      /\ params.max_participants \in SUBSET (0..U16Max)
      /\ params.matches_per_player \in SUBSET Nat
      /\ params.registration_duration \in SUBSET Int
      /\ params.reveal_duration \in SUBSET Int /\ params.operator_tx_fee \in SUBSET Nat
  BY <1>1 DEF ConfigUpdate
<1>3. /\ params.registration_duration \in SUBSET Nat
      /\ params.reveal_duration \in SUBSET Nat
  BY <1>2 DEF UpdateConfig
<1>4. /\ config.operator \in Operators /\ config.house_fee_bps \in Nat
      /\ config.stake \in Nat /\ config.min_participants \in Nat
      /\ config.max_participants \in 0..U16Max /\ config.matches_per_player \in Nat
      /\ config.registration_duration \in Nat /\ config.reveal_duration \in Nat
      /\ config.operator_tx_fee \in Nat
  BY <1>1 DEF ConfigType
<1>5. /\ Updated(params.operator, config.operator) \in Operators
      /\ Updated(params.house_fee_bps, config.house_fee_bps) \in Nat
      /\ Updated(params.stake, config.stake) \in Nat
      /\ min \in Nat
      /\ Updated(params.max_participants, config.max_participants) \in 0..U16Max
      /\ Updated(params.registration_duration, config.registration_duration) \in Nat
      /\ Updated(params.matches_per_player, config.matches_per_player) \in Nat
      /\ Updated(params.reveal_duration, config.reveal_duration) \in Nat
      /\ Updated(params.operator_tx_fee, config.operator_tx_fee) \in Nat
  BY ONLY <1>2, <1>3, <1>4, UpdatedIn
<1>6. new \in ConfigType
  BY ONLY <1>1, <1>5 DEF ConfigType
<1>7. /\ config' = new
      /\ UNCHANGED <<now, tournament, entry, wallet>>
  BY DEF UpdateConfig
<1>8. FeesBacked'
  <2>1. /\ new.initialized = config.initialized /\ new.lamports = config.lamports
        /\ new.accumulated_fees = config.accumulated_fees
    BY <1>1 DEF ConfigType
  <2> HIDE DEF new
  <2> QED
    BY <1>7, <2>1 DEF IInv, FeesBacked
<1> HIDE DEF new
<1> QED
  BY <1>6, <1>7, <1>8 DEF IInv, TournamentsSound, EntriesTyped

\* withdraw_fees takes the same amount from the fees and the lamports.
LEMMA WithdrawFeesIInv == IInv /\ WithdrawFees => IInv'
<1> SUFFICES ASSUME IInv, WithdrawFees PROVE IInv'
  OBVIOUS
<1> DEFINE amount == Lesser(config.accumulated_fees, Monus(config.lamports, ConfigRent))
<1>1. config \in ConfigType /\ FeesBacked
  BY DEF IInv
<1>2. config.accumulated_fees \in Nat /\ config.lamports \in Nat /\ ConfigRent \in Nat
  BY <1>1, AmountsAssumption DEF ConfigType
<1>3. amount \in Nat /\ amount <= config.accumulated_fees /\ amount <= config.lamports
  BY <1>2 DEF Lesser, Monus, Greater
<1>4. /\ config' = [config EXCEPT !.accumulated_fees = config.accumulated_fees - amount,
                                  !.lamports = config.lamports - amount]
      /\ wallet' = [wallet EXCEPT ![Admin] = wallet[Admin] + amount]
      /\ UNCHANGED <<now, tournament, entry>>
  BY DEF WithdrawFees
<1> HIDE DEF amount
<1>5. config.accumulated_fees - amount \in Nat /\ config.lamports - amount \in Nat
  BY <1>2, <1>3
<1>6. config' \in ConfigType
  BY <1>1, <1>4, <1>5 DEF ConfigType
<1>7. FeesBacked'
  <2>1. /\ config'.initialized = config.initialized
        /\ config'.lamports = config.lamports - amount
        /\ config'.accumulated_fees = config.accumulated_fees - amount
    BY <1>1, <1>4 DEF ConfigType
  <2>2. config.initialized =>
            config.lamports - amount = ConfigRent + (config.accumulated_fees - amount)
    BY <1>1, <1>2, <1>3 DEF FeesBacked
  <2> QED
    BY <2>1, <2>2 DEF FeesBacked
<1>8. wallet' \in [Wallets -> Nat]
  <2>1. Admin \in Wallets /\ wallet \in [Wallets -> Nat] /\ wallet[Admin] \in Nat
    BY DEF IInv, Wallets
  <2>2. wallet[Admin] + amount \in Nat
    BY <1>3, <2>1
  <2> QED
    BY <1>4, <2>1, <2>2
<1> QED
  BY <1>4, <1>6, <1>7, <1>8 DEF IInv, TournamentsSound, EntriesTyped

\* The facts about one player and one tournament that the instructions use.
LEMMA Given ==
    ASSUME IInv, NEW t \in TournamentIds, NEW p \in Players
    PROVE  /\ Sound(tournament[t]) /\ tournament[t] \in TournamentType
           /\ tournament[t].stake \in Nat
           /\ entry[t][p] \in EntryType /\ entry[t][p].index \in Nat
           /\ wallet[p] \in Nat /\ p \in Wallets /\ wallet \in [Wallets -> Nat]
           /\ EntryRent \in Nat /\ TournamentsSound /\ EntriesTyped
           /\ config \in ConfigType /\ FeesBacked /\ now \in Nat
<1>1. Sound(tournament[t]) /\ tournament[t] \in TournamentType
  BY DEF IInv, TournamentsSound
<1>2. entry[t][p] \in EntryType
  BY DEF IInv, EntriesTyped
<1>3. tournament[t].stake \in Nat /\ entry[t][p].index \in Nat
  BY <1>1, <1>2 DEF TournamentType, EntryType
<1>4. p \in Wallets /\ wallet \in [Wallets -> Nat] /\ wallet[p] \in Nat
  BY DEF IInv, Wallets
<1> QED
  BY <1>1, <1>2, <1>3, <1>4, AmountsAssumption DEF IInv

\* enter_tournament.
LEMMA EnterTournamentIInv ==
    ASSUME IInv, NEW p \in Players, NEW t \in TournamentIds,
           NEW commitment \in Commitments, EnterTournament(p, t, commitment)
    PROVE  IInv'
<1> DEFINE tr == tournament[t]
           en == [NoEntry EXCEPT !.open = TRUE, !.index = NextIndex(tr),
                                 !.commitment = commitment]
<1>1. /\ Sound(tr) /\ tr \in TournamentType /\ tr.stake \in Nat /\ wallet[p] \in Nat
      /\ p \in Wallets /\ wallet \in [Wallets -> Nat] /\ EntryRent \in Nat
      /\ TournamentsSound /\ EntriesTyped
  BY Given
<1>2. /\ tr.state = "Registration"
      /\ wallet[p] >= ReallocTopUp(tr) + EntryRent + tr.stake
      /\ entry' = [entry EXCEPT ![t][p] = en]
      /\ tournament' = [tournament EXCEPT ![t] = Entered(tr, p)]
      /\ wallet' = [wallet EXCEPT ![p] = wallet[p] - ReallocTopUp(tr) - EntryRent - tr.stake]
      /\ UNCHANGED <<now, config>>
  BY DEF EnterTournament
<1> HIDE DEF tr
<1>3. TournamentsSound'
  <2>1. Sound(Entered(tr, p))
    BY <1>1, <1>2, EnteredSound DEF Live
  <2> QED
    BY <1>1, <1>2, <2>1, TournamentUpdate
<1>4. EntriesTyped'
  <2>1. NextIndex(tr) \in Nat
    BY <1>1, Fields DEF NextIndex
  <2>2. en \in EntryType
    BY <2>1, NoEntryType DEF EntryType
  <2> HIDE DEF en
  <2> QED
    BY <1>1, <1>2, <2>2, EntryUpdate
<1>5. wallet' \in [Wallets -> Nat]
  <2>1. ReallocTopUp(tr) \in Nat
    BY <1>1, TopUp
  <2>2. wallet[p] - ReallocTopUp(tr) - EntryRent - tr.stake \in Nat
    BY <1>1, <1>2, <2>1
  <2> QED
    BY <1>1, <1>2, <2>2
<1> QED
  BY <1>2, <1>3, <1>4, <1>5 DEF IInv, FeesBacked

\* reveal_strategy.
LEMMA RevealStrategyIInv ==
    ASSUME IInv, NEW p \in Players, NEW t \in TournamentIds, NEW secret \in Secrets,
           RevealStrategy(p, t, secret)
    PROVE  IInv'
<1> DEFINE tr == tournament[t]
           en == entry[t][p]
<1>1. /\ Sound(tr) /\ en \in EntryType /\ en.index \in Nat
      /\ TournamentsSound /\ EntriesTyped
  BY Given
<1>2. /\ tr.state = "Reveal"
      /\ secret.strategy = Custom => secret.bytecode \in ValidBytecodes
      /\ entry' = [entry EXCEPT ![t][p] = RevealedEntry(en, secret)]
      /\ tournament' = [tournament EXCEPT ![t] = Revealed(tr, en.index, secret.strategy)]
      /\ UNCHANGED <<now, config, wallet>>
  BY DEF RevealStrategy
<1> HIDE DEF tr, en
<1>3. secret.strategy \in 0..Custom
  BY ArgumentsAssumption
<1>4. TournamentsSound'
  <2>1. Sound(Revealed(tr, en.index, secret.strategy))
    BY <1>1, <1>2, <1>3, RevealedSound DEF Live
  <2> QED
    BY <1>1, <1>2, <2>1, TournamentUpdate
<1>5. EntriesTyped'
  <2>1. RevealedEntry(en, secret) \in EntryType
    BY <1>1, <1>2, <1>3 DEF RevealedEntry, EntryType
  <2> QED
    BY <1>1, <1>2, <2>1, EntryUpdate
<1> QED
  BY <1>2, <1>4, <1>5 DEF IInv, FeesBacked

\* forfeit_unrevealed.
LEMMA ForfeitUnrevealedIInv ==
    ASSUME IInv, NEW p \in Players, NEW t \in TournamentIds, NEW byte \in SlotBytes,
           ForfeitUnrevealed(t, p, byte)
    PROVE  IInv'
<1> DEFINE tr == tournament[t]
           en == entry[t][p]
           strategy == ForfeitStrategy(byte)
<1>1. /\ Sound(tr) /\ en \in EntryType /\ en.index \in Nat /\ config \in ConfigType
      /\ TournamentsSound /\ EntriesTyped
  BY Given
<1>2. /\ tr.state = "Reveal"
      /\ entry' = [entry EXCEPT ![t][p] =
                      [en EXCEPT !.strategy = strategy, !.revealed = TRUE]]
      /\ tournament' = [tournament EXCEPT ![t] = Revealed(Charged(tr), en.index, strategy)]
      /\ UNCHANGED <<now, config, wallet>>
  BY DEF ForfeitUnrevealed
<1>3. strategy \in 0..Custom
  BY ArgumentsAssumption DEF ForfeitStrategy, Custom
<1> HIDE DEF tr, en, strategy
<1>4. TournamentsSound'
  <2>1. Sound(Charged(tr)) /\ Charged(tr).state \in Live
    BY <1>1, <1>2, ChargedSound DEF Live
  <2>2. Sound(Revealed(Charged(tr), en.index, strategy))
    BY <1>1, <1>3, <2>1, RevealedSound
  <2> QED
    BY <1>1, <1>2, <2>2, TournamentUpdate
<1>5. EntriesTyped'
  <2>1. [en EXCEPT !.strategy = strategy, !.revealed = TRUE] \in EntryType
    BY <1>1, <1>3 DEF EntryType
  <2> QED
    BY <1>1, <1>2, <2>1, EntryUpdate
<1> QED
  BY <1>2, <1>4, <1>5 DEF IInv, FeesBacked

\* claim_refund.
LEMMA ClaimRefundIInv ==
    ASSUME IInv, NEW p \in Players, NEW t \in TournamentIds, ClaimRefund(p, t)
    PROVE  IInv'
<1> DEFINE tr == tournament[t]
           en == entry[t][p]
<1>1. /\ Sound(tr) /\ tr \in TournamentType /\ tr.stake \in Nat /\ en.index \in Nat
      /\ wallet[p] \in Nat /\ p \in Wallets /\ wallet \in [Wallets -> Nat]
      /\ EntryRent \in Nat /\ TournamentsSound /\ EntriesTyped
  BY Given
<1>2. /\ tr.state = "Registration" /\ tr.participant_count > 0
      /\ RentExempt(tr, tr.lamports - tr.stake)
      /\ tournament' = [tournament EXCEPT ![t] = Refunded(tr, en.index)]
      /\ entry' = [entry EXCEPT ![t][p] = NoEntry]
      /\ wallet' = [wallet EXCEPT ![p] = wallet[p] + tr.stake + EntryRent]
      /\ UNCHANGED <<now, config>>
  BY DEF ClaimRefund
<1> HIDE DEF tr, en
<1>3. TournamentsSound'
  <2>1. tr.participant_count >= 1
    <3>1. tr.participant_count \in Nat
      BY <1>1 DEF TournamentType
    <3> QED
      BY <1>2, <3>1
  <2>2. Sound(Refunded(tr, en.index))
    BY <1>1, <1>2, <2>1, RefundedSound DEF Live
  <2> QED
    BY <1>1, <1>2, <2>2, TournamentUpdate
<1>4. EntriesTyped'
  BY <1>1, <1>2, NoEntryType, EntryUpdate
<1>5. wallet' \in [Wallets -> Nat]
  <2>1. wallet[p] + tr.stake + EntryRent \in Nat
    BY <1>1
  <2> QED
    BY <1>1, <1>2, <2>1
<1> QED
  BY <1>2, <1>3, <1>4, <1>5 DEF IInv, FeesBacked

\* claim_payout.
LEMMA ClaimPayoutIInv ==
    ASSUME IInv, NEW p \in Players, NEW t \in TournamentIds, ClaimPayout(p, t)
    PROVE  IInv'
<1> DEFINE tr == tournament[t]
<1>1. /\ Sound(tr) /\ tr \in TournamentType
      /\ wallet[p] \in Nat /\ p \in Wallets /\ wallet \in [Wallets -> Nat]
      /\ EntryRent \in Nat /\ TournamentsSound /\ EntriesTyped
  BY Given
<1>2. /\ tr.state = "Payout" /\ tr.winner_count > 0 /\ tr.entries_remaining > 0
      /\ RentExempt(tr, tr.lamports - Share(tr))
      /\ tournament' = [tournament EXCEPT ![t] = Claimed(tr)]
      /\ entry' = [entry EXCEPT ![t][p] = NoEntry]
      /\ wallet' = [wallet EXCEPT ![p] = wallet[p] + Share(tr) + EntryRent]
      /\ UNCHANGED <<now, config>>
  BY DEF ClaimPayout
<1> HIDE DEF tr
<1>3. TournamentsSound'
  <2>1. Sound(Claimed(tr))
    BY <1>1, <1>2, ClaimedSound
  <2> QED
    BY <1>1, <1>2, <2>1, TournamentUpdate
<1>4. EntriesTyped'
  BY <1>1, <1>2, NoEntryType, EntryUpdate
<1>5. wallet' \in [Wallets -> Nat]
  <2>1. Share(tr) \in Nat
    BY <1>1, <1>2, ShareNat
  <2>2. wallet[p] + Share(tr) + EntryRent \in Nat
    BY <1>1, <2>1
  <2> QED
    BY <1>1, <1>2, <2>2
<1> QED
  BY <1>2, <1>3, <1>4, <1>5 DEF IInv, FeesBacked

\* close_registration.
LEMMA CloseRegistrationIInv ==
    ASSUME IInv, NEW t \in TournamentIds, CloseRegistration(t)
    PROVE  IInv'
<1> DEFINE tr  == tournament[t]
           mid == Charged(tr)
           new == [mid EXCEPT !.state = "Reveal", !.reveal_ends = now + tr.reveal_duration]
<1>1. Sound(tr) /\ tr \in TournamentType /\ TournamentsSound /\ config \in ConfigType
  BY DEF IInv, TournamentsSound
<1>2. /\ tr.state = "Registration"
      /\ tournament' = [tournament EXCEPT ![t] = new]
      /\ UNCHANGED <<now, config, entry, wallet>>
  BY DEF CloseRegistration
<1>3. now + tr.reveal_duration \in Nat
  <2>1. now \in Nat /\ tr.reveal_duration \in Nat
    BY <1>1 DEF IInv, TournamentType
  <2> QED
    BY <2>1
<1>4. Sound(mid) /\ mid.state \in Live
  BY <1>1, <1>2, ChargedSound DEF Live
<1> HIDE DEF mid
<1>5. mid \in TournamentType
  BY <1>4 DEF Sound
<1>6. /\ new \in TournamentType /\ new.pool = mid.pool /\ new.stake = mid.stake
      /\ new.participant_count = mid.participant_count
      /\ new.entries_remaining = mid.entries_remaining
      /\ new.lamports = mid.lamports /\ new.players = mid.players
      /\ new.scores = mid.scores
  <2>1. "Reveal" \in States
    BY DEF States
  <2> QED
    BY ONLY <1>3, <1>5, <2>1 DEF TournamentType
<1> HIDE DEF new
<1>7. Sound(new)
  BY <1>4, <1>6, SameCustody
<1>8. TournamentsSound'
  BY <1>1, <1>2, <1>7, TournamentUpdate
<1> QED
  BY <1>2, <1>8 DEF IInv, FeesBacked, EntriesTyped

\* close_reveal with an even number of participants.
LEMMA CloseRevealEvenIInv ==
    ASSUME IInv, NEW t \in TournamentIds, NEW seed \in Seeds, CloseRevealEven(t, seed)
    PROVE  IInv'
<1> DEFINE tr == tournament[t]
<1>1. Sound(tr) /\ TournamentsSound /\ config \in ConfigType
  BY DEF IInv, TournamentsSound
<1>2. /\ tr.state = "Reveal"
      /\ tournament' = [tournament EXCEPT ![t] = Started(Charged(tr), seed)]
      /\ UNCHANGED <<now, config, entry, wallet>>
  BY DEF CloseRevealEven, RevealClosable
<1> HIDE DEF tr
<1>3. Sound(Charged(tr)) /\ Charged(tr).state \in Live
  BY <1>1, <1>2, ChargedSound DEF Live
<1>4. Sound(Started(Charged(tr), seed))
  BY <1>3, StartedSound
<1>5. TournamentsSound'
  BY <1>1, <1>2, <1>4, TournamentUpdate
<1> QED
  BY <1>2, <1>5 DEF IInv, FeesBacked, EntriesTyped

\* The refund of the odd player out keeps the tournament sound.
LEMMA LastRefundedSound ==
    ASSUME NEW tr, Sound(tr), tr.state \in Live, NEW index \in Nat,
           tr.participant_count >= 1, tr.reveals_completed >= 1,
           RentExempt(tr, tr.lamports - tr.stake)
    PROVE  Sound(LastRefunded(tr, index)) /\ LastRefunded(tr, index).state \in Live
<1> DEFINE mid == Refunded(tr, index)
           new == [mid EXCEPT !.reveals_completed = mid.reveals_completed - 1]
<1>1. /\ Sound(mid) /\ mid.state \in Live
      /\ mid.reveals_completed = tr.reveals_completed
  BY RefundedSound
<1>2. LastRefunded(tr, index) = new
  BY DEF LastRefunded
<1> HIDE DEF mid
<1>3. tr.reveals_completed \in Nat /\ mid \in TournamentType
  BY <1>1 DEF Sound, TournamentType
<1>4. mid.reveals_completed - 1 \in Nat
  BY <1>1, <1>3
<1>5. /\ new \in TournamentType /\ new.pool = mid.pool /\ new.stake = mid.stake
      /\ new.participant_count = mid.participant_count
      /\ new.entries_remaining = mid.entries_remaining
      /\ new.lamports = mid.lamports /\ new.players = mid.players
      /\ new.scores = mid.scores /\ new.state = mid.state
  BY <1>3, <1>4 DEF TournamentType
<1> HIDE DEF new
<1>6. Sound(new)
  BY <1>1, <1>5, SameCustody
<1> QED
  BY <1>1, <1>2, <1>5, <1>6

\* close_reveal with an odd number: the last player is refunded.
LEMMA CloseRevealOddIInv ==
    ASSUME IInv, NEW t \in TournamentIds, NEW seed \in Seeds, NEW r \in TournamentIds,
           CloseRevealOdd(t, seed, r)
    PROVE  IInv'
<1> DEFINE tr == tournament[t]
           mid == Charged(tr)
<1>1. /\ Sound(tr) /\ tr \in TournamentType /\ TournamentsSound /\ EntriesTyped
      /\ config \in ConfigType
  BY DEF IInv, TournamentsSound
<1>2. /\ tr.state = "Reveal" /\ tr.reveals_completed = tr.participant_count
      /\ tr.participant_count % 2 = 1
      /\ UNCHANGED <<now, config>>
  BY DEF CloseRevealOdd, RevealClosable
<1>3. PICK last \in LastActive(tr) :
          LET p == tr.players[last + 1]
          IN  /\ RentExempt(tr, tr.lamports - tr.stake)
              /\ tournament' = [tournament EXCEPT ![t] =
                    Started(LastRefunded(mid, last), seed)]
              /\ entry' = [entry EXCEPT ![r][p] = NoEntry]
              /\ wallet' = [wallet EXCEPT ![p] = wallet[p] + tr.stake + EntryRent]
  BY DEF CloseRevealOdd
<1> DEFINE p == tr.players[last + 1]
<1> HIDE DEF tr
<1>4. last \in Nat /\ p \in Players
  <2>1. last \in Slots(tr) /\ p # NoPlayer
    BY DEF LastActive, ActiveSlots
  <2>2. tr.players \in Seq(Players \cup {NoPlayer}) /\ Len(tr.players) \in Nat
    BY <1>1, Fields
  <2>3. last \in Nat /\ last + 1 \in 1..Len(tr.players)
    BY <2>1, <2>2 DEF Slots
  <2>4. p \in Players \cup {NoPlayer}
    BY <2>2, <2>3
  <2> QED
    BY <2>1, <2>3, <2>4
<1> HIDE DEF p
<1>5. tr.participant_count \in Nat /\ tr.stake \in Nat
  BY <1>1 DEF TournamentType
<1>6. tr.participant_count >= 1 /\ tr.reveals_completed >= 1
  BY <1>2, <1>5
<1>7. /\ Sound(mid) /\ mid.state \in Live /\ mid.participant_count >= 1
      /\ mid.reveals_completed >= 1 /\ RentExempt(mid, mid.lamports - mid.stake)
  <2>1. /\ Sound(mid) /\ mid.state = tr.state /\ mid.stake = tr.stake
        /\ mid.participant_count = tr.participant_count
        /\ mid.reveals_completed = tr.reveals_completed
        /\ mid.lamports = tr.lamports /\ mid.players = tr.players
    BY <1>1, <1>2, ChargedSound DEF Live
  <2>2. RentExempt(mid, mid.lamports - mid.stake)
    BY <1>3, <2>1 DEF RentExempt
  <2> QED
    BY <1>2, <1>6, <2>1, <2>2 DEF Live
<1> HIDE DEF mid
<1>8. Sound(Started(LastRefunded(mid, last), seed))
  <2>1. Sound(LastRefunded(mid, last)) /\ LastRefunded(mid, last).state \in Live
    BY <1>4, <1>7, LastRefundedSound
  <2> QED
    BY <2>1, StartedSound
<1>9. TournamentsSound'
  BY <1>1, <1>3, <1>8, TournamentUpdate
<1>10. EntriesTyped'
  <2>1. entry' = [entry EXCEPT ![r][p] = NoEntry]
    BY <1>3 DEF p
  <2> QED
    BY <1>1, <1>4, <2>1, NoEntryType, EntryUpdate
<1>11. wallet' \in [Wallets -> Nat]
  <2>1. wallet \in [Wallets -> Nat] /\ wallet[p] \in Nat /\ EntryRent \in Nat
    BY <1>4, AmountsAssumption DEF IInv, Wallets
  <2>2. wallet[p] + tr.stake + EntryRent \in Nat
    BY <1>5, <2>1
  <2>3. wallet' = [wallet EXCEPT ![p] = wallet[p] + tr.stake + EntryRent]
    BY <1>3 DEF p
  <2> QED
    BY <2>1, <2>2, <2>3
<1> QED
  BY <1>2, <1>9, <1>10, <1>11 DEF IInv, FeesBacked

\* run_matches.
LEMMA RunMatchesIInv ==
    ASSUME IInv, NEW t \in TournamentIds, RunMatches(t)
    PROVE  IInv'
<1> DEFINE tr == tournament[t]
           count == Lesser(MatchesPerTx, tr.matches_total - tr.matches_completed)
           b(score) == PlayBatch([tr |-> Charged(tr), en |-> entry[t]], score)
<1>1. /\ Sound(tr) /\ tr \in TournamentType /\ TournamentsSound /\ EntriesTyped
      /\ config \in ConfigType /\ entry[t] \in [Players -> EntryType]
  BY DEF IInv, TournamentsSound, EntriesTyped
<1>2. /\ tr.state = "Running" /\ count > 0
      /\ UNCHANGED <<now, config, wallet>>
  BY DEF RunMatches
<1>3. PICK score \in [1..count -> MatchScores] :
          /\ tournament' = [tournament EXCEPT ![t] = b(score).tr]
          /\ entry' = [entry EXCEPT ![t] = b(score).en]
  BY DEF RunMatches
<1>4. count \in Nat
  <2>1. tr.matches_total \in Nat /\ tr.matches_completed \in Nat
    BY <1>1 DEF TournamentType
  <2>2. count \in Int
    BY <2>1, AmountsAssumption DEF Lesser
  <2> QED
    BY <1>2, <2>2
<1> HIDE DEF count, tr
<1>5. Batch([tr |-> Charged(tr), en |-> entry[t]])
  <2>1. Sound(Charged(tr)) /\ Charged(tr).state \in Live
    BY <1>1, <1>2, ChargedSound DEF Live
  <2> QED
    BY <1>1, <2>1 DEF Batch
<1>6. Batch(b(score))
  BY <1>4, <1>5, PlayBatchKeeps
<1> HIDE DEF b
<1>7. Sound(b(score).tr) /\ b(score).en \in [Players -> EntryType]
  BY <1>6 DEF Batch
<1>8. TournamentsSound'
  BY <1>1, <1>3, <1>7, TournamentUpdate
<1>9. EntriesTyped'
  BY <1>1, <1>3, <1>7 DEF EntriesTyped
<1> QED
  BY <1>2, <1>8, <1>9 DEF IInv, FeesBacked

\* finalize_tournament: settlement and the successor tournament.
LEMMA FinalizeTournamentIInv ==
    ASSUME IInv, NEW t \in TournamentIds, FinalizeTournament(t)
    PROVE  IInv'
<1> DEFINE tr   == tournament[t]
           next == config.current_tournament_id + 1
           op   == config.operator
           s(x) == Settlement(tr, x)
           fresh == NewTournament(config)
<1>1. /\ Sound(tr) /\ TournamentsSound /\ EntriesTyped /\ config \in ConfigType
      /\ FeesBacked /\ now \in Nat /\ wallet \in [Wallets -> Nat]
  BY DEF IInv, TournamentsSound
<1>2. /\ next <= MaxTournamentId /\ wallet[op] >= BaseRent
      /\ UNCHANGED <<now, entry>>
  BY DEF FinalizeTournament
<1>3. PICK threshold \in WinningThreshold(tr) :
          /\ RentExempt(tr, tr.lamports - s(threshold).fees - s(threshold).reimbursed)
          /\ tournament' = [tournament EXCEPT ![t] = Finalized(tr, threshold),
                                              ![next] = fresh]
          /\ config' = [Collected(config, s(threshold).fees) EXCEPT
                            !.current_tournament_id = next]
          /\ wallet' = [wallet EXCEPT ![op] =
                            wallet[op] - BaseRent + s(threshold).reimbursed]
  BY DEF FinalizeTournament
<1> DEFINE last == Finalized(tr, threshold)
<1>4. /\ s(threshold).fees \in Nat /\ s(threshold).reimbursed \in Nat
  BY <1>1, SettlementType
<1>5. next \in TournamentIds /\ op \in Operators
  <2>1. config.current_tournament_id \in 0..MaxTournamentId /\ op \in Operators
    BY <1>1 DEF ConfigType, TournamentIds
  <2> QED
    BY <1>2, <2>1, AmountsAssumption DEF TournamentIds
<1>6. Sound(last) /\ Sound(fresh)
  BY <1>1, <1>3, FinalizedSound, NewTournamentSound
<1> HIDE DEF tr, next, op, s, fresh, last
<1>7. TournamentsSound'
  <2>1. last \in TournamentType /\ fresh \in TournamentType
    BY <1>6 DEF Sound
  <2>2. tournament' = [tournament EXCEPT ![t] = last, ![next] = fresh]
    BY <1>3 DEF last
  <2>3. tournament' \in [TournamentIds -> TournamentType]
    BY <1>1, <2>1, <2>2 DEF TournamentsSound
  <2>4. ASSUME NEW u \in TournamentIds PROVE Sound(tournament'[u])
    <3>1. \/ tournament'[u] = last \/ tournament'[u] = fresh
          \/ tournament'[u] = tournament[u]
      BY <1>1, <2>2 DEF TournamentsSound
    <3> QED
      BY <1>1, <1>6, <3>1 DEF TournamentsSound
  <2> QED
    BY <2>3, <2>4 DEF TournamentsSound
<1>8. config' \in ConfigType /\ FeesBacked'
  <2> DEFINE paid == Collected(config, s(threshold).fees)
  <2>1. /\ paid \in ConfigType /\ paid.initialized = config.initialized
        /\ config.initialized => paid.lamports = ConfigRent + paid.accumulated_fees
    BY <1>1, <1>4, CollectedKeeps
  <2>2. config' = [paid EXCEPT !.current_tournament_id = next]
    BY <1>3
  <2> HIDE DEF paid
  <2>3. /\ config' \in ConfigType /\ config'.initialized = paid.initialized
        /\ config'.lamports = paid.lamports
        /\ config'.accumulated_fees = paid.accumulated_fees
    BY <1>5, <2>1, <2>2 DEF ConfigType
  <2> QED
    BY <2>1, <2>3 DEF FeesBacked
<1>9. wallet' \in [Wallets -> Nat]
  <2>1. BaseRent \in Nat /\ wallet[op] \in Nat
    BY <1>1, <1>5, AmountsAssumption DEF Wallets
  <2>2. wallet[op] - BaseRent + s(threshold).reimbursed \in Nat
    BY <1>2, <1>4, <2>1
  <2> QED
    BY <1>1, <1>3, <2>2
<1> QED
  BY <1>1, <1>2, <1>7, <1>8, <1>9 DEF IInv, EntriesTyped

\* close_entry.
LEMMA CloseEntryIInv ==
    ASSUME IInv, NEW t \in TournamentIds, NEW p \in Players, CloseEntry(t, p)
    PROVE  IInv'
<1> DEFINE tr == tournament[t]
           en == entry[t][p]
           transfer == ClosingTransfer(tr, en)
           toFees   == IF Expired(tr) THEN transfer ELSE 0
<1>1. /\ Sound(tr) /\ tr \in TournamentType /\ wallet[p] \in Nat
      /\ wallet \in [Wallets -> Nat] /\ EntryRent \in Nat
      /\ TournamentsSound /\ EntriesTyped /\ config \in ConfigType /\ FeesBacked
  BY Given
<1>2. /\ tr.state = "Payout" /\ tr.entries_remaining > 0
      /\ tournament' = [tournament EXCEPT ![t] = EntryClosed(tr, en)]
      /\ entry' = [entry EXCEPT ![t][p] = NoEntry]
      /\ config' = Collected(config, toFees)
      /\ wallet' = [wallet EXCEPT ![p] = wallet[p] + (transfer - toFees) + EntryRent]
      /\ UNCHANGED now
  BY DEF CloseEntry
<1>3. transfer \in Nat
  BY <1>1, ClosingTransferBound
<1> HIDE DEF tr, en, transfer
<1>4. toFees \in Nat /\ transfer - toFees \in Nat
  BY <1>3
<1> HIDE DEF toFees
<1>5. TournamentsSound'
  <2>1. Sound(EntryClosed(tr, en))
    BY <1>1, <1>2, EntryClosedSound
  <2> QED
    BY <1>1, <1>2, <2>1, TournamentUpdate
<1>6. EntriesTyped'
  BY <1>1, <1>2, NoEntryType, EntryUpdate
<1>7. config' \in ConfigType /\ FeesBacked'
  BY <1>1, <1>2, <1>4, CollectedKeeps DEF FeesBacked
<1>8. wallet' \in [Wallets -> Nat]
  <2>1. wallet[p] + (transfer - toFees) + EntryRent \in Nat
    BY <1>1, <1>4
  <2> QED
    BY <1>1, <1>2, <2>1
<1> QED
  BY <1>2, <1>5, <1>6, <1>7, <1>8 DEF IInv

\* close_tournament.
LEMMA CloseTournamentIInv ==
    ASSUME IInv, NEW t \in TournamentIds, CloseTournament(t)
    PROVE  IInv'
<1>1. /\ TournamentsSound /\ config \in ConfigType /\ FeesBacked
      /\ tournament[t] \in TournamentType
  BY DEF IInv, TournamentsSound
<1>2. tournament[t].lamports \in Nat
  BY <1>1 DEF TournamentType
<1>3. /\ config' = Collected(config, tournament[t].lamports)
      /\ tournament' = [tournament EXCEPT ![t] = NoTournament]
      /\ UNCHANGED <<now, entry, wallet>>
  BY DEF CloseTournament
<1>4. config' \in ConfigType /\ FeesBacked'
  BY <1>1, <1>2, <1>3, CollectedKeeps DEF FeesBacked
<1>5. TournamentsSound'
  BY <1>1, <1>3, NoTournamentSound, TournamentUpdate
<1> QED
  BY <1>3, <1>4, <1>5 DEF IInv, EntriesTyped

\* Every step keeps the inductive invariant.
LEMMA NextIInv == IInv /\ [Next]_vars => IInv'
<1> SUFFICES ASSUME IInv, [Next]_vars PROVE IInv'
  OBVIOUS
<1>1. CASE Tick
  BY <1>1, TickIInv
<1>2. CASE \E params \in InitParams : InitializeConfig(params)
  BY <1>2, InitializeConfigIInv
<1>3. CASE \E params \in ConfigUpdates : UpdateConfig(params)
  BY <1>3, UpdateConfigIInv
<1>4. CASE WithdrawFees
  BY <1>4, WithdrawFeesIInv
<1>5. ASSUME NEW t \in TournamentIds, NEW p \in Players, NEW commitment \in Commitments,
             EnterTournament(p, t, commitment)
      PROVE  IInv'
  BY <1>5, EnterTournamentIInv
<1>6. ASSUME NEW t \in TournamentIds, NEW p \in Players, NEW secret \in Secrets,
             RevealStrategy(p, t, secret)
      PROVE  IInv'
  BY <1>6, RevealStrategyIInv
<1>7. ASSUME NEW t \in TournamentIds, NEW p \in Players, ClaimRefund(p, t)
      PROVE  IInv'
  BY <1>7, ClaimRefundIInv
<1>8. ASSUME NEW t \in TournamentIds, NEW p \in Players, ClaimPayout(p, t)
      PROVE  IInv'
  BY <1>8, ClaimPayoutIInv
<1>9. ASSUME NEW t \in TournamentIds, NEW p \in Players, NEW byte \in SlotBytes,
             ForfeitUnrevealed(t, p, byte)
      PROVE  IInv'
  BY <1>9, ForfeitUnrevealedIInv
<1>10. ASSUME NEW t \in TournamentIds, NEW p \in Players, CloseEntry(t, p)
       PROVE  IInv'
  BY <1>10, CloseEntryIInv
<1>11. ASSUME NEW t \in TournamentIds, CloseRegistration(t) PROVE IInv'
  BY <1>11, CloseRegistrationIInv
<1>12. ASSUME NEW t \in TournamentIds, CloseReveal(t) PROVE IInv'
  <2>1. PICK seed \in Seeds :
            \/ CloseRevealEven(t, seed)
            \/ \E r \in (IF ForeignRefund THEN TournamentIds ELSE {t}) :
                   CloseRevealOdd(t, seed, r)
    BY <1>12 DEF CloseReveal
  <2>2. CASE CloseRevealEven(t, seed)
    BY <2>2, CloseRevealEvenIInv
  <2>3. CASE \E r \in (IF ForeignRefund THEN TournamentIds ELSE {t}) :
                 CloseRevealOdd(t, seed, r)
    <3>1. PICK r \in TournamentIds : CloseRevealOdd(t, seed, r)
      BY <2>3
    <3> QED
      BY <3>1, CloseRevealOddIInv
  <2> QED
    BY <2>1, <2>2, <2>3
<1>13. ASSUME NEW t \in TournamentIds, RunMatches(t) PROVE IInv'
  BY <1>13, RunMatchesIInv
<1>14. ASSUME NEW t \in TournamentIds, FinalizeTournament(t) PROVE IInv'
  BY <1>14, FinalizeTournamentIInv
<1>15. ASSUME NEW t \in TournamentIds, CloseTournament(t) PROVE IInv'
  BY <1>15, CloseTournamentIInv
<1>16. CASE UNCHANGED vars
  BY <1>16 DEF vars, IInv, FeesBacked, TournamentsSound, EntriesTyped
<1> QED
  BY <1>1, <1>2, <1>3, <1>4, <1>5, <1>6, <1>7, <1>8, <1>9, <1>10, <1>11, <1>12,
     <1>13, <1>14, <1>15, <1>16 DEF Next

-----------------------------------------------------------------------------
\* So it holds throughout every behaviour.
LEMMA SpecIInv == Spec => []IInv
  BY InitIInv, NextIInv, PTL DEF Spec

\* Every reachable state is type correct: no counter, pool or balance the
\* program subtracts from without a check goes below zero, for any number of
\* players, any stakes, fees, rents and any pairing function.
THEOREM TypeCorrect == Spec => []TypeOK
<1>1. IInv => TypeOK
  BY DEF IInv, TypeOK, TournamentsSound, EntriesTyped
<1> QED
  BY <1>1, SpecIInv, PTL

\* The fees that withdraw_fees may pay are always in the Config account.
THEOREM FeesAreBacked == Spec => []FeesBacked
<1>1. IInv => FeesBacked
  BY DEF IInv
<1> QED
  BY <1>1, SpecIInv, PTL

\* Up to its settlement a tournament account holds the stakes of its
\* participants and its rent minimum, and nothing beyond the two.
THEOREM StakesAreHeld == Spec => []StakesHeld
<1>1. IInv => StakesHeld
  BY DEF IInv, TournamentsSound, Sound, Custody, StakesHeld
<1> QED
  BY <1>1, SpecIInv, PTL

=============================================================================
