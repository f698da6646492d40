---------------------------- MODULE PayoutProofs ----------------------------
(***************************************************************************)
(* Proofs about the payout of a tournament: the winners finalize_tournament*)
(* counts by slot are those claim_payout and close_entry find by entry,    *)
(* each is counted once, and what the open ones are due exceeds what the   *)
(* account can pay by no more than the rent of its slots.                  *)
(*                                                                         *)
(* PayInv is the inductive invariant.  It is established by the settlement *)
(* (from CohInv: slots and entries agree when the matches end) and kept by *)
(* claims, by closed entries and by the passing of time.                   *)
(*                                                                         *)
(* Then about the lamports of all accounts together, which no step         *)
(* changes, and, last, about the promise of Escrow: the initial states map *)
(* to an initial state, and every instruction maps to a step of Escrow or  *)
(* to none.                                                                *)
(***************************************************************************)
EXTENDS CoherenceProofs, WellFoundedInduction

\* The owners of open entries at or above the threshold.
Winning(tr, en) == {p \in Players : en[p].open /\ en[p].score >= tr.min_winning_score}

Due(tr, en) == Cardinality(Winning(tr, en)) * Share(tr)

\* A settled tournament, at any time.
Settled(tr, en) ==
    /\ tr.winner_count >= 1
    /\ tr.claims_processed + Cardinality(Winning(tr, en)) <= tr.winner_count
    /\ tr.lamports >= MinBalance(Len(tr.players))
    /\ Due(tr, en) <= Spendable(tr) + Len(tr.players) * RentPerPlayer

\* And as long as claims are open.
Counted(tr, en) ==
    ~Expired(tr) => tr.claims_processed + Cardinality(Winning(tr, en)) = tr.winner_count

PayInv ==
    \A t \in TournamentIds :
        tournament[t].state = "Payout" =>
            Settled(tournament[t], entry[t]) /\ Counted(tournament[t], entry[t])

-----------------------------------------------------------------------------
(***************************************************************************)
(* The settlement                                                          *)
(***************************************************************************)
LEMMA WinningFinite ==
    ASSUME NEW tr, NEW en
    PROVE  IsFiniteSet(Winning(tr, en)) /\ Cardinality(Winning(tr, en)) \in Nat
<1>1. Winning(tr, en) \in SUBSET Players /\ IsFiniteSet(Players)
  BY ActorsAssumption DEF Winning
<1> QED
  BY <1>1, FS_Subset, FS_CardinalityType

\* One slot at or above the threshold for each open entry at or above it.
LEMMA WinnersByEntry ==
    ASSUME NEW tr \in TournamentType, NEW en \in [Players -> EntryType],
           Linked(tr, en), tr.state \in Live, NEW done, NEW threshold,
           done.min_winning_score = threshold
    PROVE  Cardinality(Winning(done, en)) = Cardinality(Reaching(tr, threshold))
<1> DEFINE W == Winning(done, en)
           R == Reaching(tr, threshold)
           f == [p \in W |-> en[p].index]
<1>1. ASSUME NEW p \in W
      PROVE  /\ en[p].index \in R
             /\ tr.players[en[p].index + 1] = p
  <2>1. p \in Players /\ en[p].open /\ en[p].score >= threshold
    BY DEF Winning
  <2>2. Owns(tr, en[p], p) /\ en[p].index \in ActiveSlots(tr)
    BY <2>1, OwnedActive
  <2> QED
    BY <2>1, <2>2 DEF Owns, Reaching
<1>2. ASSUME NEW i \in R
      PROVE  tr.players[i + 1] \in W /\ en[tr.players[i + 1]].index = i
  <2> DEFINE p == tr.players[i + 1]
  <2>1. i \in ActiveSlots(tr) /\ tr.scores[i + 1] >= threshold
    BY DEF Reaching
  <2>2. p \in Players /\ en[p].open /\ en[p].index = i
    BY <2>1, SlotPlayer DEF Linked
  <2>3. tr.scores[i + 1] = en[p].score
    BY <2>2 DEF Linked, Owns
  <2> QED
    BY <2>1, <2>2, <2>3 DEF Winning
<1> HIDE DEF W, R
<1>3. f \in Bijection(W, R)
  <2>1. f \in [W -> R]
    BY <1>1
  <2>2. \A p, q \in W : f[p] = f[q] => p = q
    BY <1>1
  <2>3. \A i \in R : \E p \in W : f[p] = i
    BY <1>2
  <2> QED
    BY <2>1, <2>2, <2>3 DEF Bijection, Injection, Surjection, IsInjective
<1>4. IsFiniteSet(W)
  BY WinningFinite DEF W
<1>5. ExistsBijection(W, R)
  BY <1>3 DEF ExistsBijection
<1> QED
  BY <1>4, <1>5, FS_Bijection DEF W, R

LEMMA SlotRent ==
    ASSUME NEW n \in Nat
    PROVE  /\ BaseRent \in Nat /\ n * RentPerPlayer \in Nat
           /\ MinBalance(n) \in Nat /\ MinBalance(n) = BaseRent + n * RentPerPlayer
<1>1. BaseRent \in Nat /\ RentPerPlayer \in Nat
  BY AmountsAssumption
<1>2. n * RentPerPlayer \in Nat
  BY ONLY <1>1, n \in Nat, MulStep
<1>3. MinBalance(n) = BaseRent + n * RentPerPlayer
  BY DEF MinBalance
<1> QED
  BY ONLY <1>1, <1>2, <1>3

LEMMA SettlementWinners ==
    ASSUME NEW tr, NEW threshold, tr.participant_count # 0
    PROVE  Settlement(tr, threshold).winners = Cardinality(Reaching(tr, threshold))
  BY DEF Settlement

\* The spendable lamports of an account at or above its rent minimum.
LEMMA SpendableAbove ==
    ASSUME NEW tr, tr.lamports \in Int, Len(tr.players) \in Nat,
           tr.lamports >= MinBalance(Len(tr.players))
    PROVE  Spendable(tr) = tr.lamports - MinBalance(Len(tr.players))
<1>1. MinBalance(Len(tr.players)) \in Nat
  BY ONLY Len(tr.players) \in Nat, RentNat
<1> QED
  BY <1>1 DEF Spendable, Greater

\* finalize_tournament.
LEMMA FinalizedSettled ==
    ASSUME NEW tr, NEW en \in [Players -> EntryType], Sound(tr), Coherent(tr, en),
           tr.state = "Running", Linked(tr, en), tr.house_fee_bps <= 10000,
           config \in ConfigType, now \in Nat, NEW threshold \in WinningThreshold(tr),
           RentExempt(tr, tr.lamports - Settlement(tr, threshold).fees
                              - Settlement(tr, threshold).reimbursed)
    PROVE  LET new == Finalized(tr, threshold)
           IN  /\ Settled(new, en)
               /\ new.claims_processed + Cardinality(Winning(new, en)) = new.winner_count
<1> DEFINE s == Settlement(tr, threshold)
           new == Finalized(tr, threshold)
           n == Len(tr.players)
<1>1. /\ tr \in TournamentType /\ tr.state \in Live /\ Custody(tr)
      /\ Phased(tr) /\ Scheduled(tr)
  BY DEF Sound, Coherent, Phased, Live
<1>2. /\ tr.claims_processed = 0 /\ tr.participant_count # 0
      /\ tr.lamports \in Nat /\ tr.pool \in Nat /\ n \in Nat
  <2>1. tr.participant_count \in Nat /\ tr.participant_count >= 2
    BY <1>1, Fields DEF Scheduled
  <2> QED
    BY <1>1, <2>1, Fields DEF Phased
<1>3. /\ new.min_winning_score = threshold /\ new.winner_count = s.winners
      /\ new.winner_pool = s.winner_pool /\ SameSlots(new, tr)
      /\ new.claims_processed = tr.claims_processed
      /\ new.lamports = tr.lamports - s.fees - s.reimbursed
  BY <1>1, FinalizedFields
<1>4. /\ s.winners = Cardinality(Reaching(tr, threshold))
      /\ s.winners \in Nat /\ s.winners >= 1
  BY <1>2, ThresholdReached, SettlementWinners
<1>5. /\ s.fees \in Nat /\ s.reimbursed \in Nat /\ s.winner_pool \in Nat
      /\ s.fees + s.reimbursed + s.winner_pool <= tr.pool
  <2>1. s \in [winners : Nat, winner_pool : Nat, fees : Nat, reimbursed : Nat]
    BY SettlementType
  <2>2. s.fees + s.reimbursed + s.winner_pool <= tr.pool
    BY <1>1, SettlementSum
  <2> QED
    BY <2>1, <2>2
<1> HIDE DEF new
<1>6. Cardinality(Winning(new, en)) = s.winners
  BY <1>1, <1>3, <1>4, WinnersByEntry
<1>7. /\ MinBalance(n) \in Nat /\ MinBalance(n) = BaseRent + n * RentPerPlayer
      /\ tr.lamports >= BaseRent + tr.pool
      /\ tr.lamports - s.fees - s.reimbursed >= MinBalance(n)
      /\ BaseRent \in Nat /\ n * RentPerPlayer \in Nat
  <2>1. /\ MinBalance(n) \in Nat /\ MinBalance(n) = BaseRent + n * RentPerPlayer
        /\ n * RentPerPlayer \in Nat /\ BaseRent \in Nat
    BY ONLY <1>2, SlotRent
  <2>2. tr.lamports - s.fees - s.reimbursed >= MinBalance(n)
    BY DEF RentExempt
  <2>3. tr.lamports >= BaseRent + tr.pool
    BY <1>1 DEF Custody
  <2> QED
    BY ONLY <2>1, <2>2, <2>3
<1>8. Len(new.players) = n
  BY <1>3 DEF SameSlots
<1> HIDE DEF s, n
<1>9. Spendable(new) = new.lamports - MinBalance(n) /\ new.lamports >= MinBalance(n)
  <2>1. new.lamports \in Int /\ new.lamports >= MinBalance(n)
    BY <1>2, <1>3, <1>5, <1>7
  <2> QED
    BY <1>2, <1>8, <2>1, SpendableAbove
<1>10. Due(new, en) <= s.winner_pool /\ Due(new, en) \in Nat
  <2> DEFINE q == s.winner_pool \div s.winners
  <2>1. q \in Nat /\ q * s.winners <= s.winner_pool
    <3>1. s.winner_pool \in Nat /\ s.winners \in Nat /\ s.winners > 0
      BY <1>4, <1>5
    <3> QED
      BY ONLY <3>1, DivMulLe
  <2>2. Due(new, en) = s.winners * q
    BY <1>3, <1>6 DEF Due, Share
  <2> HIDE DEF q
  <2>3. s.winners * q = q * s.winners /\ s.winners * q \in Nat
    BY <1>4, <2>1
  <2> QED
    BY <2>1, <2>2, <2>3
<1>11. Due(new, en) <= Spendable(new) + n * RentPerPlayer
  BY <1>2, <1>3, <1>5, <1>7, <1>9, <1>10
<1>12. new.claims_processed + Cardinality(Winning(new, en)) = new.winner_count
       /\ new.winner_count >= 1
  BY <1>2, <1>3, <1>4, <1>6
<1>13. Settled(new, en)
  <2>1. new.claims_processed + Cardinality(Winning(new, en)) <= new.winner_count
    BY <1>3, <1>4, <1>12
  <2> QED
    BY <1>8, <1>9, <1>11, <1>12, <2>1 DEF Settled
<1> QED
  BY <1>12, <1>13 DEF new

-----------------------------------------------------------------------------
(***************************************************************************)
(* Closing an entry in payout                                              *)
(***************************************************************************)
\* Closing an entry takes its owner out of the winners, if he is one.
LEMMA WinningClosed ==
    ASSUME NEW tr, NEW new, NEW en \in [Players -> EntryType], NEW p \in Players,
           en[p].open, new.min_winning_score = tr.min_winning_score
    PROVE  /\ Winning(new, [en EXCEPT ![p] = NoEntry]) = Winning(tr, en) \ {p}
           /\ p \in Winning(tr, en) <=> en[p].score >= tr.min_winning_score
<1> DEFINE after == [en EXCEPT ![p] = NoEntry]
<1>1. \A q \in Players : after[q] = IF q = p THEN NoEntry ELSE en[q]
  OBVIOUS
<1> HIDE DEF after
<1>2. Winning(new, after) = Winning(tr, en) \ {p}
  BY <1>1, NoEntryClosed DEF Winning
<1>3. p \in Winning(tr, en) <=> en[p].score >= tr.min_winning_score
  BY DEF Winning
<1> QED
  BY <1>2, <1>3 DEF after

\* x lamports leave the account with entry p: all of a winner's share, or as
\* much of it as the account can bear.
LEMMA PaidSettled ==
    ASSUME NEW tr \in TournamentType, NEW new \in TournamentType,
           NEW en \in [Players -> EntryType], NEW p \in Players, NEW x \in Nat,
           Settled(tr, en), en[p].open, SameResult(new, tr), SameSlots(new, tr),
           new.lamports = tr.lamports - x, x <= Spendable(tr),
           IF en[p].score >= tr.min_winning_score
           THEN /\ x <= Share(tr)
                /\ new.claims_processed \in {tr.claims_processed, tr.claims_processed + 1}
           ELSE x = 0 /\ new.claims_processed = tr.claims_processed
    PROVE  /\ Settled(new, [en EXCEPT ![p] = NoEntry])
           /\ /\ tr.claims_processed + Cardinality(Winning(tr, en)) = tr.winner_count
              /\ en[p].score >= tr.min_winning_score =>
                     new.claims_processed = tr.claims_processed + 1
              => new.claims_processed + Cardinality(Winning(new, [en EXCEPT ![p] = NoEntry]))
                     = new.winner_count
<1> DEFINE after == [en EXCEPT ![p] = NoEntry]
           n == Len(tr.players)
           all == Cardinality(Winning(tr, en))
           left == Cardinality(Winning(new, after))
           share == Share(tr)
           rent == n * RentPerPlayer
           wins == en[p].score >= tr.min_winning_score
<1>1. /\ tr.lamports \in Nat /\ n \in Nat /\ tr.winner_count \in Nat
      /\ tr.claims_processed \in Nat /\ tr.winner_count >= 1
      /\ tr.claims_processed + all <= tr.winner_count
      /\ tr.lamports >= MinBalance(n) /\ all * share <= Spendable(tr) + rent
  BY Fields DEF Settled, Due
<1>2. /\ new.winner_count = tr.winner_count /\ Len(new.players) = n
      /\ Share(new) = share
      /\ new.min_winning_score = tr.min_winning_score
  BY DEF SameResult, SameSlots, Share
<1>3. /\ all \in Nat /\ left \in Nat
      /\ wins => left = all - 1
      /\ ~wins => left = all
  <2>1. Winning(new, after) = Winning(tr, en) \ {p} /\ (p \in Winning(tr, en) <=> wins)
    BY <1>2, WinningClosed
  <2>2. IsFiniteSet(Winning(tr, en)) /\ all \in Nat /\ left \in Nat
    BY WinningFinite
  <2> HIDE DEF wins, after
  <2>3. wins => left = all - 1
    BY <2>1, <2>2, CountStep
  <2>4. ~wins => Winning(new, after) = Winning(tr, en)
    BY <2>1
  <2> QED
    BY <2>2, <2>3, <2>4
<1>4. share \in Nat /\ rent \in Nat /\ MinBalance(n) \in Nat
  <2>1. share \in Nat
    BY <1>1, ShareNat
  <2>2. rent \in Nat /\ MinBalance(n) \in Nat
    BY ONLY <1>1, SlotRent
  <2> QED
    BY ONLY <2>1, <2>2
<1>5. Spendable(tr) = tr.lamports - MinBalance(n)
  BY <1>1, SpendableAbove
<1> HIDE DEF after, n, all, left, share, rent, wins
<1>6. /\ new.lamports >= MinBalance(n)
      /\ Spendable(new) = Spendable(tr) - x /\ Spendable(tr) \in Int
  <2>1. new.lamports \in Int /\ new.lamports >= MinBalance(n)
    BY <1>1, <1>4, <1>5
  <2>2. Spendable(new) = new.lamports - MinBalance(n)
    BY <1>1, <1>2, <2>1, SpendableAbove
  <2> QED
    BY <1>1, <1>4, <1>5, <2>1, <2>2
<1>7. left * share <= Spendable(new) + rent
  <2>1. CASE wins
    <3>1. x <= share /\ left = all - 1 /\ all >= 1
      BY <1>3, <2>1 DEF wins, share
    <3>2. (all - 1) * share = all * share - share /\ all * share \in Nat
      BY <1>3, <1>4, <3>1, MulStep
    <3> QED
      BY <1>1, <1>4, <1>6, <3>1, <3>2
  <2>2. CASE ~wins
    <3>1. x = 0 /\ left = all
      BY <1>3, <2>2 DEF wins
    <3> QED
      BY <1>1, <1>6, <3>1
  <2> QED
    BY <2>1, <2>2
<1>8. new.claims_processed + left <= tr.winner_count
  <2>1. CASE wins
    <3>1. /\ new.claims_processed \in {tr.claims_processed, tr.claims_processed + 1}
          /\ left = all - 1
      BY <1>3, <2>1 DEF wins
    <3> QED
      BY <1>1, <1>3, <3>1
  <2>2. CASE ~wins
    <3>1. new.claims_processed = tr.claims_processed /\ left = all
      BY <1>3, <2>2 DEF wins
    <3> QED
      BY <1>1, <3>1
  <2> QED
    BY <2>1, <2>2
<1>9. ASSUME tr.claims_processed + all = tr.winner_count,
             wins => new.claims_processed = tr.claims_processed + 1
      PROVE  new.claims_processed + left = new.winner_count
  <2>1. CASE wins
    <3>1. left = all - 1 /\ new.claims_processed = tr.claims_processed + 1
      BY <1>3, <1>9, <2>1
    <3> QED
      BY <1>1, <1>2, <1>3, <1>9, <3>1
  <2>2. CASE ~wins
    <3>1. left = all /\ new.claims_processed = tr.claims_processed
      BY <1>3, <2>2 DEF wins
    <3> QED
      BY <1>2, <1>9, <3>1
  <2> QED
    BY <2>1, <2>2
<1>10. Settled(new, after)
  BY <1>1, <1>2, <1>6, <1>7, <1>8 DEF Settled, Due, left, n, share, rent
<1> QED
  BY <1>9, <1>10 DEF after, left, all, wins

-----------------------------------------------------------------------------
(***************************************************************************)
(* Every instruction keeps the settlement                                  *)
(***************************************************************************)
SettledNow(t) == Settled(tournament[t], entry[t]) /\ Counted(tournament[t], entry[t])

\* Time passes and tournaments that are not in payout change; one in payout
\* stays as it is or is accounted for.
LEMMA PayUpdate ==
    ASSUME IInv, PayInv, now' \in Nat, now' >= now,
           \A t \in TournamentIds :
               \/ tournament'[t].state # "Payout"
               \/ tournament'[t] = tournament[t] /\ entry'[t] = entry[t]
               \/ SettledNow(t)'
    PROVE  PayInv'
<1> SUFFICES ASSUME NEW t \in TournamentIds, tournament'[t].state = "Payout"
             PROVE  SettledNow(t)'
  BY DEF PayInv, SettledNow
<1>1. CASE tournament'[t] = tournament[t] /\ entry'[t] = entry[t]
  <2>1. Settled(tournament[t], entry[t]) /\ Counted(tournament[t], entry[t])
    BY <1>1 DEF PayInv
  <2>2. Settled(tournament[t], entry[t])'
    BY <1>1, <2>1 DEF Settled, Due, Winning, Share, Spendable, MinBalance
  <2>3. tournament[t].payout_started_at + ClaimExpiry \in Nat /\ now \in Nat
    BY Fields, AmountsAssumption DEF IInv, TournamentsSound
  <2>4. Counted(tournament[t], entry[t])'
    BY <1>1, <2>1, <2>3 DEF Counted, Expired, Winning
  <2> QED
    BY <2>2, <2>4 DEF SettledNow
<1> QED
  BY <1>1

\* An instruction on a tournament before its payout.
LEMMA LivePay ==
    ASSUME IInv, PayInv, now' = now, NEW t \in TournamentIds, NEW new,
           tournament' = [tournament EXCEPT ![t] = new], new.state # "Payout",
           \A u \in TournamentIds \ {t} : entry'[u] = entry[u]
    PROVE  PayInv'
<1>1. tournament \in [TournamentIds -> TournamentType] /\ now \in Nat
  BY DEF IInv, TournamentsSound
<1>2. ASSUME NEW u \in TournamentIds
      PROVE  \/ tournament'[u].state # "Payout"
             \/ tournament'[u] = tournament[u] /\ entry'[u] = entry[u]
  BY <1>1
<1> QED
  BY <1>1, <1>2, PayUpdate

\* An instruction that closes entry p of a tournament in payout.
LEMMA PaidPay ==
    ASSUME IInv, PayInv, now' = now, NEW t \in TournamentIds, NEW p \in Players,
           NEW new \in TournamentType, NEW x \in Nat,
           tournament' = [tournament EXCEPT ![t] = new],
           entry' = [entry EXCEPT ![t][p] = NoEntry],
           tournament[t].state = "Payout", entry[t][p].open,
           SameResult(new, tournament[t]), SameSlots(new, tournament[t]),
           new.lamports = tournament[t].lamports - x, x <= Spendable(tournament[t]),
           IF entry[t][p].score >= tournament[t].min_winning_score
           THEN /\ x <= Share(tournament[t])
                /\ new.claims_processed = IF Expired(tournament[t])
                                          THEN tournament[t].claims_processed
                                          ELSE tournament[t].claims_processed + 1
           ELSE x = 0 /\ new.claims_processed = tournament[t].claims_processed
    PROVE  PayInv'
<1> DEFINE tr == tournament[t]
           en == entry[t]
           after == [en EXCEPT ![p] = NoEntry]
<1>1. /\ tournament \in [TournamentIds -> TournamentType] /\ now \in Nat
      /\ tr \in TournamentType /\ en \in [Players -> EntryType]
  BY DEF IInv, TournamentsSound, EntriesTyped
<1>2. Settled(tr, en) /\ Counted(tr, en)
  BY DEF PayInv
<1>3. entry'[t] = after /\ \A u \in TournamentIds \ {t} : entry'[u] = entry[u]
  BY EntryAt
<1>4. tournament'[t] = new
  BY <1>1
<1>5. /\ Settled(new, after)
      /\ ~Expired(tr) => new.claims_processed + Cardinality(Winning(new, after))
                             = new.winner_count
  <2>1. IF en[p].score >= tr.min_winning_score
        THEN /\ x <= Share(tr)
             /\ new.claims_processed \in {tr.claims_processed, tr.claims_processed + 1}
        ELSE x = 0 /\ new.claims_processed = tr.claims_processed
    OBVIOUS
  <2>2. ~Expired(tr) =>
          /\ tr.claims_processed + Cardinality(Winning(tr, en)) = tr.winner_count
          /\ en[p].score >= tr.min_winning_score =>
                 new.claims_processed = tr.claims_processed + 1
    BY <1>2 DEF Counted
  <2>3. /\ en[p].open /\ SameResult(new, tr) /\ SameSlots(new, tr)
        /\ new.lamports = tr.lamports - x /\ x <= Spendable(tr)
    OBVIOUS
  <2> HIDE DEF tr, en
  <2> QED
    BY <1>1, <1>2, <2>1, <2>2, <2>3, PaidSettled
<1>6. Expired(new)' = Expired(tr)
  BY DEF Expired, SameResult
<1>7. SettledNow(t)'
  <2>1. Settled(tournament[t], entry[t])'
    BY <1>3, <1>4, <1>5 DEF Settled, Due, Winning, Share, Spendable, MinBalance
  <2>2. Counted(tournament[t], entry[t])'
    BY <1>3, <1>4, <1>5, <1>6 DEF Counted, Winning, Expired
  <2> QED
    BY <2>1, <2>2 DEF SettledNow
<1>8. ASSUME NEW u \in TournamentIds, u # t
      PROVE  tournament'[u] = tournament[u] /\ entry'[u] = entry[u]
  BY <1>1, <1>3, <1>8
<1> QED
  BY <1>1, <1>7, <1>8, PayUpdate

LEMMA ClaimPayoutPay ==
    ASSUME IInv, IInv', PayInv, NEW p \in Players, NEW t \in TournamentIds,
           ClaimPayout(p, t)
    PROVE  PayInv'
<1> DEFINE tr == tournament[t]
           new == Claimed(tr)
           x == Share(tr)
<1>1. /\ entry[t][p].open /\ tr.state = "Payout" /\ ~Expired(tr)
      /\ entry[t][p].score >= tr.min_winning_score /\ tr.winner_count > 0
      /\ RentExempt(tr, tr.lamports - x)
      /\ tournament' = [tournament EXCEPT ![t] = new]
      /\ entry' = [entry EXCEPT ![t][p] = NoEntry] /\ now' = now
  BY DEF ClaimPayout
<1>2. tr \in TournamentType /\ tournament \in [TournamentIds -> TournamentType]
  BY DEF IInv, TournamentsSound
<1>3. new \in TournamentType
  <2>1. tournament'[t] = new
    BY <1>1, <1>2
  <2> QED
    BY <2>1 DEF IInv, TournamentsSound
<1>4. /\ SameResult(new, tr) /\ SameSlots(new, tr) /\ new.lamports = tr.lamports - x
      /\ new.claims_processed = tr.claims_processed + 1
  BY <1>2, ClaimedFields
<1>5. x \in Nat /\ tr.lamports \in Nat /\ Len(tr.players) \in Nat
  BY <1>1, <1>2, Fields, ShareNat
<1>6. x <= Spendable(tr) /\ x <= Share(tr)
  <2>1. MinBalance(Len(tr.players)) \in Nat
    BY ONLY <1>5, SlotRent
  <2>2. tr.lamports - x >= MinBalance(Len(tr.players))
    BY <1>1 DEF RentExempt
  <2>3. Spendable(tr) = tr.lamports - MinBalance(Len(tr.players))
    BY ONLY <1>5, <2>1, <2>2, SpendableAbove
  <2> HIDE DEF tr, x
  <2> QED
    BY ONLY <1>5, <2>1, <2>2, <2>3 DEF x
<1> HIDE DEF new, x
<1> QED
  BY <1>1, <1>3, <1>4, <1>5, <1>6, PaidPay

LEMMA CloseEntryPay ==
    ASSUME IInv, IInv', PayInv, NEW p \in Players, NEW t \in TournamentIds,
           CloseEntry(t, p)
    PROVE  PayInv'
<1> DEFINE tr == tournament[t]
           en == entry[t][p]
           new == EntryClosed(tr, en)
           x == ClosingTransfer(tr, en)
<1>1. /\ en.open /\ tr.state = "Payout"
      /\ tournament' = [tournament EXCEPT ![t] = new]
      /\ entry' = [entry EXCEPT ![t][p] = NoEntry] /\ now' = now
  BY DEF CloseEntry
<1>2. /\ tr \in TournamentType /\ tournament \in [TournamentIds -> TournamentType]
      /\ tr.winner_count >= 1 /\ tr.winner_count \in Nat
  BY <1>1, Fields DEF IInv, TournamentsSound, PayInv, Settled
<1>3. new \in TournamentType
  <2>1. tournament'[t] = new
    BY <1>1, <1>2
  <2> QED
    BY <2>1 DEF IInv, TournamentsSound
<1>4. /\ SameResult(new, tr) /\ SameSlots(new, tr) /\ new.lamports = tr.lamports - x
      /\ new.claims_processed = IF IsWinner(tr, en) /\ ~Expired(tr)
                                THEN tr.claims_processed + 1 ELSE tr.claims_processed
  BY ONLY <1>2, EntryClosedFields
<1>5. IsWinner(tr, en) <=> en.score >= tr.min_winning_score
  BY <1>2 DEF IsWinner
<1>6. x \in Nat /\ Share(tr) \in Nat /\ Spendable(tr) \in Nat
  BY <1>2, Fields, ClosingTransferBound, ShareNat, SpendableBound, SMTT(40)
<1>7. x <= Spendable(tr)
  BY <1>6 DEF ClosingTransfer, Lesser
<1>8. IF en.score >= tr.min_winning_score
      THEN /\ x <= Share(tr)
           /\ new.claims_processed = IF Expired(tr) THEN tr.claims_processed
                                     ELSE tr.claims_processed + 1
      ELSE x = 0 /\ new.claims_processed = tr.claims_processed
  <2>1. CASE IsWinner(tr, en)
    <3>1. x <= Share(tr)
      BY <1>6, <2>1 DEF ClosingTransfer, Lesser
    <3> HIDE DEF x, new
    <3> QED
      BY <1>4, <1>5, <2>1, <3>1
  <2>2. CASE ~IsWinner(tr, en)
    <3>1. x = 0
      BY <2>2 DEF ClosingTransfer
    <3> HIDE DEF x, new
    <3> QED
      BY <1>4, <1>5, <2>2, <3>1
  <2> QED
    BY <2>1, <2>2
<1> HIDE DEF new, x
<1> QED
  BY <1>1, <1>3, <1>4, <1>6, <1>7, <1>8, PaidPay

\* The instructions of players and of the operator before the payout.
LEMMA PlayerStepPay ==
    ASSUME IInv, IInv', PayInv, NEW p \in Players, NEW t \in TournamentIds,
           PlayerStep(t, p)
    PROVE  PayInv'
<1>1. CASE ClaimPayout(p, t)
  BY <1>1, ClaimPayoutPay
<1>2. CASE ~ClaimPayout(p, t)
  <2>1. PICK new, e :
           /\ tournament' = [tournament EXCEPT ![t] = new]
           /\ entry' = [entry EXCEPT ![t][p] = e] /\ now' = now
           /\ tournament[t].state \in Early
    <3>1. ASSUME NEW commitment \in Commitments, EnterTournament(p, t, commitment)
          PROVE  \E new, e :
                    /\ tournament' = [tournament EXCEPT ![t] = new]
                    /\ entry' = [entry EXCEPT ![t][p] = e] /\ now' = now
                    /\ tournament[t].state \in Early
      BY <3>1 DEF EnterTournament, Early
    <3>2. ASSUME NEW secret \in Secrets, RevealStrategy(p, t, secret)
          PROVE  \E new, e :
                    /\ tournament' = [tournament EXCEPT ![t] = new]
                    /\ entry' = [entry EXCEPT ![t][p] = e] /\ now' = now
                    /\ tournament[t].state \in Early
      BY <3>2 DEF RevealStrategy, Early
    <3>3. ASSUME ClaimRefund(p, t)
          PROVE  \E new, e :
                    /\ tournament' = [tournament EXCEPT ![t] = new]
                    /\ entry' = [entry EXCEPT ![t][p] = e] /\ now' = now
                    /\ tournament[t].state \in Early
      BY <3>3 DEF ClaimRefund, Early
    <3>4. ASSUME NEW byte \in SlotBytes, ForfeitUnrevealed(t, p, byte)
          PROVE  \E new, e :
                    /\ tournament' = [tournament EXCEPT ![t] = new]
                    /\ entry' = [entry EXCEPT ![t][p] = e] /\ now' = now
                    /\ tournament[t].state \in Early
      BY <3>4 DEF ForfeitUnrevealed, Early
    <3> QED
      BY <1>2, <3>1, <3>2, <3>3, <3>4 DEF PlayerStep
  <2>2. Quiet /\ tournament \in [TournamentIds -> TournamentType]
    BY PlayerStepQuiet DEF IInv, TournamentsSound
  <2>3. new.state = tournament[t].state
    BY <2>1, <2>2 DEF Quiet, SamePhase
  <2>4. new.state # "Payout"
    BY <2>1, <2>3 DEF Early
  <2>5. \A u \in TournamentIds \ {t} : entry'[u] = entry[u]
    BY <2>1, EntryAt
  <2> QED
    BY <2>1, <2>4, <2>5, LivePay
<1> QED
  BY <1>1, <1>2

LEMMA CloseRevealPay ==
    ASSUME ~ForeignRefund, IInv, PayInv, NEW t \in TournamentIds, CloseReveal(t)
    PROVE  PayInv'
<1>1. PICK new :
         /\ tournament' = [tournament EXCEPT ![t] = new] /\ now' = now
         /\ new.state = "Running"
  BY CloseRevealMoves
<1>2. PICK seed \in Seeds : CloseRevealEven(t, seed) \/ CloseRevealOdd(t, seed, t)
  BY DEF CloseReveal
<1>3. \A u \in TournamentIds \ {t} : entry'[u] = entry[u]
  <2>1. CASE CloseRevealEven(t, seed)
    BY <2>1, CloseRevealEvenUpdate
  <2>2. CASE CloseRevealOdd(t, seed, t)
    <3>1. PICK p \in Players : entry' = [entry EXCEPT ![t][p] = NoEntry]
      BY <2>2, CloseRevealOddUpdate
    <3> QED
      BY <3>1, EntryAt
  <2> QED
    BY <1>2, <2>1, <2>2
<1> QED
  BY <1>1, <1>3, LivePay

LEMMA FinalizePay ==
    ASSUME ~ForeignRefund, IInv, LifeInv, CohInv, PayInv, NEW t \in TournamentIds,
           FinalizeTournament(t)
    PROVE  PayInv'
<1> DEFINE tr == tournament[t]
           next == config.current_tournament_id + 1
           fresh == NewTournament(config)
<1>1. /\ tr \in TournamentType /\ tr.state = "Running" /\ next # t
      /\ next \in TournamentIds /\ entry' = entry /\ now' = now
  BY FinalizeUpdate
<1>2. PICK threshold \in WinningThreshold(tr) :
         /\ RentExempt(tr, tr.lamports - Settlement(tr, threshold).fees
                               - Settlement(tr, threshold).reimbursed)
         /\ tournament' = [tournament EXCEPT ![t] = Finalized(tr, threshold),
                                             ![next] = fresh]
  BY FinalizeUpdate
<1> DEFINE done == Finalized(tr, threshold)
<1>3. /\ Sound(tr) /\ entry[t] \in [Players -> EntryType] /\ Coherent(tr, entry[t])
      /\ config \in ConfigType /\ now \in Nat
      /\ tournament \in [TournamentIds -> TournamentType]
  BY Known DEF IInv, TournamentsSound
<1>4. Linked(tr, entry[t]) /\ tr.house_fee_bps <= 10000
  BY AllLinked DEF LifeInv, ConfigChecked
<1>5. /\ Settled(done, entry[t])
      /\ done.claims_processed + Cardinality(Winning(done, entry[t])) = done.winner_count
  BY <1>1, <1>2, <1>3, <1>4, FinalizedSettled
<1>6. fresh.state = "Registration"
  BY <1>3, NewFields
<1> HIDE DEF done, fresh
<1>7. \A u \in TournamentIds : tournament'[u] = IF u = next THEN fresh
                                               ELSE IF u = t THEN done ELSE tournament[u]
  BY <1>1, <1>2, <1>3 DEF done
<1>8. SettledNow(t)'
  <2>1. tournament'[t] = done /\ entry'[t] = entry[t]
    BY <1>1, <1>7
  <2>2. Settled(tournament[t], entry[t])'
    BY <1>5, <2>1 DEF Settled, Due, Winning, Share, Spendable, MinBalance
  <2>3. Counted(tournament[t], entry[t])'
    BY <1>5, <2>1 DEF Counted, Winning
  <2> QED
    BY <2>2, <2>3 DEF SettledNow
<1>9. ASSUME NEW u \in TournamentIds
      PROVE  \/ tournament'[u].state # "Payout"
             \/ tournament'[u] = tournament[u] /\ entry'[u] = entry[u]
             \/ SettledNow(u)'
  BY <1>1, <1>6, <1>7, <1>8
<1> QED
  BY <1>1, <1>3, <1>9, PayUpdate

LEMMA NextPay ==
    ASSUME ~ForeignRefund
    PROVE  IInv /\ LifeInv /\ CohInv /\ PayInv /\ IInv' /\ [Next]_vars => PayInv'
<1> SUFFICES ASSUME IInv, LifeInv, CohInv, PayInv, IInv', [Next]_vars PROVE PayInv'
  OBVIOUS
<1>a. ASSUME tournament' = tournament, entry' = entry, now' >= now PROVE PayInv'
  <2>1. now' \in Nat
    BY DEF IInv
  <2> QED
    BY <1>a, <2>1, PayUpdate
<1>b. now \in Nat /\ tournament \in [TournamentIds -> TournamentType]
  BY DEF IInv, TournamentsSound
<1>1. CASE Tick
  BY <1>a, <1>b, <1>1 DEF Tick
<1>2. ASSUME NEW params \in InitParams, InitializeConfig(params) PROVE PayInv'
  <2>1. /\ tournament' = [tournament EXCEPT ![0] = NewTournament(config')]
        /\ entry' = entry /\ now' = now
    BY <1>2 DEF InitializeConfig
  <2>2. NewTournament(config').state # "Payout"
    BY NewFields DEF IInv
  <2>3. 0 \in TournamentIds
    BY AmountsAssumption DEF TournamentIds
  <2> QED
    BY <2>1, <2>2, <2>3, LivePay
<1>3. ASSUME NEW params \in ConfigUpdates, UpdateConfig(params) PROVE PayInv'
  BY <1>a, <1>b, <1>3 DEF UpdateConfig
<1>4. CASE WithdrawFees
  BY <1>a, <1>b, <1>4 DEF WithdrawFees
<1>5. ASSUME NEW t \in TournamentIds, NEW p \in Players, PlayerStep(t, p) PROVE PayInv'
  BY <1>5, PlayerStepPay
<1>6. ASSUME NEW t \in TournamentIds, NEW p \in Players, CloseEntry(t, p) PROVE PayInv'
  BY <1>6, CloseEntryPay
<1>7. ASSUME NEW t \in TournamentIds, CloseRegistration(t) PROVE PayInv'
  <2> DEFINE mid == Charged(tournament[t])
             new == Locked(mid, now + tournament[t].reveal_duration)
  <2>1. /\ tournament' = [tournament EXCEPT ![t] = new] /\ entry' = entry /\ now' = now
        /\ tournament[t].state = "Registration"
    BY <1>7 DEF CloseRegistration, Locked
  <2>2. mid \in TournamentType
    <3>1. tournament[t].state \in Live /\ Sound(tournament[t]) /\ config \in ConfigType
      BY <2>1, Known DEF Live
    <3> QED
      BY <3>1, ChargedSound DEF Sound
  <2> HIDE DEF mid
  <2>3. new.state # "Payout"
    BY <2>2, LockedFields
  <2> HIDE DEF new
  <2> QED
    BY <2>1, <2>3, LivePay
<1>8. ASSUME NEW t \in TournamentIds, CloseReveal(t) PROVE PayInv'
  BY <1>8, CloseRevealPay
<1>9. ASSUME NEW t \in TournamentIds, RunMatches(t) PROVE PayInv'
  <2>1. PICK new :
           /\ tournament' = [tournament EXCEPT ![t] = new.tr]
           /\ entry' = [entry EXCEPT ![t] = new.en]
           /\ tournament[t].state = "Running" /\ now' = now
    BY <1>9, RunMatchesUpdate
  <2>2. new.tr.state = tournament[t].state
    BY <1>9, <1>b, <2>1, RunMatchesQuiet DEF Quiet, SamePhase
  <2>3. \A u \in TournamentIds \ {t} : entry'[u] = entry[u]
    BY <2>1 DEF IInv, EntriesTyped
  <2> QED
    BY <2>1, <2>2, <2>3, LivePay
<1>10. ASSUME NEW t \in TournamentIds, FinalizeTournament(t) PROVE PayInv'
  BY <1>10, FinalizePay
<1>11. ASSUME NEW t \in TournamentIds, CloseTournament(t) PROVE PayInv'
  <2>1. /\ tournament' = [tournament EXCEPT ![t] = NoTournament]
        /\ entry' = entry /\ now' = now
    BY <1>11 DEF CloseTournament
  <2>2. NoTournament.state # "Payout"
    BY DEF NoTournament
  <2> QED
    BY <2>1, <2>2, LivePay
<1>12. CASE UNCHANGED vars
  BY <1>a, <1>b, <1>12 DEF vars
<1> QED
  BY <1>1, <1>2, <1>3, <1>4, <1>5, <1>6, <1>7, <1>8, <1>9, <1>10, <1>11, <1>12
  DEF Next, PlayerStep

LEMMA PayInit == Init => PayInv
<1> SUFFICES ASSUME Init, NEW t \in TournamentIds PROVE tournament[t].state # "Payout"
  BY DEF PayInv
<1> QED
  BY DEF Init, NoTournament

LEMMA SpecPay ==
    ASSUME ~ForeignRefund
    PROVE  Spec => [](IInv /\ LifeInv /\ CohInv /\ PayInv)
<1>1. IInv /\ LifeInv /\ CohInv /\ PayInv /\ IInv' /\ [Next]_vars => PayInv'
  BY NextPay
<1>2. IInv /\ LifeInv /\ [Next]_vars => IInv'
  BY NextIInv
<1> QED
  BY <1>1, <1>2, PayInit, SpecCoh, PTL DEF Spec

LEMMA WinningIsOpenWinners ==
    ASSUME NEW t \in TournamentIds
    PROVE  Winning(tournament[t], entry[t]) = OpenWinners(t)
  BY DEF Winning, OpenWinners, OpenEntries

\* The winners finalize_tournament counts in the slots are those whose entries
\* claim_payout and close_entry pay: each is counted when he is paid, none twice,
\* and until the claims expire none is missing, provided close_reveal was given
\* entries of its own tournament.
THEOREM WinnersAreAccounted == ~ForeignRefund => (Spec => []WinnersAccounted)
<1> SUFFICES ASSUME ~ForeignRefund PROVE Spec => []WinnersAccounted
  OBVIOUS
<1>1. PayInv => WinnersAccounted
  BY WinningIsOpenWinners DEF PayInv, Settled, Counted, WinnersAccounted
<1> QED
  BY <1>1, SpecPay, PTL

\* In payout the account stays rent exempt, and the shares of the winners who
\* have not been paid exceed what it can pay by at most the rent of its slots,
\* whatever the order of claims and closed entries, provided close_reveal was given
\* entries of its own tournament.
THEOREM ShortfallIsBounded == ~ForeignRefund => (Spec => []ShortfallBounded)
<1> SUFFICES ASSUME ~ForeignRefund PROVE Spec => []ShortfallBounded
  OBVIOUS
<1>1. PayInv => ShortfallBounded
  BY WinningIsOpenWinners DEF PayInv, Settled, Due, ShortfallBounded
<1> QED
  BY <1>1, SpecPay, PTL

-----------------------------------------------------------------------------
(***************************************************************************)
(* Sums.  SumFunction is a fold over a finite set, so what it computes is  *)
(* shown by induction: on the numbers, as a property of a set of numbers   *)
(* without a least element outside it, then on the finite sets.            *)
(***************************************************************************)
\* A set of numbers that holds 0 and is closed under successors holds them all.
LEMMA SetInduction ==
    ASSUME NEW S \in SUBSET Nat, 0 \in S, \A n \in S : n + 1 \in S
    PROVE  S = Nat
<1> SUFFICES ASSUME Nat \ S # {} PROVE FALSE
  OBVIOUS
<1>1. PICK x \in Nat \ S : \A y \in Nat \ S : ~(<<y, x>> \in OpToRel(<, Nat))
  BY NatLessThanWellFounded, WFMin
<1>2. x # 0 /\ x - 1 \in Nat
  OBVIOUS
<1>3. x - 1 \in S
  <2>1. SUFFICES ASSUME x - 1 \in Nat \ S PROVE FALSE
    BY <1>2
  <2>2. <<x - 1, x>> \in OpToRel(<, Nat)
    BY <1>2 DEF OpToRel
  <2> QED
    BY <1>1, <2>1, <2>2
<1> QED
  BY <1>2, <1>3

\* One unfolding of the sum of f over a set, h standing for the sums of smaller ones.
SumStep(f, h, s) ==
    IF s = {} THEN 0
    ELSE LET x == CHOOSE x \in s : TRUE IN f[x] + h[s \ {x}]

\* h solves the recursion over the subsets of S.
IsSum(f, h, S) == h = [s \in SUBSET S |-> SumStep(f, h, s)]

\* The recursion SumFunction is defined by has a solution over a finite set.
LEMMA SumExists ==
    ASSUME NEW S, IsFiniteSet(S), NEW f
    PROVE  \E h : IsSum(f, h, S)
<1> DEFINE Good(h, m) == \A s \in SUBSET S : Cardinality(s) <= m => h[s] = SumStep(f, h, s)
           Reached == {m \in Nat : \E h : h = [s \in SUBSET S |-> h[s]] /\ Good(h, m)}
<1>1. 0 \in Reached
  <2> DEFINE h == [s \in SUBSET S |-> 0]
  <2>1. \A s \in SUBSET S : Cardinality(s) <= 0 => s = {}
    BY FS_Subset, FS_EmptySet, FS_CardinalityType
  <2>2. Good(h, 0)
    BY <2>1 DEF SumStep
  <2> QED
    BY <2>2
<1>2. \A m \in Reached : m + 1 \in Reached
  <2> TAKE m \in Reached
  <2>0. m \in Nat /\ \E h : h = [s \in SUBSET S |-> h[s]] /\ Good(h, m)
    BY Zenon
  <2>a. PICK h : Good(h, m)
    BY <2>0
  <2> DEFINE g == [s \in SUBSET S |-> SumStep(f, h, s)]
  <2>1. Good(g, m + 1)
    <3> SUFFICES ASSUME NEW s \in SUBSET S, Cardinality(s) <= m + 1
                 PROVE  g[s] = SumStep(f, g, s)
      OBVIOUS
    <3>1. CASE s = {}
      BY <3>1 DEF SumStep
    <3>2. CASE s # {}
      <4> DEFINE x == CHOOSE x \in s : TRUE
      <4>1. x \in s
        BY <3>2
      <4> HIDE DEF x
      <4>2. IsFiniteSet(s) /\ s \ {x} \in SUBSET S
        BY FS_Subset
      <4>3. Cardinality(s \ {x}) = Cardinality(s) - 1 /\ Cardinality(s) \in Nat
        BY <4>1, <4>2, FS_RemoveElement, FS_CardinalityType
      <4>4. h[s \ {x}] = SumStep(f, h, s \ {x})
        BY <2>0, <2>a, <4>2, <4>3
      <4>5. g[s \ {x}] = h[s \ {x}]
        BY <4>2, <4>4
      <4>6. SumStep(f, h, s) = f[x] + h[s \ {x}] /\ SumStep(f, g, s) = f[x] + g[s \ {x}]
        BY <3>2, Zenon DEF SumStep, x
      <4> HIDE DEF g
      <4>7. g[s] = SumStep(f, h, s)
        BY DEF g
      <4> QED
        BY <4>5, <4>6, <4>7
    <3> QED
      BY <3>1, <3>2
  <2>2. m + 1 \in Nat /\ g = [s \in SUBSET S |-> g[s]]
    BY <2>0
  <2> HIDE DEF g, Good
  <2> QED
    BY <2>1, <2>2
<1>3. Reached = Nat
  <2> HIDE DEF Reached
  <2>1. Reached \in SUBSET Nat
    BY DEF Reached
  <2> QED
    BY <1>1, <1>2, <2>1, SetInduction
<1>4. Cardinality(S) \in Reached
  BY <1>3, FS_CardinalityType
<1>5. PICK h : h = [s \in SUBSET S |-> h[s]] /\ Good(h, Cardinality(S))
  BY <1>4
<1>6. \A s \in SUBSET S : h[s] = SumStep(f, h, s)
  BY <1>5, FS_Subset
<1>7. h = [s \in SUBSET S |-> SumStep(f, h, s)]
  BY <1>5, <1>6, Zenon
<1> QED
  BY <1>7 DEF IsSum

\* The element of a set that the sum takes first.
Picked(s) == CHOOSE x \in s : TRUE

\* Induction over the subsets of a finite set, one element at a time.
LEMMA FiniteInduction ==
    ASSUME NEW S, IsFiniteSet(S), NEW D \in SUBSET (SUBSET S), {} \in D,
           \A s \in SUBSET S : s # {} /\ s \ {Picked(s)} \in D => s \in D
    PROVE  D = SUBSET S
<1> DEFINE Done == {m \in Nat : \A s \in SUBSET S : Cardinality(s) = m => s \in D}
<1>1. 0 \in Done
  BY FS_Subset, FS_EmptySet
<1>2. ASSUME NEW m \in Nat, m \in Done PROVE m + 1 \in Done
  <2> SUFFICES ASSUME NEW s \in SUBSET S, Cardinality(s) = m + 1 PROVE s \in D
    OBVIOUS
  <2>1. IsFiniteSet(s) /\ s # {}
    BY FS_Subset, FS_EmptySet
  <2>2. Picked(s) \in s
    BY <2>1 DEF Picked
  <2>3. Cardinality(s \ {Picked(s)}) = m
    <3>1. Cardinality(s \ {Picked(s)}) = Cardinality(s) - 1
      BY ONLY <2>1, <2>2, FS_RemoveElement
    <3> QED
      BY <3>1
  <2>4. s \ {Picked(s)} \in D
    BY <1>2, <2>3
  <2> QED
    BY <2>1, <2>4
<1>3. Done = Nat
  <2>1. Done \in SUBSET Nat /\ \A m \in Done : m \in Nat
    OBVIOUS
  <2> HIDE DEF Done
  <2> QED
    BY <1>1, <1>2, <2>1, SetInduction
<1>4. \A s \in SUBSET S : Cardinality(s) \in Nat
  BY FS_Subset, FS_CardinalityType
<1> QED
  BY <1>3, <1>4

\* h gives the sum of f over each subset of S.
SumRule(f, h, S) ==
    /\ h[{}] = 0
    /\ \A s \in SUBSET S : s # {} => h[s] = f[Picked(s)] + h[s \ {Picked(s)}]

LEMMA SumAt ==
    ASSUME NEW S, NEW f, NEW h, IsSum(f, h, S)
    PROVE  SumRule(f, h, S)
<1>1. \A s \in SUBSET S : h[s] = SumStep(f, h, s)
  BY Zenon DEF IsSum
<1>2. {} \in SUBSET S
  OBVIOUS
<1>3. h[{}] = SumStep(f, h, {}) /\ SumStep(f, h, {}) = 0
  BY <1>1, <1>2, Zenon DEF SumStep
<1>4. \A s : s # {} => SumStep(f, h, s) = f[Picked(s)] + h[s \ {Picked(s)}]
  BY Zenon DEF SumStep, Picked
<1> QED
  BY <1>1, <1>3, <1>4, Zenon DEF SumRule

\* The sum of f over S is the value such an h has at S.
LEMMA SumUnfold ==
    ASSUME NEW S, IsFiniteSet(S), NEW f
    PROVE  \E h : SumRule(f, h, S) /\ SumFunctionOnSet(f, S) = h[S]
<1> DEFINE h == CHOOSE h : h = [s \in SUBSET S |-> SumStep(f, h, s)]
<1>1. IsSum(f, h, S)
  <2>1. \E g : g = [s \in SUBSET S |-> SumStep(f, g, s)]
    BY SumExists DEF IsSum
  <2> QED
    BY <2>1, Zenon DEF IsSum
<1>2. SumFunctionOnSet(f, S) = h[S]
  BY Zenon DEF SumFunctionOnSet, FoldFunctionOnSet, MapThenFoldSet, SumStep
<1>3. SumRule(f, h, S)
  BY <1>1, SumAt
<1> QED
  BY <1>2, <1>3

\* A sum of integers is an integer.
LEMMA SumIsInt ==
    ASSUME NEW S, IsFiniteSet(S), NEW f, \A x \in S : f[x] \in Int,
           NEW h, SumRule(f, h, S)
    PROVE  \A s \in SUBSET S : h[s] \in Int
<1>a. /\ h[{}] = 0
      /\ \A s \in SUBSET S : s # {} => h[s] = f[Picked(s)] + h[s \ {Picked(s)}]
  BY Zenon DEF SumRule
<1> DEFINE D == {s \in SUBSET S : h[s] \in Int}
<1>1. D \in SUBSET (SUBSET S) /\ {} \in D
  BY <1>a
<1>2. ASSUME NEW s \in SUBSET S, s # {}, s \ {Picked(s)} \in D PROVE s \in D
  <2>1. f[Picked(s)] \in Int
    BY <1>2 DEF Picked
  <2>2. h[s] = f[Picked(s)] + h[s \ {Picked(s)}]
    BY <1>a, <1>2
  <2> QED
    BY <1>2, <2>1, <2>2
<1> HIDE DEF D
<1>3. D = SUBSET S
  BY <1>1, <1>2, FiniteInduction
<1> QED
  BY <1>3 DEF D

\* Two functions that differ at one place at most differ by as much in their sums.
LEMMA SumDiffers ==
    ASSUME NEW S, IsFiniteSet(S), NEW f, NEW g, NEW e,
           \A x \in S : f[x] \in Int /\ g[x] \in Int,
           \A x \in S \ {e} : g[x] = f[x],
           NEW h, SumRule(f, h, S), NEW k, SumRule(g, k, S)
    PROVE  \A s \in SUBSET S :
              k[s] = h[s] + (IF e \in s THEN g[e] - f[e] ELSE 0)
<1>a. /\ h[{}] = 0 /\ k[{}] = 0
      /\ \A s \in SUBSET S : s # {} => /\ h[s] = f[Picked(s)] + h[s \ {Picked(s)}]
                                       /\ k[s] = g[Picked(s)] + k[s \ {Picked(s)}]
  BY Zenon DEF SumRule
<1>0. \A s \in SUBSET S : h[s] \in Int /\ k[s] \in Int
  BY SumIsInt
<1> DEFINE Gap(s) == IF e \in s THEN g[e] - f[e] ELSE 0
           D == {s \in SUBSET S : k[s] = h[s] + Gap(s)}
<1>1. D \in SUBSET (SUBSET S) /\ {} \in D
  BY <1>a
<1>2. ASSUME NEW s \in SUBSET S, s # {}, s \ {Picked(s)} \in D PROVE s \in D
  <2> DEFINE x == Picked(s)
  <2>1. x \in s
    BY <1>2 DEF Picked
  <2>2. h[s] = f[x] + h[s \ {x}] /\ k[s] = g[x] + k[s \ {x}]
    BY <1>a, <1>2
  <2>3. k[s \ {x}] = h[s \ {x}] + Gap(s \ {x})
    BY <1>2
  <2> HIDE DEF x
  <2>4. h[s \ {x}] \in Int /\ f[x] \in Int /\ g[x] \in Int
    BY <1>0, <2>1
  <2>5. CASE x = e
    <3>1. Gap(s \ {x}) = 0 /\ Gap(s) = g[x] - f[x]
      BY <2>1, <2>5
    <3> QED
      BY <2>2, <2>3, <2>4, <3>1
  <2>6. CASE x # e
    <3>1. Gap(s \ {x}) = Gap(s) /\ g[x] = f[x] /\ Gap(s) \in Int
      BY <2>1, <2>6
    <3> HIDE DEF Gap
    <3> QED
      BY <2>2, <2>3, <2>4, <3>1
  <2> QED
    BY <2>5, <2>6
<1>3. D = SUBSET S
  <2> HIDE DEF D
  <2> QED
    BY <1>1, <1>2, FiniteInduction
<1> QED
  BY <1>3

\* f and g are integers over S that differ by d at e, and nowhere else.
DifferAt(S, f, g, e, d) ==
    /\ f \in [S -> Int] /\ g \in [S -> Int] /\ e \in S /\ d \in Int
    /\ \A x \in S : g[x] = f[x] + (IF x = e THEN d ELSE 0)

\* What the sum of a function over its finite domain becomes when one value changes.
LEMMA SumChanged ==
    ASSUME NEW S, IsFiniteSet(S), NEW f, NEW g, NEW e, NEW d, DifferAt(S, f, g, e, d)
    PROVE  SumFunction(f) \in Int /\ SumFunction(g) = SumFunction(f) + d
<1>0. /\ f \in [S -> Int] /\ g \in [S -> Int] /\ e \in S /\ d \in Int
      /\ \A x \in S : g[x] = f[x] + (IF x = e THEN d ELSE 0)
  BY DEF DifferAt
<1>1. SumFunction(f) = SumFunctionOnSet(f, S) /\ SumFunction(g) = SumFunctionOnSet(g, S)
  BY <1>0 DEF SumFunction
<1>2. PICK h : SumRule(f, h, S) /\ SumFunctionOnSet(f, S) = h[S]
  BY SumUnfold
<1>3. PICK k : SumRule(g, k, S) /\ SumFunctionOnSet(g, S) = k[S]
  BY SumUnfold
<1>4. /\ \A x \in S : f[x] \in Int /\ g[x] \in Int
      /\ \A x \in S \ {e} : g[x] = f[x]
      /\ g[e] - f[e] = d
  BY <1>0
<1>5. h[S] \in Int
  BY <1>2, <1>4, SumIsInt
<1>6. k[S] = h[S] + (IF e \in S THEN g[e] - f[e] ELSE 0)
  BY <1>2, <1>3, <1>4, SumDiffers
<1> QED
  BY <1>0, <1>1, <1>2, <1>3, <1>4, <1>5, <1>6

\* The sum of a constant function.
LEMMA SumConstant ==
    ASSUME NEW S, IsFiniteSet(S), NEW c \in Int
    PROVE  SumFunction([x \in S |-> c]) = c * Cardinality(S)
<1> DEFINE f == [x \in S |-> c]
<1>1. PICK h : SumRule(f, h, S) /\ SumFunctionOnSet(f, S) = h[S]
  BY SumUnfold
<1>2. SumFunction(f) = h[S]
  BY <1>1 DEF SumFunction
<1>a. /\ h[{}] = 0
      /\ \A s \in SUBSET S : s # {} => h[s] = f[Picked(s)] + h[s \ {Picked(s)}]
  BY <1>1, Zenon DEF SumRule
<1> DEFINE D == {s \in SUBSET S : h[s] = c * Cardinality(s)}
<1>3. D \in SUBSET (SUBSET S) /\ {} \in D
  BY <1>a, FS_EmptySet
<1>4. ASSUME NEW s \in SUBSET S, s # {}, s \ {Picked(s)} \in D PROVE s \in D
  <2> DEFINE x == Picked(s)
  <2>1. x \in s
    BY <1>4 DEF Picked
  <2>2. h[s] = f[x] + h[s \ {x}]
    BY <1>a, <1>4
  <2>3. h[s \ {x}] = c * Cardinality(s \ {x})
    BY <1>4
  <2> HIDE DEF x
  <2>4. Cardinality(s \ {x}) = Cardinality(s) - 1 /\ Cardinality(s) \in Nat
    BY <2>1, FS_Subset, FS_RemoveElement, FS_CardinalityType
  <2>5. f[x] = c
    BY <2>1
  <2>6. c * Cardinality(s) = c + c * (Cardinality(s) - 1)
    BY <2>4
  <2> QED
    BY <2>2, <2>3, <2>4, <2>5, <2>6
<1>5. D = SUBSET S
  <2> HIDE DEF D
  <2> QED
    BY <1>3, <1>4, FiniteInduction
<1> QED
  BY <1>2, <1>5

-----------------------------------------------------------------------------
(***************************************************************************)
(* Lamports.  Each instruction moves them between the Config, one or two   *)
(* tournaments with their entries, and one wallet; Balanced holds of every *)
(* step.  No entry needs to belong to its tournament for that, so nothing  *)
(* is assumed of the refund that close_reveal makes.                       *)
(***************************************************************************)
\* The lamports of one tournament account and of the entries en opened under it.
HeldBy(tr, en) == tr.lamports + EntryRent * Cardinality(Open(en))

\* Accounts that do not exist hold nothing.
Vacant ==
    /\ \A t \in TournamentIds : tournament[t].state = "Absent" => tournament[t].lamports = 0
    /\ ~config.initialized => config.lamports = 0

\* A step that moves lamports between accounts only.
Balanced == Holdings' = Holdings /\ Vacant'

\* Tournaments and wallets are finitely many.
LEMMA LedgerFinite == IsFiniteSet(TournamentIds) /\ IsFiniteSet(Wallets)
<1>1. IsFiniteSet(TournamentIds)
  BY AmountsAssumption, FS_Interval DEF TournamentIds
<1>2. IsFiniteSet({Admin})
  BY FS_Singleton
<1>3. IsFiniteSet(Players \cup Operators)
  BY ActorsAssumption, FS_Union
<1>4. IsFiniteSet(Players \cup Operators \cup {Admin})
  BY <1>2, <1>3, FS_Union
<1> QED
  BY <1>1, <1>4 DEF Wallets

\* Balances are integers.
LEMMA HeldType ==
    ASSUME NEW tr \in TournamentType, NEW en
    PROVE  /\ HeldBy(tr, en) \in Int /\ tr.lamports \in Nat
           /\ Cardinality(Open(en)) \in Nat /\ EntryRent \in Nat
<1>1. Cardinality(Open(en)) \in Nat
  BY OpenFinite, FS_CardinalityType
<1>2. tr.lamports \in Nat /\ EntryRent \in Nat
  BY Fields, AmountsAssumption
<1>3. EntryRent * Cardinality(Open(en)) \in Int
  BY <1>1, <1>2
<1> QED
  BY <1>1, <1>2, <1>3 DEF HeldBy

\* Held, before and after a step, by tournament.
LEMMA HeldAt ==
    ASSUME IInv
    PROVE  /\ Held \in [TournamentIds -> Int]
           /\ \A t \in TournamentIds : Held[t] = HeldBy(tournament[t], entry[t])
<1>1. \A t \in TournamentIds : OpenEntries(t) = Open(entry[t])
  BY DEF OpenEntries, Open
<1>2. \A t \in TournamentIds : HeldBy(tournament[t], entry[t]) \in Int
  BY HeldType DEF IInv, TournamentsSound
<1>3. \A t \in TournamentIds : Held[t] = HeldBy(tournament[t], entry[t])
  BY <1>1 DEF Held, HeldBy
<1>4. Held = [t \in TournamentIds |-> Held[t]]
  BY DEF Held
<1> HIDE DEF Held
<1> QED
  BY <1>2, <1>3, <1>4

LEMMA HeldNext ==
    ASSUME IInv'
    PROVE  /\ Held' \in [TournamentIds -> Int]
           /\ \A t \in TournamentIds : Held'[t] = HeldBy(tournament'[t], entry'[t])
<1>1. \A t \in TournamentIds : OpenEntries(t)' = Open(entry'[t])
  BY DEF OpenEntries, Open
<1>2. \A t \in TournamentIds : HeldBy(tournament'[t], entry'[t]) \in Int
  BY HeldType DEF IInv, TournamentsSound
<1>3. \A t \in TournamentIds : Held'[t] = HeldBy(tournament'[t], entry'[t])
  BY <1>1 DEF Held, HeldBy
<1>4. Held' = [t \in TournamentIds |-> Held'[t]]
  BY DEF Held
<1> DEFINE H == Held'
<1> HIDE DEF H
<1>5. H = [t \in TournamentIds |-> H[t]] /\ \A t \in TournamentIds : H[t] \in Int
  BY <1>2, <1>3, <1>4 DEF H
<1>6. H \in [TournamentIds -> Int]
  BY <1>5
<1> QED
  BY <1>3, <1>6 DEF H

\* Wallet w gains c.
WalletMoves(w, c) ==
    /\ w \in Wallets /\ c \in Int
    /\ \A v \in Wallets : wallet'[v] = wallet[v] + (IF v = w THEN c ELSE 0)

\* Tournaments s and t, with their entries, gain a and b.
HoldingsMove(s, a, t, b) ==
    /\ a \in Int /\ b \in Int
    /\ \A u \in TournamentIds :
          HeldBy(tournament'[u], entry'[u]) =
              HeldBy(tournament[u], entry[u]) + (IF u = s THEN a ELSE 0)
                                              + (IF u = t THEN b ELSE 0)

\* Two tournaments, one wallet and the Config change by amounts that cancel.
LEMMA Moved ==
    ASSUME IInv, IInv', NEW s \in TournamentIds, NEW t \in TournamentIds,
           NEW a, NEW b, NEW w, NEW c, HoldingsMove(s, a, t, b), WalletMoves(w, c),
           config'.lamports + a + b + c = config.lamports
    PROVE  Holdings' = Holdings
<1>a. /\ w \in Wallets /\ c \in Int
      /\ \A v \in Wallets : wallet'[v] = wallet[v] + (IF v = w THEN c ELSE 0)
  BY Zenon DEF WalletMoves
<1>b. /\ a \in Int /\ b \in Int
      /\ \A u \in TournamentIds :
            HeldBy(tournament'[u], entry'[u]) =
                HeldBy(tournament[u], entry[u]) + (IF u = s THEN a ELSE 0)
                                                + (IF u = t THEN b ELSE 0)
  BY Zenon DEF HoldingsMove
<1>0. IsFiniteSet(TournamentIds) /\ IsFiniteSet(Wallets)
  BY LedgerFinite
<1>1. /\ Held \in [TournamentIds -> Int] /\ Held' \in [TournamentIds -> Int]
      /\ \A u \in TournamentIds : /\ Held[u] = HeldBy(tournament[u], entry[u])
                                  /\ Held'[u] = HeldBy(tournament'[u], entry'[u])
  BY HeldAt, HeldNext
<1> DEFINE H == Held
           G == Held'
           F == [u \in TournamentIds |-> H[u] + (IF u = s THEN a ELSE 0)]
<1> HIDE DEF H, G
<1>2. /\ H \in [TournamentIds -> Int] /\ G \in [TournamentIds -> Int]
      /\ F \in [TournamentIds -> Int]
      /\ \A u \in TournamentIds : G[u] = F[u] + (IF u = t THEN b ELSE 0)
  <2>1. H \in [TournamentIds -> Int] /\ G \in [TournamentIds -> Int]
    BY <1>1 DEF H, G
  <2>2. \A u \in TournamentIds : G[u] = H[u] + (IF u = s THEN a ELSE 0) + (IF u = t THEN b ELSE 0)
    BY <1>b, <1>1 DEF H, G
  <2> QED
    BY <1>b, <2>1, <2>2
<1>3. \A u \in TournamentIds : F[u] = H[u] + (IF u = s THEN a ELSE 0)
  OBVIOUS
<1> HIDE DEF F
<1>4. SumFunction(H) \in Int /\ SumFunction(F) = SumFunction(H) + a
  <2>1. DifferAt(TournamentIds, H, F, s, a)
    BY <1>b, <1>2, <1>3 DEF DifferAt
  <2> QED
    BY <1>0, <2>1, SumChanged
<1>5. SumFunction(G) = SumFunction(F) + b
  <2>1. DifferAt(TournamentIds, F, G, t, b)
    BY <1>b, <1>2 DEF DifferAt
  <2> QED
    BY <1>0, <2>1, SumChanged
<1>6. wallet \in [Wallets -> Int] /\ wallet' \in [Wallets -> Int]
  BY DEF IInv
<1>7. SumFunction(wallet) \in Int /\ SumFunction(wallet') = SumFunction(wallet) + c
  <2>1. DifferAt(Wallets, wallet, wallet', w, c)
    BY <1>a, <1>6 DEF DifferAt
  <2> QED
    BY <1>0, <2>1, SumChanged
<1>8. config.lamports \in Int /\ config'.lamports \in Int
  BY DEF IInv, ConfigType
<1>9. /\ Holdings = config.lamports + SumFunction(H) + SumFunction(wallet)
      /\ Holdings' = config'.lamports + SumFunction(G) + SumFunction(wallet')
  BY DEF Holdings, H, G
<1> QED
  BY <1>a, <1>b, <1>4, <1>5, <1>7, <1>8, <1>9

\* Tournament t becomes new, and with its entries gains a.
HoldingMoves(t, new, a) ==
    /\ a \in Int
    /\ tournament' = [tournament EXCEPT ![t] = new]
    /\ \A u \in TournamentIds \ {t} : entry'[u] = entry[u]
    /\ HeldBy(new, entry'[t]) = HeldBy(tournament[t], entry[t]) + a
    /\ new.state = "Absent" => new.lamports = 0

\* One tournament, one wallet and the Config change by amounts that cancel.
LEMMA OneMoved ==
    ASSUME IInv, IInv', Vacant, NEW t \in TournamentIds, NEW new, NEW a, NEW w, NEW c,
           HoldingMoves(t, new, a), WalletMoves(w, c),
           config'.lamports + a + c = config.lamports,
           config' = config \/ config'.initialized
    PROVE  Balanced
<1>0. /\ a \in Int
      /\ tournament' = [tournament EXCEPT ![t] = new]
      /\ \A u \in TournamentIds \ {t} : entry'[u] = entry[u]
      /\ HeldBy(new, entry'[t]) = HeldBy(tournament[t], entry[t]) + a
      /\ new.state = "Absent" => new.lamports = 0
  BY Zenon DEF HoldingMoves
<1>1. tournament \in [TournamentIds -> TournamentType]
  BY DEF IInv, TournamentsSound
<1>2. tournament'[t] = new /\ \A u \in TournamentIds \ {t} : tournament'[u] = tournament[u]
  BY <1>0, <1>1
<1>3. \A u \in TournamentIds : HeldBy(tournament[u], entry[u]) \in Int
  BY <1>1, HeldType
<1>4. ASSUME NEW u \in TournamentIds
      PROVE  HeldBy(tournament'[u], entry'[u]) =
                 HeldBy(tournament[u], entry[u]) + (IF u = t THEN a ELSE 0)
                                                 + (IF u = t THEN 0 ELSE 0)
  <2>1. CASE u = t
    BY <1>0, <1>2, <1>3, <2>1
  <2>2. CASE u # t
    <3>1. tournament'[u] = tournament[u] /\ entry'[u] = entry[u]
      BY <1>0, <1>2, <2>2
    <3> QED
      BY <1>3, <2>2, <3>1
  <2> QED
    BY <2>1, <2>2
<1>5. config'.lamports + a + 0 + c = config.lamports
  <2>1. config'.lamports \in Int
    BY DEF IInv, ConfigType
  <2> QED
    BY <1>0, <2>1 DEF WalletMoves
<1>6. Holdings' = Holdings
  <2>1. HoldingsMove(t, a, t, 0)
    BY <1>0, <1>4 DEF HoldingsMove
  <2>2. \E b : HoldingsMove(t, a, t, b) /\ config'.lamports + a + b + c = config.lamports
    BY <1>5, <2>1
  <2> QED
    BY <2>2, Moved
<1>7. Vacant'
  BY <1>0, <1>2 DEF Vacant
<1> QED
  BY <1>6, <1>7 DEF Balanced

\* The lamports of a tournament change by a, with its d entries more by b.
HeldChange(new, now_en, tr, en, a, d, b) ==
    /\ a \in Int /\ b \in Int /\ d \in {-1, 0, 1}
    /\ b = a + EntryRent * d
    /\ new.lamports = tr.lamports + a
    /\ Cardinality(Open(now_en)) = Cardinality(Open(en)) + d

LEMMA HeldMoves ==
    ASSUME NEW tr \in TournamentType, NEW new, NEW en, NEW now_en, NEW a, NEW d, NEW b,
           HeldChange(new, now_en, tr, en, a, d, b)
    PROVE  HeldBy(new, now_en) = HeldBy(tr, en) + b
<1> DEFINE n == Cardinality(Open(en))
           m == Cardinality(Open(now_en))
           x == new.lamports
           y == tr.lamports
           e == EntryRent
<1>1. y \in Int /\ n \in Int /\ e \in Int
  BY HeldType
<1>2. /\ a \in Int /\ b \in Int /\ d \in {-1, 0, 1} /\ b = a + e * d
      /\ x = y + a /\ m = n + d
  BY DEF HeldChange
<1> HIDE DEF n, m, x, y, e
<1>3. e * (n + d) = e * n + e * d /\ e * n \in Int /\ e * d \in Int
  BY <1>1, <1>2
<1>4. x + e * m = (y + e * n) + b
  BY <1>1, <1>2, <1>3
<1> QED
  BY <1>4 DEF HeldBy, n, m, x, y, e

\* The same when the open entries stay.
LEMMA HeldKept ==
    ASSUME NEW tr \in TournamentType, NEW new, NEW en, NEW now_en, NEW a \in Int,
           new.lamports = tr.lamports + a, Open(now_en) = Open(en)
    PROVE  HeldBy(new, now_en) = HeldBy(tr, en) + a
<1>1. Cardinality(Open(en)) \in Nat /\ EntryRent \in Nat
  BY HeldType
<1>2. Cardinality(Open(now_en)) = Cardinality(Open(en)) + 0 /\ a = a + EntryRent * 0
  BY <1>1
<1>3. HeldChange(new, now_en, tr, en, a, 0, a)
  BY <1>2 DEF HeldChange
<1> QED
  BY <1>3, HeldMoves

\* One wallet changes, or none.
LEMMA WalletMoved ==
    ASSUME IInv, NEW w \in Wallets, NEW c \in Int,
           wallet' = [wallet EXCEPT ![w] = wallet[w] + c]
    PROVE  WalletMoves(w, c)
<1>1. wallet \in [Wallets -> Nat]
  BY DEF IInv
<1> QED
  BY <1>1 DEF WalletMoves

LEMMA WalletKept ==
    ASSUME IInv, wallet' = wallet
    PROVE  WalletMoves(Admin, 0)
<1>1. wallet \in [Wallets -> Nat] /\ Admin \in Wallets
  BY DEF IInv, Wallets
<1> QED
  BY <1>1 DEF WalletMoves

LEMMA ConfigLamports == IInv => config.lamports \in Nat
  BY DEF IInv, ConfigType

\* A step that changes neither the lamports of a tournament nor its open entries.
LEMMA StillBalanced ==
    ASSUME IInv, IInv', Vacant, NEW t \in TournamentIds, NEW new,
           tournament' = [tournament EXCEPT ![t] = new],
           new.lamports = tournament[t].lamports, new.state # "Absent",
           \A u \in TournamentIds \ {t} : entry'[u] = entry[u],
           Open(entry'[t]) = Open(entry[t]),
           wallet' = wallet, config' = config
    PROVE  Balanced
<1>1. tournament[t] \in TournamentType
  BY DEF IInv, TournamentsSound
<1>2. new.lamports = tournament[t].lamports + 0
  BY <1>1, HeldType
<1>3. HeldBy(new, entry'[t]) = HeldBy(tournament[t], entry[t]) + 0
  BY <1>1, <1>2, HeldKept
<1>4. config'.lamports + 0 + 0 = config.lamports
  BY ConfigLamports
<1>5. HoldingMoves(t, new, 0)
  BY <1>3 DEF HoldingMoves
<1>6. WalletMoves(Admin, 0)
  BY WalletKept
<1> QED
  BY <1>4, <1>5, <1>6, OneMoved

\* An entry of tournament t is closed, the tournament pays out, to player p and
\* to the fees, and p gets the rent of the entry.
LEMMA PaidBalanced ==
    ASSUME IInv, IInv', Vacant, NEW t \in TournamentIds, NEW p \in Players, NEW new,
           NEW out \in Int, NEW fee \in Int,
           tournament' = [tournament EXCEPT ![t] = new],
           entry' = [entry EXCEPT ![t][p] = NoEntry], entry[t][p].open,
           new.lamports = tournament[t].lamports - out, new.state # "Absent",
           wallet' = [wallet EXCEPT ![p] = wallet[p] + (out - fee + EntryRent)],
           config'.lamports = config.lamports + fee,
           config' = config \/ config'.initialized
    PROVE  Balanced
<1> DEFINE tr == tournament[t]
           en == entry[t]
           less == 0 - out
           a == less - EntryRent
           c == out - fee + EntryRent
<1>1. tr \in TournamentType /\ en \in [Players -> EntryType] /\ p \in Wallets
  BY DEF IInv, TournamentsSound, EntriesTyped, Wallets
<1>2. /\ entry'[t] = [en EXCEPT ![p] = NoEntry]
      /\ \A u \in TournamentIds \ {t} : entry'[u] = entry[u]
  BY EntryAt
<1>3. Cardinality(Open(entry'[t])) = Cardinality(Open(en)) - 1
  <2>1. ~NoEntry.open
    BY NoEntryClosed
  <2> QED
    BY <1>1, <1>2, <2>1, OpenClosed
<1>4. tr.lamports \in Int /\ EntryRent \in Int /\ config.lamports \in Int
  BY <1>1, Fields, AmountsAssumption, ConfigLamports, SMTT(40)
<1>5. new.lamports = tr.lamports + less /\ less \in Int
  BY <1>4
<1>6. HeldBy(new, entry'[t]) = HeldBy(tr, en) + a
  <2>1. a \in Int /\ a = less + EntryRent * (-1) /\ -1 \in {-1, 0, 1}
    BY <1>4
  <2>2. Cardinality(Open(entry'[t])) = Cardinality(Open(en)) + (-1)
    BY <1>3, HeldType, <1>1
  <2> HIDE DEF less, a
  <2>3. HeldChange(new, entry'[t], tr, en, less, -1, a)
    BY <1>5, <2>1, <2>2 DEF HeldChange
  <2> QED
    BY <1>1, <2>3, HeldMoves
<1>7. a \in Int /\ c \in Int /\ config'.lamports + a + c = config.lamports
  BY <1>4
<1>8. wallet' = [wallet EXCEPT ![p] = wallet[p] + c]
  OBVIOUS
<1> HIDE DEF a, c
<1>9. WalletMoves(p, c)
  BY <1>1, <1>7, <1>8, WalletMoved
<1>10. HoldingMoves(t, new, a)
  BY <1>2, <1>6, <1>7 DEF HoldingMoves
<1> QED
  BY <1>7, <1>9, <1>10, OneMoved

\* enter_tournament: the player pays the stake, the rent of his entry and of the slot.
LEMMA EnterBalanced ==
    ASSUME IInv, IInv', Vacant, NEW p \in Players, NEW t \in TournamentIds,
           NEW commitment \in Commitments, EnterTournament(p, t, commitment)
    PROVE  Balanced
<1> DEFINE tr == tournament[t]
           en == entry[t]
           e == [NoEntry EXCEPT !.open = TRUE, !.index = NextIndex(tr),
                                !.commitment = commitment]
           new == Entered(tr, p)
<1>1. /\ tr \in TournamentType /\ tr.stake \in Nat /\ wallet[p] \in Nat
      /\ p \in Wallets /\ EntryRent \in Nat
  BY Given
<1>2. /\ tr.state = "Registration" /\ ~en[p].open
      /\ entry' = [entry EXCEPT ![t][p] = e]
      /\ tournament' = [tournament EXCEPT ![t] = new]
      /\ wallet' = [wallet EXCEPT ![p] = wallet[p] - ReallocTopUp(tr) - EntryRent - tr.stake]
      /\ config' = config
  BY DEF EnterTournament
<1>3. ReallocTopUp(tr) \in Nat
  BY <1>1, TopUp
<1> DEFINE a == ReallocTopUp(tr) + tr.stake
           c == -ReallocTopUp(tr) - EntryRent - tr.stake
<1>4. a \in Int /\ c \in Int /\ a + EntryRent \in Int
  BY <1>1, <1>3
<1>5. new.lamports = tr.lamports + a /\ new.state # "Absent"
  <2>1. new.lamports = tr.lamports + ReallocTopUp(tr) + tr.stake
    BY <1>1 DEF Entered, TournamentType
  <2>2. tr.lamports \in Nat
    BY <1>1, HeldType
  <2>3. new.state = tr.state
    BY <1>1, EnteredFields DEF SamePhase
  <2> QED
    BY <1>1, <1>2, <1>3, <2>1, <2>2, <2>3
<1>6. en \in [Players -> EntryType] /\ e.open /\ ~e.revealed
  BY NoEntryType DEF IInv, EntriesTyped, NoEntry, EntryType
<1>7. /\ entry'[t] = [en EXCEPT ![p] = e]
      /\ \A u \in TournamentIds \ {t} : entry'[u] = entry[u]
  BY <1>2, EntryAt
<1> HIDE DEF e, new
<1>8. Cardinality(Open(entry'[t])) = Cardinality(Open(en)) + 1
  BY <1>2, <1>6, <1>7, OpenAdded
<1>9. HeldBy(new, entry'[t]) = HeldBy(tr, en) + (a + EntryRent)
  <2> HIDE DEF a
  <2>1. a + EntryRent = a + EntryRent * 1
    BY <1>1, <1>4
  <2>2. HeldChange(new, entry'[t], tr, en, a, 1, a + EntryRent)
    BY <1>4, <1>5, <1>8, <2>1 DEF HeldChange
  <2> QED
    BY <1>1, <2>2, HeldMoves
<1>10. config'.lamports + (a + EntryRent) + c = config.lamports
  BY <1>1, <1>2, <1>3, ConfigLamports
<1>11. wallet' = [wallet EXCEPT ![p] = wallet[p] + c]
  <2>1. wallet[p] - ReallocTopUp(tr) - EntryRent - tr.stake = wallet[p] + c
    BY <1>1, <1>3
  <2> QED
    BY <1>2, <2>1
<1> HIDE DEF a, c
<1>12. WalletMoves(p, c)
  BY <1>1, <1>4, <1>11, WalletMoved
<1>13. HoldingMoves(t, new, a + EntryRent)
  BY <1>2, <1>4, <1>5, <1>7, <1>9 DEF HoldingMoves
<1> QED
  BY <1>2, <1>10, <1>12, <1>13, OneMoved

\* A reveal or a forfeit moves no lamports.
LEMMA ShownBalanced ==
    ASSUME IInv, IInv', Vacant, NEW t \in TournamentIds, NEW p \in Players, NEW new, NEW e,
           tournament' = [tournament EXCEPT ![t] = new],
           entry' = [entry EXCEPT ![t][p] = e],
           entry[t][p].open, ~entry[t][p].revealed, e.open, e.revealed,
           new.lamports = tournament[t].lamports, new.state # "Absent",
           wallet' = wallet, config' = config
    PROVE  Balanced
<1>1. entry[t] \in [Players -> EntryType]
  BY DEF IInv, EntriesTyped
<1>2. /\ entry'[t] = [entry[t] EXCEPT ![p] = e]
      /\ \A u \in TournamentIds \ {t} : entry'[u] = entry[u]
  BY EntryAt
<1>3. Open(entry'[t]) = Open(entry[t])
  BY <1>1, <1>2, OpenShown
<1> QED
  BY <1>2, <1>3, StillBalanced

\* What reveals, refunds and the start of the matches do to the lamports.
LEMMA RevealedLamports ==
    ASSUME NEW tr \in TournamentType, NEW index, NEW strategy
    PROVE  Revealed(tr, index, strategy).lamports = tr.lamports
  BY DEF Revealed, TournamentType

LEMMA RefundedLamports ==
    ASSUME NEW tr \in TournamentType, NEW index
    PROVE  Refunded(tr, index).lamports = tr.lamports - tr.stake
  BY DEF Refunded, TournamentType

LEMMA StartedLamports ==
    ASSUME NEW tr \in TournamentType, NEW seed
    PROVE  Started(tr, seed).lamports = tr.lamports
  BY DEF Started, TournamentType

\* The instructions of the players, and forfeit_unrevealed.
LEMMA PlayerStepBalanced ==
    ASSUME IInv, IInv', Vacant, NEW t \in TournamentIds, NEW p \in Players, PlayerStep(t, p)
    PROVE  Balanced
<1> DEFINE tr == tournament[t]
           en == entry[t][p]
<1>0. /\ tr \in TournamentType /\ en \in EntryType /\ tr.stake \in Nat
      /\ wallet[p] \in Nat /\ EntryRent \in Nat
  BY Given
<1>1. ASSUME NEW commitment \in Commitments, EnterTournament(p, t, commitment)
      PROVE  Balanced
  BY <1>1, EnterBalanced
<1>2. ASSUME NEW secret \in Secrets, RevealStrategy(p, t, secret)
      PROVE  Balanced
  <2> DEFINE new == Revealed(tr, en.index, secret.strategy)
             e == RevealedEntry(en, secret)
  <2>1. /\ tournament' = [tournament EXCEPT ![t] = new]
        /\ entry' = [entry EXCEPT ![t][p] = e]
        /\ en.open /\ ~en.revealed /\ tr.state = "Reveal"
        /\ wallet' = wallet /\ config' = config
    BY <1>2 DEF RevealStrategy
  <2>2. e.open /\ e.revealed
    BY <1>0, <2>1 DEF RevealedEntry, EntryType
  <2>3. new.lamports = tr.lamports /\ new.state = tr.state
    <3>1. new.lamports = tr.lamports
      BY <1>0, RevealedLamports
    <3>2. SamePhase(new, tr)
      BY <1>0, RevealedFields
    <3> QED
      BY <3>1, <3>2 DEF SamePhase
  <2> HIDE DEF new, e
  <2> QED
    BY <2>1, <2>2, <2>3, ShownBalanced
<1>3. CASE ClaimRefund(p, t)
  <2> DEFINE new == Refunded(tr, en.index)
  <2>1. /\ tournament' = [tournament EXCEPT ![t] = new]
        /\ entry' = [entry EXCEPT ![t][p] = NoEntry]
        /\ en.open /\ tr.state = "Registration"
        /\ wallet' = [wallet EXCEPT ![p] = wallet[p] + tr.stake + EntryRent]
        /\ config' = config
    BY <1>3 DEF ClaimRefund
  <2>2. new.lamports = tr.lamports - tr.stake /\ new.state = tr.state
    BY <1>0, RefundedLamports, RefundedFields, ZenonT(60) DEF SamePhase
  <2>a. PICK fee \in Int : fee = 0
    OBVIOUS
  <2>3. wallet' = [wallet EXCEPT ![p] = wallet[p] + (tr.stake - fee + EntryRent)]
    <3>1. wallet[p] + tr.stake + EntryRent = wallet[p] + (tr.stake - fee + EntryRent)
      BY <1>0, <2>a
    <3> QED
      BY <2>1, <3>1
  <2>4. config'.lamports = config.lamports + fee /\ new.state # "Absent" /\ tr.stake \in Int
    BY <1>0, <2>1, <2>2, <2>a, ConfigLamports
  <2> HIDE DEF new
  <2> QED
    BY <2>1, <2>2, <2>3, <2>4, PaidBalanced
<1>4. CASE ClaimPayout(p, t)
  <2> DEFINE new == Claimed(tr)
  <2>1. /\ tournament' = [tournament EXCEPT ![t] = new]
        /\ entry' = [entry EXCEPT ![t][p] = NoEntry]
        /\ en.open /\ tr.state = "Payout" /\ tr.winner_count > 0
        /\ wallet' = [wallet EXCEPT ![p] = wallet[p] + Share(tr) + EntryRent]
        /\ config' = config
    BY <1>4 DEF ClaimPayout
  <2>2. new.lamports = tr.lamports - Share(tr) /\ new.state = tr.state
    BY <1>0, ClaimedFields DEF SamePhase
  <2>3. Share(tr) \in Nat
    BY <1>0, <2>1, ShareNat
  <2>a. PICK fee \in Int : fee = 0
    OBVIOUS
  <2>4. wallet' = [wallet EXCEPT ![p] = wallet[p] + (Share(tr) - fee + EntryRent)]
    <3>1. wallet[p] + Share(tr) + EntryRent = wallet[p] + (Share(tr) - fee + EntryRent)
      BY <1>0, <2>3, <2>a
    <3> QED
      BY <2>1, <3>1
  <2>5. config'.lamports = config.lamports + fee /\ new.state # "Absent" /\ Share(tr) \in Int
    BY <2>1, <2>2, <2>3, <2>a, ConfigLamports
  <2> HIDE DEF new
  <2> QED
    BY <2>1, <2>2, <2>4, <2>5, PaidBalanced
<1>5. ASSUME NEW byte \in SlotBytes, ForfeitUnrevealed(t, p, byte)
      PROVE  Balanced
  <2> DEFINE mid == Charged(tr)
             new == Revealed(mid, en.index, ForfeitStrategy(byte))
             e == [en EXCEPT !.strategy = ForfeitStrategy(byte), !.revealed = TRUE]
  <2>1. /\ tournament' = [tournament EXCEPT ![t] = new]
        /\ entry' = [entry EXCEPT ![t][p] = e]
        /\ en.open /\ ~en.revealed /\ tr.state = "Reveal"
        /\ wallet' = wallet /\ config' = config
    BY <1>5 DEF ForfeitUnrevealed
  <2>2. e.open /\ e.revealed
    BY <1>0, <2>1 DEF EntryType
  <2>3. mid \in TournamentType /\ mid.lamports = tr.lamports /\ mid.state = tr.state
    <3>1. tr.state \in Live /\ Sound(tr) /\ config \in ConfigType
      BY <2>1 DEF Live, IInv, TournamentsSound
    <3> QED
      BY <1>0, <3>1, ChargedSound, ChargedFields DEF Sound
  <2> HIDE DEF mid
  <2>4. new.lamports = mid.lamports /\ new.state = mid.state
    <3>1. new.lamports = mid.lamports
      BY <2>3, RevealedLamports
    <3>2. SamePhase(new, mid)
      BY <2>3, RevealedFields
    <3> QED
      BY <3>1, <3>2 DEF SamePhase
  <2> HIDE DEF new, e
  <2> QED
    BY <2>1, <2>2, <2>3, <2>4, ShownBalanced
<1> QED
  BY <1>1, <1>2, <1>3, <1>4, <1>5 DEF PlayerStep

\* close_entry: the share goes to the player or, past the deadline, to the fees.
LEMMA CloseEntryBalanced ==
    ASSUME IInv, LifeInv, IInv', Vacant, NEW t \in TournamentIds, NEW p \in Players,
           CloseEntry(t, p)
    PROVE  Balanced
<1> DEFINE tr == tournament[t]
           en == entry[t][p]
           new == EntryClosed(tr, en)
           out == ClosingTransfer(tr, en)
           fee == IF Expired(tr) THEN out ELSE 0
<1>0. /\ tr \in TournamentType /\ wallet[p] \in Nat /\ EntryRent \in Nat
      /\ config \in ConfigType /\ FeesBacked
  BY Given
<1>1. /\ tournament' = [tournament EXCEPT ![t] = new]
      /\ entry' = [entry EXCEPT ![t][p] = NoEntry]
      /\ en.open /\ tr.state = "Payout"
      /\ config' = Collected(config, fee)
      /\ wallet' = [wallet EXCEPT ![p] = wallet[p] + (out - fee) + EntryRent]
  BY DEF CloseEntry
<1>2. out \in Nat
  BY <1>0, ClosingTransferBound
<1>3. new.lamports = tr.lamports - out /\ new.state = tr.state
  BY <1>0, EntryClosedFields DEF SamePhase
<1> HIDE DEF new, out
<1>4. fee \in Nat
  BY <1>2
<1> HIDE DEF fee
<1>5. config'.lamports = config.lamports + fee /\ config'.initialized
  <2>1. config.initialized
    BY <1>1 DEF LifeInv, Dormant
  <2> QED
    BY <1>0, <1>1, <2>1 DEF Collected, ConfigType
<1>6. wallet' = [wallet EXCEPT ![p] = wallet[p] + (out - fee + EntryRent)]
  <2>1. wallet[p] + (out - fee) + EntryRent = wallet[p] + (out - fee + EntryRent)
    BY <1>0, <1>2, <1>4
  <2> QED
    BY <1>1, <2>1
<1>7. out \in Int /\ fee \in Int /\ new.state # "Absent"
  BY <1>1, <1>2, <1>3, <1>4
<1> QED
  BY <1>1, <1>3, <1>5, <1>6, <1>7, PaidBalanced

\* close_registration and run_matches move nothing.
LEMMA CloseRegistrationBalanced ==
    ASSUME IInv, IInv', Vacant, NEW t \in TournamentIds, CloseRegistration(t)
    PROVE  Balanced
<1> DEFINE tr == tournament[t]
           mid == Charged(tr)
           new == [mid EXCEPT !.state = "Reveal", !.reveal_ends = now + tr.reveal_duration]
<1>1. /\ tournament' = [tournament EXCEPT ![t] = new]
      /\ tr.state = "Registration" /\ UNCHANGED <<config, entry, wallet>>
  BY DEF CloseRegistration
<1>2. mid \in TournamentType /\ mid.lamports = tr.lamports
  <2>1. tr.state \in Live /\ Sound(tr) /\ config \in ConfigType
    BY <1>1 DEF Live, IInv, TournamentsSound
  <2> QED
    BY <2>1, ChargedSound, ChargedFields DEF Sound
<1> HIDE DEF mid
<1>3. new.lamports = tr.lamports /\ new.state # "Absent"
  BY <1>2 DEF TournamentType
<1> HIDE DEF new
<1> QED
  BY <1>1, <1>3, StillBalanced

LEMMA RunMatchesBalanced ==
    ASSUME IInv, IInv', Vacant, NEW t \in TournamentIds, RunMatches(t)
    PROVE  Balanced
<1>1. PICK new :
         /\ BatchScored(new, [tr |-> tournament[t], en |-> entry[t]])
         /\ new.tr \in TournamentType /\ new.en \in [Players -> EntryType]
         /\ tournament' = [tournament EXCEPT ![t] = new.tr]
         /\ entry' = [entry EXCEPT ![t] = new.en]
         /\ tournament[t].state = "Running"
         /\ UNCHANGED <<now, config, wallet>>
  BY RunMatchesUpdate
<1>2. entry'[t] = new.en /\ \A u \in TournamentIds \ {t} : entry'[u] = entry[u]
  BY <1>1 DEF IInv, EntriesTyped
<1>3. new.tr.lamports = tournament[t].lamports /\ new.tr.state = tournament[t].state
  BY <1>1 DEF BatchScored, ScoredOnly, SamePhase
<1>4. Open(new.en) = Open(entry[t])
  BY <1>1 DEF BatchScored, SameButScore, Open
<1>5. Open(entry'[t]) = Open(entry[t]) /\ new.tr.state # "Absent"
  BY <1>1, <1>2, <1>3, <1>4
<1> DEFINE account == new.tr
<1>6. tournament' = [tournament EXCEPT ![t] = account] /\ wallet' = wallet /\ config' = config
  BY <1>1
<1>7. account.lamports = tournament[t].lamports /\ account.state # "Absent"
  BY <1>3, <1>5
<1> HIDE DEF account
<1> QED
  BY <1>2, <1>5, <1>6, <1>7, StillBalanced

\* close_tournament: what is left goes to the fees.
LEMMA CloseTournamentBalanced ==
    ASSUME IInv, LifeInv, IInv', Vacant, NEW t \in TournamentIds, CloseTournament(t)
    PROVE  Balanced
<1> DEFINE tr == tournament[t]
           less == 0 - tr.lamports
<1>1. /\ tr.state = "Payout"
      /\ tournament' = [tournament EXCEPT ![t] = NoTournament]
      /\ config' = Collected(config, tr.lamports)
      /\ UNCHANGED <<entry, wallet>>
  BY DEF CloseTournament, Closable
<1>2. tr \in TournamentType /\ config \in ConfigType
  BY DEF IInv, TournamentsSound
<1>3. tr.lamports \in Nat /\ config.lamports \in Nat /\ NoTournament.lamports = 0
  BY <1>2, Fields, ConfigLamports DEF NoTournament
<1>4. config'.lamports = config.lamports + tr.lamports /\ config'.initialized
  <2>1. config.initialized
    BY <1>1 DEF LifeInv, Dormant
  <2> QED
    BY <1>1, <1>2, <2>1 DEF Collected, ConfigType
<1>5. less \in Int /\ NoTournament.lamports = tr.lamports + less
  BY <1>3
<1>6. config'.lamports + less + 0 = config.lamports
  BY <1>3, <1>4
<1> HIDE DEF less
<1>7. HeldBy(NoTournament, entry'[t]) = HeldBy(tr, entry[t]) + less
  BY <1>1, <1>2, <1>5, HeldKept
<1>8. HoldingMoves(t, NoTournament, less)
  BY <1>1, <1>3, <1>5, <1>7 DEF HoldingMoves
<1>9. WalletMoves(Admin, 0)
  BY <1>1, WalletKept
<1> QED
  BY <1>4, <1>6, <1>8, <1>9, OneMoved

\* close_reveal with an even count moves nothing.
LEMMA CloseRevealEvenBalanced ==
    ASSUME IInv, IInv', Vacant, NEW t \in TournamentIds, NEW seed \in Seeds,
           CloseRevealEven(t, seed)
    PROVE  Balanced
<1> DEFINE tr == tournament[t]
           mid == Charged(tr)
           new == Started(mid, seed)
<1>1. /\ tournament' = [tournament EXCEPT ![t] = new]
      /\ UNCHANGED <<config, entry, wallet>>
      /\ tr \in TournamentType /\ mid \in TournamentType
  BY CloseRevealEvenUpdate
<1>2. mid.lamports = tr.lamports
  BY <1>1, ChargedFields
<1> HIDE DEF mid
<1>3. new.lamports = mid.lamports /\ new.state = "Running"
  BY <1>1, StartedLamports, StartedFields
<1> HIDE DEF new
<1> QED
  BY <1>1, <1>2, <1>3, StillBalanced

\* The stake comes out of tournament t, the rent out of an entry that may belong
\* to another tournament r.
LEMMA CloseRevealOddBalanced ==
    ASSUME IInv, IInv', Vacant, NEW t \in TournamentIds, NEW seed \in Seeds,
           NEW r \in TournamentIds, CloseRevealOdd(t, seed, r)
    PROVE  Balanced
<1> DEFINE tr == tournament[t]
           mid == Charged(tr)
<1>1. PICK last \in LastActive(tr) :
         LET less == LastRefunded(mid, last)
             new  == Started(less, seed)
             p    == tr.players[last + 1]
         IN  /\ tournament' = [tournament EXCEPT ![t] = new]
             /\ UNCHANGED <<now, config>>
             /\ p \in Players
             /\ entry[r][p].open
             /\ entry' = [entry EXCEPT ![r][p] = NoEntry]
             /\ wallet' = [wallet EXCEPT ![p] = wallet[p] + tr.stake + EntryRent]
             /\ tr \in TournamentType /\ mid \in TournamentType
             /\ Refunded(mid, last) \in TournamentType
             /\ less \in TournamentType /\ new \in TournamentType
  BY CloseRevealOddUpdate
<1> DEFINE less == LastRefunded(mid, last)
           new  == Started(less, seed)
           p    == tr.players[last + 1]
           a    == 0 - tr.stake
           b    == 0 - EntryRent
           c    == tr.stake + EntryRent
<1>2. /\ p \in Wallets /\ wallet[p] \in Nat /\ EntryRent \in Nat /\ tr.stake \in Nat
      /\ tr.lamports \in Nat
  BY <1>1, Given, Fields
<1>3. mid.lamports = tr.lamports /\ mid.stake = tr.stake
  BY <1>1, ChargedFields DEF SameTerms
<1>4. less.lamports = tr.lamports - tr.stake
  <2> DEFINE back == Refunded(mid, last)
  <2> HIDE DEF mid
  <2>1. back.lamports = mid.lamports - mid.stake
    BY <1>1, RefundedLamports
  <2>2. back \in TournamentType /\ less = [back EXCEPT !.reveals_completed = @ - 1]
    BY <1>1 DEF LastRefunded
  <2> HIDE DEF back, less
  <2>3. less.lamports = back.lamports
    BY <2>2 DEF TournamentType
  <2> QED
    BY <1>3, <2>1, <2>3
<1>5. /\ tournament' = [tournament EXCEPT ![t] = new]
      /\ entry' = [entry EXCEPT ![r][p] = NoEntry]
      /\ wallet' = [wallet EXCEPT ![p] = wallet[p] + tr.stake + EntryRent]
      /\ config' = config /\ entry[r][p].open /\ p \in Players
  BY <1>1
<1>6. less \in TournamentType
  BY <1>1
<1> HIDE DEF less
<1>7. new.lamports = less.lamports /\ new.state = "Running"
  BY <1>6, StartedLamports, StartedFields
<1> HIDE DEF new, p
<1>8. a \in Int /\ b \in Int /\ c \in Int /\ new.lamports = tr.lamports + a
      /\ config'.lamports + a + b + c = config.lamports
  BY <1>2, <1>4, <1>5, <1>7, ConfigLamports
<1>9. WalletMoves(p, c)
  <2>1. wallet' = [wallet EXCEPT ![p] = wallet[p] + c]
    <3>1. wallet[p] + tr.stake + EntryRent = wallet[p] + c
      BY <1>2
    <3> QED
      BY <1>5, <3>1
  <2> HIDE DEF c
  <2> QED
    BY <1>2, <1>8, <2>1, WalletMoved
<1>10. tournament'[t] = new /\ \A u \in TournamentIds \ {t} : tournament'[u] = tournament[u]
  BY <1>5 DEF IInv, TournamentsSound
<1>11. HoldingsMove(t, a, r, b)
  <2>1. /\ Cardinality(Open(entry'[r])) = Cardinality(Open(entry[r])) - 1
        /\ \A u \in TournamentIds \ {r} : entry'[u] = entry[u]
    <3>1. entry[r] \in [Players -> EntryType] /\ ~NoEntry.open
      BY NoEntryClosed DEF IInv, EntriesTyped
    <3>2. /\ entry'[r] = [entry[r] EXCEPT ![p] = NoEntry]
          /\ \A u \in TournamentIds \ {r} : entry'[u] = entry[u]
      BY <1>5, EntryAt
    <3> QED
      BY <1>5, <3>1, <3>2, OpenClosed
  <2>2. ASSUME NEW u \in TournamentIds
        PROVE  HeldBy(tournament'[u], entry'[u]) =
                   HeldBy(tournament[u], entry[u]) + (IF u = t THEN a ELSE 0)
                                                   + (IF u = r THEN b ELSE 0)
    <3>1. tournament[u] \in TournamentType /\ HeldBy(tournament[u], entry[u]) \in Int
          /\ tournament[u].lamports \in Nat
      BY HeldType DEF IInv, TournamentsSound
    <3>2. PICK d \in Int : d = IF u = t THEN a ELSE 0
      BY <1>8
    <3>3. tournament'[u].lamports = tournament[u].lamports + d
      <4>1. CASE u = t
        BY <1>8, <1>10, <3>2, <4>1
      <4>2. CASE u # t
        BY <1>10, <3>1, <3>2, <4>2
      <4> QED
        BY <4>1, <4>2
    <3>4. CASE u = r
      <4>1. HeldBy(tournament'[u], entry'[u]) = HeldBy(tournament[u], entry[u]) + (d - EntryRent)
        <5>1. d - EntryRent \in Int /\ d - EntryRent = d + EntryRent * (-1)
          BY <1>2
        <5>2. Cardinality(Open(entry'[u])) = Cardinality(Open(entry[u])) + (-1)
          BY <2>1, <3>1, <3>4, HeldType
        <5>3. HeldChange(tournament'[u], entry'[u], tournament[u], entry[u], d, -1, d - EntryRent)
          BY <3>3, <5>1, <5>2 DEF HeldChange
        <5> QED
          BY <3>1, <5>3, HeldMoves
      <4> QED
        BY <1>2, <3>1, <3>2, <3>4, <4>1
    <3>5. CASE u # r
      <4>1. HeldBy(tournament'[u], entry'[u]) = HeldBy(tournament[u], entry[u]) + d
        BY <2>1, <3>1, <3>3, <3>5, HeldKept
      <4> QED
        BY <3>1, <3>2, <3>5, <4>1
    <3> QED
      BY <3>4, <3>5
  <2> HIDE DEF a, b
  <2> QED
    BY <1>8, <2>2 DEF HoldingsMove
<1> HIDE DEF a, b, c
<1>12. Holdings' = Holdings
  BY <1>8, <1>9, <1>11, Moved
<1>13. Vacant'
  BY <1>5, <1>7, <1>10 DEF Vacant
<1> QED
  BY <1>12, <1>13 DEF Balanced

LEMMA CloseRevealBalanced ==
    ASSUME IInv, IInv', Vacant, NEW t \in TournamentIds, CloseReveal(t)
    PROVE  Balanced
  BY CloseRevealEvenBalanced, CloseRevealOddBalanced DEF CloseReveal

\* A tournament that is opened holds the rent of its account.
LEMMA NewLamports ==
    ASSUME NEW c
    PROVE  NewTournament(c).lamports = BaseRent /\ NewTournament(c).state # "Absent"
  BY DEF NewTournament, NoTournament

\* finalize_tournament: fees and costs leave the tournament, the operator pays the
\* rent of the next one.
LEMMA FinalizeBalanced ==
    ASSUME IInv, LifeInv, IInv', Vacant, NEW t \in TournamentIds, FinalizeTournament(t)
    PROVE  Balanced
<1> DEFINE tr == tournament[t]
           next == config.current_tournament_id + 1
           fresh == NewTournament(config)
<1>1. /\ tr \in TournamentType /\ config.initialized
      /\ next \in TournamentIds /\ next # t /\ tournament[next].state = "Absent"
      /\ entry' = entry
  BY FinalizeUpdate
<1>2. PICK threshold \in WinningThreshold(tr) :
          LET s == Settlement(tr, threshold)
          IN  /\ tournament' = [tournament EXCEPT ![t] = Finalized(tr, threshold),
                                                  ![next] = fresh]
              /\ config' = [Collected(config, s.fees) EXCEPT !.current_tournament_id = next]
              /\ wallet' = [wallet EXCEPT ![config.operator] =
                                wallet[config.operator] - BaseRent + s.reimbursed]
  BY FinalizeUpdate
<1> DEFINE s == Settlement(tr, threshold)
           done == Finalized(tr, threshold)
<1>3. s.fees \in Nat /\ s.reimbursed \in Nat
  BY SettlementType DEF IInv, TournamentsSound
<1>4. done.lamports = tr.lamports - s.fees - s.reimbursed /\ done.state = "Payout"
  BY <1>1, FinalizedFields
<1>5. fresh.lamports = BaseRent /\ fresh.state # "Absent"
  BY NewLamports
<1>6. config' = [Collected(config, s.fees) EXCEPT !.current_tournament_id = next]
  BY <1>2
<1>7. tournament' = [tournament EXCEPT ![t] = done, ![next] = fresh]
  BY <1>2
<1>8. wallet' = [wallet EXCEPT ![config.operator] =
                     wallet[config.operator] - BaseRent + s.reimbursed]
  BY <1>2
<1> HIDE DEF s, done, fresh
<1>9. config'.lamports = config.lamports + s.fees /\ config'.initialized
  <2>1. config \in ConfigType
    BY DEF IInv
  <2> QED
    BY <1>1, <1>6, <2>1 DEF Collected, ConfigType
<1> HIDE DEF next
<1>10. /\ tournament'[t] = done /\ tournament'[next] = fresh
       /\ \A u \in TournamentIds \ {t, next} : tournament'[u] = tournament[u]
  BY <1>1, <1>7 DEF IInv, TournamentsSound
<1>11. tournament[next].lamports = 0
  BY <1>1 DEF Vacant
<1> DEFINE a == 0 - s.fees - s.reimbursed
           b == BaseRent
           c == s.reimbursed - BaseRent
           o == config.operator
<1>12. /\ BaseRent \in Nat /\ o \in Wallets /\ wallet[o] \in Nat /\ tr.lamports \in Nat
       /\ tournament[next] \in TournamentType
  BY <1>1, AmountsAssumption, Fields DEF IInv, ConfigType, Wallets, TournamentsSound
<1>13. /\ a \in Int /\ b \in Int /\ c \in Int
       /\ done.lamports = tr.lamports + a
       /\ fresh.lamports = tournament[next].lamports + b
       /\ config'.lamports + a + b + c = config.lamports
  BY <1>3, <1>4, <1>5, <1>9, <1>11, <1>12, ConfigLamports
<1>14. WalletMoves(o, c)
  <2>1. wallet' = [wallet EXCEPT ![o] = wallet[o] + c]
    <3>1. wallet[o] - BaseRent + s.reimbursed = wallet[o] + c
      BY <1>3, <1>12
    <3> QED
      BY <1>8, <3>1
  <2> HIDE DEF c
  <2> QED
    BY <1>12, <1>13, <2>1, WalletMoved
<1> HIDE DEF a, b, c
<1>15. HoldingsMove(t, a, next, b)
  <2>1. HeldBy(done, entry[t]) = HeldBy(tr, entry[t]) + a
    BY <1>1, <1>13, HeldKept
  <2>2. HeldBy(fresh, entry[next]) = HeldBy(tournament[next], entry[next]) + b
    BY <1>12, <1>13, HeldKept
  <2>3. ASSUME NEW u \in TournamentIds
        PROVE  HeldBy(tournament'[u], entry'[u]) =
                   HeldBy(tournament[u], entry[u]) + (IF u = t THEN a ELSE 0)
                                                   + (IF u = next THEN b ELSE 0)
    <3>1. HeldBy(tournament[u], entry[u]) \in Int
      BY HeldType DEF IInv, TournamentsSound
    <3>2. CASE u = t
      BY <1>1, <1>10, <1>13, <2>1, <3>1, <3>2
    <3>3. CASE u = next
      BY <1>1, <1>10, <1>13, <2>2, <3>1, <3>3
    <3>4. CASE u # t /\ u # next
      BY <1>1, <1>10, <3>1, <3>4
    <3> QED
      BY <3>2, <3>3, <3>4
  <2> QED
    BY <1>13, <2>3 DEF HoldingsMove
<1>16. Holdings' = Holdings
  BY <1>1, <1>13, <1>14, <1>15, Moved
<1>17. Vacant'
  <2>1. ASSUME NEW u \in TournamentIds, tournament'[u].state = "Absent"
        PROVE  tournament'[u].lamports = 0
    BY <1>4, <1>5, <1>10, <2>1 DEF Vacant
  <2> QED
    BY <1>9, <2>1 DEF Vacant
<1> QED
  BY <1>16, <1>17 DEF Balanced

\* initialize_config: the admin pays the rent of the Config and of tournament 0.
LEMMA InitializeConfigBalanced ==
    ASSUME IInv, LifeInv, IInv', Vacant, NEW params \in InitParams, InitializeConfig(params)
    PROVE  Balanced
<1> DEFINE fresh == NewTournament(config')
           a == BaseRent
           c == 0 - ConfigRent - BaseRent
<1>1. /\ ~config.initialized /\ config'.initialized /\ config'.lamports = ConfigRent
      /\ tournament' = [tournament EXCEPT ![0] = fresh] /\ entry' = entry
      /\ wallet' = [wallet EXCEPT ![Admin] = wallet[Admin] - ConfigRent - BaseRent]
  BY DEF InitializeConfig
<1>2. 0 \in TournamentIds /\ tournament[0] \in TournamentType
  BY AmountsAssumption DEF IInv, TournamentsSound, TournamentIds
<1>3. tournament[0].lamports = 0 /\ config.lamports = 0
  BY <1>1, <1>2 DEF Vacant, LifeInv, Dormant
<1>4. /\ fresh.lamports = BaseRent /\ fresh.state # "Absent"
      /\ BaseRent \in Nat /\ ConfigRent \in Nat
  BY NewLamports, AmountsAssumption
<1> HIDE DEF fresh
<1>5. Admin \in Wallets /\ wallet[Admin] \in Nat
  BY DEF IInv, Wallets
<1>6. /\ a \in Int /\ c \in Int /\ fresh.lamports = tournament[0].lamports + a
      /\ config'.lamports + a + c = config.lamports
  BY <1>1, <1>3, <1>4
<1>7. wallet' = [wallet EXCEPT ![Admin] = wallet[Admin] + c]
  <2>1. wallet[Admin] - ConfigRent - BaseRent = wallet[Admin] + c
    BY <1>4, <1>5
  <2> QED
    BY <1>1, <2>1
<1> HIDE DEF a, c
<1>8. WalletMoves(Admin, c)
  BY <1>5, <1>6, <1>7, WalletMoved
<1>9. HeldBy(fresh, entry'[0]) = HeldBy(tournament[0], entry[0]) + a
  BY <1>1, <1>2, <1>6, HeldKept
<1>10. HoldingMoves(0, fresh, a)
  BY <1>1, <1>4, <1>6, <1>9 DEF HoldingMoves
<1> QED
  BY <1>1, <1>2, <1>6, <1>8, <1>10, OneMoved

\* A step that leaves the tournaments and their entries alone.
LEMMA TreasuryBalanced ==
    ASSUME IInv, IInv', Vacant, NEW w, NEW c, WalletMoves(w, c),
           tournament' = tournament, entry' = entry,
           config'.initialized = config.initialized,
           config'.lamports + c = config.lamports,
           config.initialized \/ config'.lamports = config.lamports
    PROVE  Balanced
<1>1. 0 \in TournamentIds /\ config.lamports \in Int /\ config'.lamports \in Int
  BY AmountsAssumption DEF TournamentIds, IInv, ConfigType
<1>2. \A u \in TournamentIds : HeldBy(tournament[u], entry[u]) \in Int
  BY HeldType DEF IInv, TournamentsSound
<1>3. HoldingsMove(0, 0, 0, 0)
  BY <1>2 DEF HoldingsMove
<1>4. PICK a : HoldingsMove(0, a, 0, a) /\ config'.lamports + a + a + c = config.lamports
  <2>1. c \in Int
    BY DEF WalletMoves
  <2>2. config'.lamports + 0 + 0 + c = config.lamports
    BY <1>1, <2>1
  <2> QED
    BY <1>3, <2>2
<1>5. Holdings' = Holdings
  BY <1>1, <1>4, Moved
<1>6. Vacant'
  BY DEF Vacant
<1> QED
  BY <1>5, <1>6 DEF Balanced

\* withdraw_fees: from the Config to the admin.
LEMMA WithdrawFeesBalanced ==
    ASSUME IInv, IInv', Vacant, WithdrawFees
    PROVE  Balanced
<1> DEFINE amount == Lesser(config.accumulated_fees, Monus(config.lamports, ConfigRent))
<1>1. config \in ConfigType
  BY DEF IInv
<1>2. config.accumulated_fees \in Nat /\ config.lamports \in Nat /\ ConfigRent \in Nat
  BY <1>1, AmountsAssumption DEF ConfigType
<1>3. amount \in Nat /\ amount <= config.lamports
  BY <1>2 DEF Lesser, Monus, Greater
<1>4. /\ config' = [config EXCEPT !.accumulated_fees = config.accumulated_fees - amount,
                                  !.lamports = config.lamports - amount]
      /\ wallet' = [wallet EXCEPT ![Admin] = wallet[Admin] + amount]
      /\ UNCHANGED <<tournament, entry>>
  BY DEF WithdrawFees
<1> HIDE DEF amount
<1>5. /\ config'.initialized = config.initialized
      /\ config'.lamports = config.lamports - amount
  BY <1>1, <1>4 DEF ConfigType
<1>6. WalletMoves(Admin, amount)
  <2>1. Admin \in Wallets /\ amount \in Int
    BY <1>3 DEF Wallets
  <2> QED
    BY <1>4, <2>1, WalletMoved
<1>7. config'.lamports + amount = config.lamports
  BY <1>2, <1>3, <1>5
<1>8. config.initialized \/ config'.lamports = config.lamports
  BY <1>2, <1>3, <1>5 DEF Vacant
<1> QED
  BY <1>4, <1>5, <1>6, <1>7, <1>8, TreasuryBalanced

\* update_config moves nothing.
LEMMA UpdateConfigBalanced ==
    ASSUME IInv, IInv', Vacant, NEW params \in ConfigUpdates, UpdateConfig(params)
    PROVE  Balanced
<1> DEFINE new == [config EXCEPT
              !.operator = Updated(params.operator, config.operator),
              !.house_fee_bps = Updated(params.house_fee_bps, config.house_fee_bps),
              !.stake = Updated(params.stake, config.stake),
              !.min_participants =
                  Updated(params.min_participants, config.min_participants),
              !.max_participants = Updated(params.max_participants, config.max_participants),
              !.registration_duration =
                  Updated(params.registration_duration, config.registration_duration),
              !.matches_per_player =
                  Updated(params.matches_per_player, config.matches_per_player),
              !.reveal_duration = Updated(params.reveal_duration, config.reveal_duration),
              !.operator_tx_fee = Updated(params.operator_tx_fee, config.operator_tx_fee)]
<1>1. config' = new /\ config \in ConfigType /\ UNCHANGED <<tournament, entry, wallet>>
  BY DEF UpdateConfig, IInv
<1>2. new.lamports = config.lamports /\ new.initialized = config.initialized
  BY <1>1 DEF ConfigType
<1> HIDE DEF new
<1>3. WalletMoves(Admin, 0) /\ config.lamports \in Nat
  BY <1>1, WalletKept, ConfigLamports
<1>4. config'.lamports + 0 = config.lamports
  BY <1>1, <1>2, <1>3
<1> QED
  BY <1>1, <1>2, <1>3, <1>4, TreasuryBalanced

\* Every step moves lamports between accounts only.
LEMMA NextBalanced == IInv /\ LifeInv /\ Vacant /\ IInv' /\ [Next]_vars => Balanced
<1> SUFFICES ASSUME IInv, LifeInv, Vacant, IInv', [Next]_vars PROVE Balanced
  OBVIOUS
<1>1. CASE Tick \/ UNCHANGED vars
  <2>1. UNCHANGED <<config, tournament, entry, wallet>>
    BY <1>1 DEF Tick, vars
  <2>2. WalletMoves(Admin, 0) /\ config.lamports \in Nat
    BY <2>1, WalletKept, ConfigLamports
  <2>3. config'.lamports + 0 = config.lamports /\ config'.initialized = config.initialized
    BY <2>1, <2>2
  <2> QED
    BY <2>1, <2>2, <2>3, TreasuryBalanced
<1>2. CASE \E params \in InitParams : InitializeConfig(params)
  BY <1>2, InitializeConfigBalanced
<1>3. CASE \E params \in ConfigUpdates : UpdateConfig(params)
  BY <1>3, UpdateConfigBalanced
<1>4. CASE WithdrawFees
  BY <1>4, WithdrawFeesBalanced
<1>5. ASSUME NEW t \in TournamentIds, NEW p \in Players, PlayerStep(t, p)
      PROVE  Balanced
  BY <1>5, PlayerStepBalanced
<1>6. ASSUME NEW t \in TournamentIds, NEW p \in Players, CloseEntry(t, p)
      PROVE  Balanced
  BY <1>6, CloseEntryBalanced
<1>7. ASSUME NEW t \in TournamentIds, CloseRegistration(t) PROVE Balanced
  BY <1>7, CloseRegistrationBalanced
<1>8. ASSUME NEW t \in TournamentIds, CloseReveal(t) PROVE Balanced
  BY <1>8, CloseRevealBalanced
<1>9. ASSUME NEW t \in TournamentIds, RunMatches(t) PROVE Balanced
  BY <1>9, RunMatchesBalanced
<1>10. ASSUME NEW t \in TournamentIds, FinalizeTournament(t) PROVE Balanced
  BY <1>10, FinalizeBalanced
<1>11. ASSUME NEW t \in TournamentIds, CloseTournament(t) PROVE Balanced
  BY <1>11, CloseTournamentBalanced
<1> QED
  BY <1>1, <1>2, <1>3, <1>4, <1>5, <1>6, <1>7, <1>8, <1>9, <1>10, <1>11
  DEF Next, PlayerStep

\* Before initialize_config all lamports are in the wallets.
LEMMA LedgerInit == Init => LamportsConserved /\ Vacant
<1> SUFFICES ASSUME Init PROVE LamportsConserved /\ Vacant
  OBVIOUS
<1>1. /\ config.lamports = 0 /\ wallet = [w \in Wallets |-> InitialWallet]
      /\ \A t \in TournamentIds : tournament[t].lamports = 0
  BY DEF Init, NoConfig, NoTournament
<1>2. \A t \in TournamentIds : OpenEntries(t) = {}
  BY DEF Init, OpenEntries, NoEntry
<1>3. Held = [t \in TournamentIds |-> 0]
  <2>1. ASSUME NEW t \in TournamentIds
        PROVE  tournament[t].lamports + EntryRent * Cardinality(OpenEntries(t)) = 0
    <3>1. Cardinality(OpenEntries(t)) = 0
      BY <1>2, FS_EmptySet
    <3>2. EntryRent \in Nat /\ tournament[t].lamports = 0
      BY <1>1, AmountsAssumption
    <3> QED
      BY <3>1, <3>2
  <2> QED
    BY <2>1 DEF Held
<1>4. SumFunction(Held) = 0
  <2>1. SumFunction([t \in TournamentIds |-> 0]) = 0 * Cardinality(TournamentIds)
    <3>1. 0 \in Int
      OBVIOUS
    <3> QED
      BY <3>1, LedgerFinite, SumConstant, Zenon
  <2>2. Cardinality(TournamentIds) \in Nat
    BY LedgerFinite, FS_CardinalityType
  <2> QED
    BY <1>3, <2>1, <2>2
<1>5. SumFunction(wallet) = InitialWallet * Cardinality(Wallets)
  <2>1. InitialWallet \in Int
    BY AmountsAssumption
  <2> QED
    BY <1>1, <2>1, LedgerFinite, SumConstant
<1>6. InitialWallet * Cardinality(Wallets) \in Int
  <2>1. Cardinality(Wallets) \in Nat /\ InitialWallet \in Nat
    BY LedgerFinite, FS_CardinalityType, AmountsAssumption
  <2> QED
    BY <2>1
<1>7. LamportsConserved
  BY <1>1, <1>4, <1>5, <1>6 DEF LamportsConserved, Holdings
<1> QED
  BY <1>1, <1>7 DEF Vacant

\* No instruction creates or loses lamports, in any order of calls and whichever
\* entry close_reveal is given: what the Config, the tournaments, their entries
\* and the wallets hold together is what the wallets held at first.  The rent of
\* slots, entries and accounts and the dust of the division are included.
THEOREM LamportsAreConserved == Spec => []LamportsConserved
<1> DEFINE Inv == IInv /\ LifeInv /\ Vacant /\ LamportsConserved
<1>1. Init => Inv
  BY InitIInv, LifeInit, LedgerInit
<1>2. Inv /\ [Next]_vars => Inv'
  <2> SUFFICES ASSUME Inv, [Next]_vars PROVE Inv'
    OBVIOUS
  <2>1. IInv' /\ LifeInv'
    BY NextIInv, NextLife
  <2>2. Balanced
    BY <2>1, NextBalanced
  <2> QED
    BY <2>1, <2>2 DEF Balanced, LamportsConserved
<1> QED
  BY <1>1, <1>2, PTL DEF Spec

-----------------------------------------------------------------------------
(***************************************************************************)
(* Escrow                                                                  *)
(***************************************************************************)
\* The refinement mapping of ArenaProps, variable by variable.
Phases == [t \in TournamentIds |-> EscrowPhase(t)]
Rosters == [t \in TournamentIds |-> OpenEntries(t)]
PointsOf(en) == [p \in Players |-> en[p].score]
Points == [t \in TournamentIds |-> PointsOf(entry[t])]
WinnersOf(t) == IF tournament[t].state = "Payout" THEN OpenWinners(t) ELSE {}
Champions == [t \in TournamentIds |-> WinnersOf(t)]

\* Scores are made in matches, by those who take part.
Scored(tr, en) ==
    \A p \in Players : ~en[p].open \/ tr.state \in Early => en[p].score = 0

ScoreInv == \A t \in TournamentIds : Scored(tournament[t], entry[t])

-----------------------------------------------------------------------------
(***************************************************************************)
(* The steps of Escrow, through the mapping                                *)
(***************************************************************************)
\* Escrow counts as this module does.
LEMMA SameSize ==
    ASSUME NEW S
    PROVE  Promise!Cardinality(S) = Cardinality(S)
  BY ONLY Zenon DEF Promise!Cardinality, Cardinality

LEMMA EscrowStutter ==
    ASSUME UNCHANGED <<Phases, Rosters, Points, Champions>>
    PROVE  UNCHANGED Promise!vars
  BY DEF Promise!vars, Phases, Rosters, Points, PointsOf, Champions, WinnersOf

LEMMA EscrowOpenFirst ==
    ASSUME \A t \in TournamentIds : Phases[t] = "Unused",
           Phases' = [Phases EXCEPT ![0] = "Open"],
           UNCHANGED <<Rosters, Points, Champions>>
    PROVE  Promise!Next
  BY DEF Promise!Next, Promise!OpenFirst, Phases, Rosters, Points, PointsOf, Champions, WinnersOf

LEMMA EscrowDeposit ==
    ASSUME NEW t \in TournamentIds, NEW p \in Players,
           Phases[t] = "Open", p \notin Rosters[t],
           Rosters' = [Rosters EXCEPT ![t] = Rosters[t] \cup {p}],
           UNCHANGED <<Phases, Points, Champions>>
    PROVE  Promise!Next
<1>1. Promise!Deposit(t, p)
  BY DEF Promise!Deposit, Phases, Rosters, Points, PointsOf, Champions, WinnersOf
<1> QED
  BY <1>1 DEF Promise!Next

LEMMA EscrowRefund ==
    ASSUME NEW t \in TournamentIds, NEW p \in Players,
           Phases[t] = "Open", p \in Rosters[t],
           Rosters' = [Rosters EXCEPT ![t] = Rosters[t] \ {p}],
           UNCHANGED <<Phases, Points, Champions>>
    PROVE  Promise!Next
<1>1. Promise!Refund(t, p)
  BY DEF Promise!Refund, Phases, Rosters, Points, PointsOf, Champions, WinnersOf
<1> QED
  BY <1>1 DEF Promise!Next

LEMMA EscrowLock ==
    ASSUME NEW t \in TournamentIds, Phases[t] = "Open", Cardinality(Rosters[t]) >= 2,
           Phases' = [Phases EXCEPT ![t] = "Locked"],
           UNCHANGED <<Rosters, Points, Champions>>
    PROVE  Promise!Next
<1>1. Promise!Lock(t)
  BY SameSize DEF Promise!Lock, Phases, Rosters, Points, PointsOf, Champions, WinnersOf
<1> QED
  BY <1>1 DEF Promise!Next

LEMMA EscrowBegin ==
    ASSUME NEW t \in TournamentIds, Phases[t] = "Locked",
           Phases' = [Phases EXCEPT ![t] = "Playing"],
           NEW gone \in SUBSET Rosters[t],
           Cardinality(gone) = Cardinality(Rosters[t]) % 2,
           Rosters' = [Rosters EXCEPT ![t] = Rosters[t] \ gone],
           UNCHANGED <<Points, Champions>>
    PROVE  Promise!Next
<1>1. Promise!Begin(t)
  BY SameSize DEF Promise!Begin, Phases, Rosters, Points, PointsOf, Champions, WinnersOf
<1> QED
  BY <1>1 DEF Promise!Next

LEMMA EscrowPlay ==
    ASSUME NEW t \in TournamentIds, Phases[t] = "Playing",
           Points' = [Points EXCEPT ![t] = Points'[t]],
           \A p \in Players : /\ Points'[t][p] >= Points[t][p]
                              /\ p \notin Rosters[t] => Points'[t][p] = Points[t][p],
           UNCHANGED <<Phases, Rosters, Champions>>
    PROVE  Promise!Next
<1>1. Promise!Play(t)
  BY DEF Promise!Play, Phases, Rosters, Points, PointsOf, Champions, WinnersOf
<1> QED
  BY <1>1 DEF Promise!Next

\* Members with fewer than a quarter of the field ahead of them.
Ahead(t, p) == {q \in Rosters[t] : Points[t][q] > Points[t][p]}
TopQuarter(t) ==
    {p \in Rosters[t] : 4 * Cardinality(Ahead(t, p)) < Cardinality(Rosters[t])}

LEMMA EscrowSettle ==
    ASSUME NEW t \in TournamentIds, Phases[t] = "Playing",
           t + 1 \in TournamentIds, Phases[t + 1] = "Unused",
           Phases' = [Phases EXCEPT ![t] = "Settled", ![t + 1] = "Open"],
           Champions' = [Champions EXCEPT ![t] = TopQuarter(t)],
           UNCHANGED <<Rosters, Points>>
    PROVE  Promise!Next
<1>1. Promise!Settle(t)
  BY SameSize DEF Promise!Settle, Promise!TopQuarter, Promise!Ahead, TopQuarter, Ahead,
         Phases, Rosters, Points, PointsOf, Champions, WinnersOf
<1> QED
  BY <1>1 DEF Promise!Next

LEMMA EscrowRelease ==
    ASSUME NEW t \in TournamentIds, NEW p \in Players,
           Phases[t] = "Settled", p \in Rosters[t],
           Rosters' = [Rosters EXCEPT ![t] = Rosters[t] \ {p}],
           Champions' = [Champions EXCEPT ![t] = Champions[t] \ {p}],
           Points' = [Points EXCEPT ![t][p] = 0],
           UNCHANGED Phases
    PROVE  Promise!Next
<1>1. Promise!Release(t, p)
  BY DEF Promise!Release, Phases, Rosters, Points, PointsOf, Champions, WinnersOf
<1> QED
  BY <1>1 DEF Promise!Next

LEMMA EscrowClose ==
    ASSUME NEW t \in TournamentIds, Phases[t] = "Settled", Rosters[t] = {},
           Phases' = [Phases EXCEPT ![t] = "Done"],
           UNCHANGED <<Rosters, Points, Champions>>
    PROVE  Promise!Next
<1>1. Promise!Close(t)
  BY DEF Promise!Close, Phases, Rosters, Points, PointsOf, Champions, WinnersOf
<1> QED
  BY <1>1 DEF Promise!Next

-----------------------------------------------------------------------------
(***************************************************************************)
(* What a step changes of the mapping                                      *)
(***************************************************************************)
\* Tournament t looks the same to Escrow.
Unmoved(t) ==
    /\ EscrowPhase(t)' = EscrowPhase(t)
    /\ OpenEntries(t)' = OpenEntries(t)
    /\ PointsOf(entry[t])' = PointsOf(entry[t])
    /\ WinnersOf(t)' = WinnersOf(t)

LEMMA SameAccounts ==
    ASSUME NEW t \in TournamentIds, entry'[t] = entry[t],
           tournament'[t].state = tournament[t].state,
           tournament'[t].min_winning_score = tournament[t].min_winning_score,
           \/ config'.current_tournament_id = config.current_tournament_id
           \/ tournament[t].state # "Absent"
    PROVE  Unmoved(t)
  BY DEF Unmoved, EscrowPhase, OpenEntries, PointsOf, WinnersOf, OpenWinners

LEMMA Here ==
    ASSUME NEW t \in TournamentIds
    PROVE  /\ Phases[t] = EscrowPhase(t) /\ Rosters[t] = OpenEntries(t)
           /\ Points[t] = PointsOf(entry[t]) /\ Champions[t] = WinnersOf(t)
           /\ Points'[t] = PointsOf(entry[t])'
  BY DEF Phases, Rosters, Points, Champions

\* Only tournament t looks different.
LEMMA Elsewhere ==
    ASSUME NEW t \in TournamentIds, \A u \in TournamentIds \ {t} : Unmoved(u)
    PROVE  /\ Phases' = [Phases EXCEPT ![t] = EscrowPhase(t)']
           /\ Rosters' = [Rosters EXCEPT ![t] = OpenEntries(t)']
           /\ Points' = [Points EXCEPT ![t] = PointsOf(entry[t])']
           /\ Champions' = [Champions EXCEPT ![t] = WinnersOf(t)']
           /\ EscrowPhase(t)' = EscrowPhase(t) => Phases' = Phases
           /\ OpenEntries(t)' = OpenEntries(t) => Rosters' = Rosters
           /\ PointsOf(entry[t])' = PointsOf(entry[t]) => Points' = Points
           /\ WinnersOf(t)' = WinnersOf(t) => Champions' = Champions
<1>1. /\ Phases' = [Phases EXCEPT ![t] = EscrowPhase(t)']
      /\ EscrowPhase(t)' = EscrowPhase(t) => Phases' = Phases
  BY DEF Phases, Unmoved
<1>2. /\ Rosters' = [Rosters EXCEPT ![t] = OpenEntries(t)']
      /\ OpenEntries(t)' = OpenEntries(t) => Rosters' = Rosters
  BY DEF Rosters, Unmoved
<1>3. /\ Points' = [Points EXCEPT ![t] = PointsOf(entry[t])']
      /\ PointsOf(entry[t])' = PointsOf(entry[t]) => Points' = Points
  BY DEF Points, Unmoved
<1>4. /\ Champions' = [Champions EXCEPT ![t] = WinnersOf(t)']
      /\ WinnersOf(t)' = WinnersOf(t) => Champions' = Champions
  BY DEF Champions, Unmoved
<1> QED
  BY <1>1, <1>2, <1>3, <1>4

LEMMA AllUnmoved ==
    ASSUME \A t \in TournamentIds : Unmoved(t)
    PROVE  UNCHANGED Promise!vars
<1>1. UNCHANGED <<Phases, Rosters, Points, Champions>>
  BY DEF Phases, Rosters, Points, Champions, Unmoved
<1> QED
  BY <1>1, EscrowStutter

\* An instruction that updates tournament t and its entries.
LEMMA OneUpdated ==
    ASSUME IInv, NEW t \in TournamentIds, NEW new,
           tournament' = [tournament EXCEPT ![t] = new],
           \A u \in TournamentIds \ {t} : entry'[u] = entry[u],
           config'.current_tournament_id = config.current_tournament_id
    PROVE  /\ \A u \in TournamentIds \ {t} : Unmoved(u)
           /\ tournament'[t] = new
           /\ ScoreInv /\ Scored(new, entry'[t]) => ScoreInv'
<1>1. tournament \in [TournamentIds -> TournamentType]
  BY DEF IInv, TournamentsSound
<1>2. ASSUME NEW u \in TournamentIds \ {t}
      PROVE  tournament'[u] = tournament[u] /\ entry'[u] = entry[u]
  BY <1>1
<1>3. ASSUME NEW u \in TournamentIds \ {t} PROVE Unmoved(u)
  BY <1>2, SameAccounts
<1>4. tournament'[t] = new
  BY <1>1
<1>5. ASSUME ScoreInv, Scored(new, entry'[t]) PROVE ScoreInv'
  <2> SUFFICES ASSUME NEW u \in TournamentIds PROVE Scored(tournament[u], entry[u])'
    BY DEF ScoreInv
  <2> QED
    BY <1>2, <1>4, <1>5 DEF ScoreInv, Scored
<1> QED
  BY <1>3, <1>4, <1>5

\* What the invariants say of one tournament.
LEMMA Members ==
    ASSUME ~ForeignRefund, IInv, CohInv, ScoreInv, NEW t \in TournamentIds
    PROVE  LET tr == tournament[t]
               en == entry[t]
           IN  /\ tr \in TournamentType /\ en \in [Players -> EntryType]
               /\ Linked(tr, en) /\ Coherent(tr, en) /\ Scored(tr, en)
               /\ IsFiniteSet(OpenEntries(t))
               /\ Cardinality(OpenEntries(t)) \in Nat
               /\ Cardinality(OpenEntries(t)) = tr.entries_remaining
               /\ tr.state \in Live => Cardinality(OpenEntries(t)) = tr.participant_count
               /\ tr.state = "Absent" => OpenEntries(t) = {}
<1> DEFINE tr == tournament[t]
           en == entry[t]
<1>1. /\ tr \in TournamentType /\ en \in [Players -> EntryType] /\ Coherent(tr, en)
  BY Known
<1>2. Linked(tr, en) /\ Open(en) = OpenEntries(t)
  BY AllLinked
<1>3. IsFiniteSet(OpenEntries(t)) /\ Cardinality(OpenEntries(t)) \in Nat
  BY <1>2, OpenFinite, FS_CardinalityType
<1>4. /\ Cardinality(OpenEntries(t)) = tr.entries_remaining
      /\ tr.state \in Live => Cardinality(OpenEntries(t)) = tr.participant_count
  BY <1>2 DEF Linked
<1>5. tr.state = "Absent" => OpenEntries(t) = {}
  <2> SUFFICES ASSUME tr.state = "Absent", NEW p \in OpenEntries(t) PROVE FALSE
    OBVIOUS
  <2>1. tr.players = << >>
    BY <1>1 DEF Coherent, Phased
  <2>2. p \in Players /\ en[p].open
    BY DEF OpenEntries
  <2>3. en[p].index \in Slots(tr)
    BY <1>2, <2>2 DEF Linked, Owns
  <2> QED
    BY <2>1, <2>3 DEF Slots
<1>6. Scored(tr, en)
  BY DEF ScoreInv
<1> QED
  BY <1>1, <1>2, <1>3, <1>4, <1>5, <1>6

-----------------------------------------------------------------------------
(***************************************************************************)
(* The instructions of one player                                          *)
(***************************************************************************)
KeptEscrow == [Promise!Next]_(Promise!vars) /\ ScoreInv'

LEMMA NoEntryScore == NoEntry.score = 0
  BY DEF NoEntry

\* Entry p of tournament t becomes e, and no other entry changes.
EntrySet(t, p, e) ==
    /\ entry'[t][p] = e
    /\ \A q \in Players \ {p} : entry'[t][q] = entry[t][q]
    /\ \A u \in TournamentIds \ {t} : entry'[u] = entry[u]

LEMMA OneEntry ==
    ASSUME IInv, NEW t \in TournamentIds, NEW p \in Players, NEW e,
           entry' = [entry EXCEPT ![t][p] = e]
    PROVE  EntrySet(t, p, e)
<1>1. /\ entry'[t] = [entry[t] EXCEPT ![p] = e]
      /\ \A u \in TournamentIds \ {t} : entry'[u] = entry[u]
  BY EntryAt
<1>2. entry[t] \in [Players -> EntryType]
  BY DEF IInv, EntriesTyped
<1> QED
  BY <1>1, <1>2 DEF EntrySet

LEMMA OneOpen ==
    ASSUME NEW t \in TournamentIds, NEW p \in Players, NEW e, EntrySet(t, p, e), e.open
    PROVE  OpenEntries(t)' = OpenEntries(t) \cup {p}
  BY DEF OpenEntries, EntrySet

LEMMA OneShut ==
    ASSUME NEW t \in TournamentIds, NEW p \in Players, NEW e, EntrySet(t, p, e), ~e.open
    PROVE  OpenEntries(t)' = OpenEntries(t) \ {p}
  BY DEF OpenEntries, EntrySet

LEMMA OnePoints ==
    ASSUME NEW t \in TournamentIds, NEW p \in Players, NEW e, EntrySet(t, p, e)
    PROVE  /\ PointsOf(entry[t])' = [PointsOf(entry[t]) EXCEPT ![p] = e.score]
           /\ e.score = entry[t][p].score => PointsOf(entry[t])' = PointsOf(entry[t])
<1>1. \A q \in Players : entry'[t][q].score = IF q = p THEN e.score ELSE entry[t][q].score
  BY DEF EntrySet
<1>2. PointsOf(entry[t])' = [PointsOf(entry[t]) EXCEPT ![p] = e.score]
  BY ONLY <1>1 DEF PointsOf
<1>3. e.score = entry[t][p].score => PointsOf(entry[t])' = PointsOf(entry[t])
  BY ONLY <1>1 DEF PointsOf
<1> QED
  BY <1>2, <1>3

SameOpen(e, en) == (e.open <=> en.open) /\ e.score = en.score

LEMMA OneScored ==
    ASSUME NEW t \in TournamentIds, NEW p \in Players, NEW e, NEW new,
           Scored(tournament[t], entry[t]),
           EntrySet(t, p, e), e.score = 0 \/ SameOpen(e, entry[t][p]),
           new.state = tournament[t].state \/ new.state \notin Early
    PROVE  Scored(new, entry'[t])
  BY DEF Scored, SameOpen, EntrySet

LEMMA EnterEscrow ==
    ASSUME ~ForeignRefund, IInv, CohInv, ScoreInv, NEW p \in Players,
           NEW t \in TournamentIds, NEW commitment \in Commitments,
           EnterTournament(p, t, commitment)
    PROVE  KeptEscrow
<1> DEFINE tr == tournament[t]
           new == Entered(tr, p)
           e == [NoEntry EXCEPT !.open = TRUE, !.index = NextIndex(tr),
                                !.commitment = commitment]
<1>1. /\ tr.state = "Registration" /\ ~entry[t][p].open
      /\ entry' = [entry EXCEPT ![t][p] = e]
      /\ tournament' = [tournament EXCEPT ![t] = new] /\ config' = config
  BY DEF EnterTournament
<1>2. tr \in TournamentType /\ Scored(tr, entry[t])
  BY Members
<1>3. new.state = tr.state
  BY <1>2, EnteredFields DEF SamePhase
<1>4. e.open = TRUE /\ e.score = 0 /\ entry[t][p].score = 0
  BY <1>1, <1>2 DEF NoEntry, Scored
<1> HIDE DEF new, e
<1>5. /\ OpenEntries(t)' = OpenEntries(t) \cup {p} /\ p \notin OpenEntries(t)
      /\ PointsOf(entry[t])' = PointsOf(entry[t])
      /\ \A u \in TournamentIds \ {t} : entry'[u] = entry[u]
      /\ Scored(new, entry'[t])
  <2>1. p \notin OpenEntries(t)
    BY <1>1 DEF OpenEntries
  <2>2. EntrySet(t, p, e)
    BY <1>1, OneEntry
  <2>3. OpenEntries(t)' = OpenEntries(t) \cup {p}
    BY ONLY <1>4, <2>2, OneOpen, p \in Players, t \in TournamentIds
  <2>4. PointsOf(entry[t])' = PointsOf(entry[t])
    <3>1. e.score = entry[t][p].score
      BY <1>4
    <3> QED
      BY ONLY <2>2, <3>1, OnePoints, p \in Players, t \in TournamentIds
  <2>5. Scored(new, entry'[t])
    BY ONLY <1>2, <1>3, <1>4, <2>2, OneScored, p \in Players, t \in TournamentIds
  <2> QED
    BY <2>1, <2>2, <2>3, <2>4, <2>5 DEF EntrySet
<1>6. /\ \A u \in TournamentIds \ {t} : Unmoved(u)
      /\ tournament'[t] = new /\ ScoreInv'
  BY <1>1, <1>5, OneUpdated
<1>7. /\ EscrowPhase(t) = "Open" /\ EscrowPhase(t)' = "Open"
      /\ WinnersOf(t) = {} /\ WinnersOf(t)' = {}
  BY <1>1, <1>3, <1>6 DEF EscrowPhase, WinnersOf
<1>8. Promise!Next
  <2>1. Phases[t] = "Open" /\ Rosters[t] = OpenEntries(t)
    BY <1>7, Here
  <2>2. /\ Rosters' = [Rosters EXCEPT ![t] = Rosters[t] \cup {p}]
        /\ UNCHANGED <<Phases, Points, Champions>>
    BY <1>5, <1>6, <1>7, <2>1, Elsewhere
  <2> QED
    BY <1>5, <2>1, <2>2, EscrowDeposit
<1> QED
  BY <1>6, <1>8 DEF KeptEscrow

\* reveal_strategy and forfeit_unrevealed: the score and the membership stay.
LEMMA RevealedEscrow ==
    ASSUME ~ForeignRefund, IInv, CohInv, ScoreInv, NEW p \in Players,
           NEW t \in TournamentIds, NEW e, NEW new,
           tournament[t].state = "Reveal", entry[t][p].open,
           e.open = TRUE, e.score = entry[t][p].score, new.state = "Reveal",
           entry' = [entry EXCEPT ![t][p] = e],
           tournament' = [tournament EXCEPT ![t] = new], config' = config
    PROVE  KeptEscrow
<1>1. Scored(tournament[t], entry[t])
  BY Members
<1>2. /\ OpenEntries(t)' = OpenEntries(t)
      /\ PointsOf(entry[t])' = PointsOf(entry[t])
      /\ \A u \in TournamentIds \ {t} : entry'[u] = entry[u]
      /\ Scored(new, entry'[t])
  <2>1. p \in OpenEntries(t)
    BY DEF OpenEntries
  <2>2. entry[t][p].score = 0
    BY <1>1 DEF Scored, Early
  <2>3. EntrySet(t, p, e)
    BY OneEntry
  <2>6. /\ OpenEntries(t)' = OpenEntries(t) \cup {p}
        /\ PointsOf(entry[t])' = PointsOf(entry[t])
    BY <2>3, OneOpen, OnePoints
  <2>4. e.score = 0 /\ new.state = tournament[t].state
    BY <2>2
  <2>5. Scored(new, entry'[t])
    BY ONLY <1>1, <2>3, <2>4, OneScored, p \in Players, t \in TournamentIds
  <2> QED
    BY <2>1, <2>3, <2>5, <2>6 DEF EntrySet
<1>3. /\ \A u \in TournamentIds \ {t} : Unmoved(u)
      /\ tournament'[t] = new /\ ScoreInv'
  BY <1>2, OneUpdated
<1>4. Unmoved(t)
  BY <1>2, <1>3 DEF Unmoved, EscrowPhase, WinnersOf
<1>5. UNCHANGED Promise!vars
  BY <1>3, <1>4, AllUnmoved
<1> QED
  BY <1>3, <1>5 DEF KeptEscrow

LEMMA RefundEscrow ==
    ASSUME ~ForeignRefund, IInv, CohInv, ScoreInv, NEW p \in Players,
           NEW t \in TournamentIds, ClaimRefund(p, t)
    PROVE  KeptEscrow
<1> DEFINE tr == tournament[t]
           new == Refunded(tr, entry[t][p].index)
<1>1. /\ tr.state = "Registration" /\ entry[t][p].open
      /\ entry' = [entry EXCEPT ![t][p] = NoEntry]
      /\ tournament' = [tournament EXCEPT ![t] = new] /\ config' = config
  BY DEF ClaimRefund
<1>2. tr \in TournamentType /\ Scored(tr, entry[t])
  BY Members
<1>3. new.state = tr.state
  BY <1>2, RefundedFields DEF SamePhase
<1>4. NoEntry.open = FALSE /\ NoEntry.score = 0 /\ entry[t][p].score = 0
  BY <1>1, <1>2, NoEntryClosed, NoEntryScore DEF Scored, Early
<1> HIDE DEF new
<1>5. /\ OpenEntries(t)' = OpenEntries(t) \ {p} /\ p \in OpenEntries(t)
      /\ PointsOf(entry[t])' = PointsOf(entry[t])
      /\ \A u \in TournamentIds \ {t} : entry'[u] = entry[u]
      /\ Scored(new, entry'[t])
  <2>1. p \in OpenEntries(t)
    BY <1>1 DEF OpenEntries
  <2>2. EntrySet(t, p, NoEntry)
    BY <1>1, OneEntry
  <2>3. OpenEntries(t)' = OpenEntries(t) \ {p}
    BY ONLY <1>4, <2>2, OneShut, p \in Players, t \in TournamentIds
  <2>4. PointsOf(entry[t])' = PointsOf(entry[t])
    <3>1. NoEntry.score = entry[t][p].score
      BY <1>4
    <3> QED
      BY ONLY <2>2, <3>1, OnePoints, p \in Players, t \in TournamentIds
  <2>5. Scored(new, entry'[t])
    BY ONLY <1>2, <1>3, <1>4, <2>2, OneScored, p \in Players, t \in TournamentIds
  <2> QED
    BY <2>1, <2>2, <2>3, <2>4, <2>5 DEF EntrySet
<1>6. /\ \A u \in TournamentIds \ {t} : Unmoved(u)
      /\ tournament'[t] = new /\ ScoreInv'
  BY <1>1, <1>5, OneUpdated
<1>7. /\ EscrowPhase(t) = "Open" /\ EscrowPhase(t)' = "Open"
      /\ WinnersOf(t) = {} /\ WinnersOf(t)' = {}
  BY <1>1, <1>3, <1>6 DEF EscrowPhase, WinnersOf
<1>8. Promise!Next
  <2>1. Phases[t] = "Open" /\ Rosters[t] = OpenEntries(t)
    BY <1>7, Here
  <2>2. /\ Rosters' = [Rosters EXCEPT ![t] = Rosters[t] \ {p}]
        /\ UNCHANGED <<Phases, Points, Champions>>
    BY <1>5, <1>6, <1>7, <2>1, Elsewhere
  <2> QED
    BY <1>5, <2>1, <2>2, EscrowRefund
<1> QED
  BY <1>6, <1>8 DEF KeptEscrow

\* claim_payout and close_entry: a member leaves, with his prize or without.
LEMMA LeavingEscrow ==
    ASSUME ~ForeignRefund, IInv, CohInv, ScoreInv, NEW p \in Players,
           NEW t \in TournamentIds, NEW new,
           tournament[t].state = "Payout", entry[t][p].open,
           SamePhase(new, tournament[t]), SameResult(new, tournament[t]),
           entry' = [entry EXCEPT ![t][p] = NoEntry],
           tournament' = [tournament EXCEPT ![t] = new],
           config'.current_tournament_id = config.current_tournament_id
    PROVE  KeptEscrow
<1>1. Scored(tournament[t], entry[t])
  BY Members
<1>2. /\ OpenEntries(t)' = OpenEntries(t) \ {p} /\ p \in OpenEntries(t)
      /\ PointsOf(entry[t])' = [PointsOf(entry[t]) EXCEPT ![p] = 0]
      /\ \A u \in TournamentIds \ {t} : entry'[u] = entry[u]
      /\ \A q \in Players \ {p} : entry'[t][q] = entry[t][q]
      /\ Scored(new, entry'[t])
  <2>1. p \in OpenEntries(t)
    BY DEF OpenEntries
  <2>2. NoEntry.open = FALSE /\ NoEntry.score = 0
    BY NoEntryClosed, NoEntryScore
  <2>3. new.state = tournament[t].state
    BY DEF SamePhase
  <2>4. EntrySet(t, p, NoEntry)
    BY OneEntry
  <2>6. /\ OpenEntries(t)' = OpenEntries(t) \ {p}
        /\ PointsOf(entry[t])' = [PointsOf(entry[t]) EXCEPT ![p] = 0]
    BY <2>2, <2>4, OneShut, OnePoints
  <2>5. Scored(new, entry'[t])
    BY ONLY <1>1, <2>2, <2>3, <2>4, OneScored, p \in Players, t \in TournamentIds
  <2> QED
    BY <2>1, <2>4, <2>5, <2>6 DEF EntrySet
<1>3. /\ \A u \in TournamentIds \ {t} : Unmoved(u)
      /\ tournament'[t] = new /\ ScoreInv'
  BY <1>2, OneUpdated
<1>4. /\ EscrowPhase(t) = "Settled" /\ EscrowPhase(t)' = "Settled"
      /\ WinnersOf(t)' = WinnersOf(t) \ {p}
  <2>1. EscrowPhase(t) = "Settled" /\ EscrowPhase(t)' = "Settled"
    BY <1>3 DEF EscrowPhase, SamePhase
  <2>2. OpenWinners(t)' = OpenWinners(t) \ {p}
    <3>1. tournament'[t].min_winning_score = tournament[t].min_winning_score
      BY <1>3 DEF SameResult
    <3>2. OpenEntries(t) \subseteq Players
      BY DEF OpenEntries
    <3> QED
      BY <1>2, <3>1, <3>2 DEF OpenWinners
  <2> QED
    BY <1>3, <2>1, <2>2 DEF WinnersOf, SamePhase
<1>5. Promise!Next
  <2>1. /\ Phases[t] = "Settled" /\ Rosters[t] = OpenEntries(t)
        /\ Points[t] = PointsOf(entry[t]) /\ Champions[t] = WinnersOf(t)
    BY <1>4, Here
  <2>2. /\ Rosters' = [Rosters EXCEPT ![t] = Rosters[t] \ {p}]
        /\ Champions' = [Champions EXCEPT ![t] = Champions[t] \ {p}]
        /\ Points' = [Points EXCEPT ![t] = [Points[t] EXCEPT ![p] = 0]]
        /\ UNCHANGED Phases
    BY <1>2, <1>3, <1>4, <2>1, Elsewhere
  <2> QED
    BY <1>2, <2>1, <2>2, EscrowRelease
<1> QED
  BY <1>3, <1>5 DEF KeptEscrow

-----------------------------------------------------------------------------
(***************************************************************************)
(* The instructions of the operator                                        *)
(***************************************************************************)
LEMMA LockEscrow ==
    ASSUME ~ForeignRefund, IInv, LifeInv, CohInv, ScoreInv, NEW t \in TournamentIds,
           CloseRegistration(t)
    PROVE  KeptEscrow
<1> DEFINE tr == tournament[t]
           mid == Charged(tr)
           new == Locked(mid, now + tr.reveal_duration)
<1>1. /\ tr.state = "Registration" /\ QuorumReached(tr)
      /\ tournament' = [tournament EXCEPT ![t] = new]
      /\ config' = config /\ entry' = entry
  BY DEF CloseRegistration, Locked
<1>2. /\ tr \in TournamentType /\ Scored(tr, entry[t])
      /\ Cardinality(OpenEntries(t)) \in Nat
      /\ Cardinality(OpenEntries(t)) = tr.participant_count
  BY <1>1, Members DEF Live
<1>3. Cardinality(OpenEntries(t)) >= 2
  <2>1. config.initialized
    BY <1>1, LiveIsCurrent DEF Live
  <2>2. config.min_participants >= 2 /\ config.min_participants \in Nat
    BY <2>1 DEF LifeInv, ConfigChecked, IInv, ConfigType
  <2> QED
    BY <1>1, <1>2, <2>2 DEF QuorumReached
<1>4. new.state = "Reveal"
  <2>1. tr.state \in Live /\ Sound(tr) /\ config \in ConfigType
    BY <1>1, Known DEF Live
  <2>2. mid \in TournamentType
    BY <2>1, ChargedSound DEF Sound
  <2> HIDE DEF mid
  <2> QED
    BY <2>2, LockedFields
<1> HIDE DEF new
<1>5. Scored(new, entry'[t])
  BY <1>1, <1>2, <1>4 DEF Scored, Early
<1>6. /\ \A u \in TournamentIds \ {t} : Unmoved(u)
      /\ tournament'[t] = new /\ ScoreInv'
  BY <1>1, <1>5, OneUpdated
<1>7. /\ EscrowPhase(t) = "Open" /\ EscrowPhase(t)' = "Locked"
      /\ WinnersOf(t) = {} /\ WinnersOf(t)' = {}
      /\ OpenEntries(t)' = OpenEntries(t) /\ PointsOf(entry[t])' = PointsOf(entry[t])
  <2>1. EscrowPhase(t) = "Open" /\ EscrowPhase(t)' = "Locked"
    BY <1>1, <1>4, <1>6 DEF EscrowPhase
  <2>2. WinnersOf(t) = {} /\ WinnersOf(t)' = {}
    BY <1>1, <1>4, <1>6 DEF WinnersOf
  <2>3. OpenEntries(t)' = OpenEntries(t) /\ PointsOf(entry[t])' = PointsOf(entry[t])
    BY <1>1 DEF OpenEntries, PointsOf
  <2> QED
    BY <2>1, <2>2, <2>3
<1>8. Promise!Next
  <2>1. Phases[t] = "Open" /\ Rosters[t] = OpenEntries(t)
    BY <1>7, Here
  <2>2. /\ Phases' = [Phases EXCEPT ![t] = "Locked"]
        /\ UNCHANGED <<Rosters, Points, Champions>>
    BY <1>6, <1>7, Elsewhere
  <2> QED
    BY <1>3, <2>1, <2>2, EscrowLock
<1> QED
  BY <1>6, <1>8 DEF KeptEscrow

\* close_reveal, whether nobody leaves or one player does.
LEMMA BeginEscrow ==
    ASSUME ~ForeignRefund, IInv, CohInv, ScoreInv, NEW t \in TournamentIds, NEW new,
           tournament[t].state = "Reveal", new.state = "Running",
           tournament' = [tournament EXCEPT ![t] = new], config' = config,
           \A u \in TournamentIds \ {t} : entry'[u] = entry[u],
           NEW gone \in SUBSET OpenEntries(t),
           Cardinality(gone) = tournament[t].participant_count % 2,
           OpenEntries(t)' = OpenEntries(t) \ gone,
           PointsOf(entry[t])' = PointsOf(entry[t])
    PROVE  KeptEscrow
<1>1. /\ Scored(tournament[t], entry[t])
      /\ Cardinality(OpenEntries(t)) = tournament[t].participant_count
  BY Members DEF Live
<1>2. Scored(new, entry'[t])
  <2> SUFFICES ASSUME NEW p \in Players PROVE entry'[t][p].score = 0
    BY DEF Scored
  <2>1. entry[t][p].score = 0
    BY <1>1 DEF Scored, Early
  <2>2. PointsOf(entry'[t])[p] = PointsOf(entry[t])[p]
    OBVIOUS
  <2> QED
    BY <2>1, <2>2 DEF PointsOf
<1>3. /\ \A u \in TournamentIds \ {t} : Unmoved(u)
      /\ tournament'[t] = new /\ ScoreInv'
  BY <1>2, OneUpdated
<1>4. /\ EscrowPhase(t) = "Locked" /\ EscrowPhase(t)' = "Playing"
      /\ WinnersOf(t) = {} /\ WinnersOf(t)' = {}
  BY <1>3 DEF EscrowPhase, WinnersOf
<1>5. Promise!Next
  <2>1. Phases[t] = "Locked" /\ Rosters[t] = OpenEntries(t)
    BY <1>4, Here
  <2>2. /\ Phases' = [Phases EXCEPT ![t] = "Playing"]
        /\ Rosters' = [Rosters EXCEPT ![t] = Rosters[t] \ gone]
        /\ UNCHANGED <<Points, Champions>>
    BY <1>3, <1>4, <2>1, Elsewhere
  <2>3. gone \in SUBSET Rosters[t] /\ Cardinality(gone) = Cardinality(Rosters[t]) % 2
    BY <1>1, <2>1
  <2> QED
    BY <2>1, <2>2, <2>3, EscrowBegin
<1> QED
  BY <1>3, <1>5 DEF KeptEscrow

LEMMA CloseRevealEscrow ==
    ASSUME ~ForeignRefund, IInv, CohInv, ScoreInv, NEW t \in TournamentIds,
           CloseReveal(t)
    PROVE  KeptEscrow
<1> DEFINE tr == tournament[t]
<1>1. PICK new :
         /\ tournament' = [tournament EXCEPT ![t] = new] /\ config' = config
         /\ tr.state = "Reveal" /\ new.state = "Running"
  BY CloseRevealMoves
<1>2. PICK seed \in Seeds : CloseRevealEven(t, seed) \/ CloseRevealOdd(t, seed, t)
  BY DEF CloseReveal
<1>3. CASE CloseRevealEven(t, seed)
  <2>1. entry' = entry /\ tr.participant_count % 2 = 0
    BY <1>3, CloseRevealEvenUpdate
  <2>2. Cardinality({}) = tr.participant_count % 2
    BY <2>1, FS_EmptySet
  <2>3. /\ OpenEntries(t)' = OpenEntries(t) \ {}
        /\ PointsOf(entry[t])' = PointsOf(entry[t])
    BY <2>1 DEF OpenEntries, PointsOf
  <2> QED
    BY <1>1, <2>1, <2>2, <2>3, BeginEscrow
<1>4. CASE CloseRevealOdd(t, seed, t)
  <2>1. PICK p \in Players :
           /\ entry' = [entry EXCEPT ![t][p] = NoEntry] /\ entry[t][p].open
           /\ tr.participant_count % 2 = 1
    BY <1>4, CloseRevealOddUpdate
  <2>2. EntrySet(t, p, NoEntry)
    BY <2>1, OneEntry
  <2>3. OpenEntries(t)' = OpenEntries(t) \ {p} /\ {p} \in SUBSET OpenEntries(t)
    <3>1. OpenEntries(t)' = OpenEntries(t) \ {p}
      BY <2>2, NoEntryClosed, OneShut
    <3> QED
      BY <2>1, <3>1 DEF OpenEntries
  <2>4. PointsOf(entry[t])' = PointsOf(entry[t])
    <3>1. entry[t][p].score = NoEntry.score
      BY <1>1, Members, NoEntryScore DEF Scored, Early
    <3> QED
      BY ONLY <2>2, <3>1, OnePoints, p \in Players, t \in TournamentIds
  <2>5. Cardinality({p}) = tr.participant_count % 2
    BY <2>1, FS_Singleton
  <2>6. \A u \in TournamentIds \ {t} : entry'[u] = entry[u]
    BY <2>2 DEF EntrySet
  <2> QED
    BY <1>1, <2>3, <2>4, <2>5, <2>6, BeginEscrow
<1> QED
  BY <1>2, <1>3, <1>4

LEMMA PlayEscrow ==
    ASSUME ~ForeignRefund, IInv, CohInv, ScoreInv, NEW t \in TournamentIds,
           RunMatches(t)
    PROVE  KeptEscrow
<1> DEFINE tr == tournament[t]
<1>1. PICK new :
         /\ tournament' = [tournament EXCEPT ![t] = new.tr]
         /\ entry' = [entry EXCEPT ![t] = new.en]
         /\ tr.state = "Running"
         /\ BatchScored(new, [tr |-> tr, en |-> entry[t]])
         /\ Gains(new.en, entry[t])
  BY RunMatchesPlayed
<1>2. config' = config
  BY RunMatchesQuiet
<1>3. Scored(tr, entry[t])
  BY Members
<1>4. /\ new.tr.state = "Running"
      /\ \A p \in Players : new.en[p].open = entry[t][p].open
  BY <1>1 DEF BatchScored, ScoredOnly, SamePhase, SameButScore
<1>5. entry'[t] = new.en /\ \A u \in TournamentIds \ {t} : entry'[u] = entry[u]
  BY <1>1 DEF IInv, EntriesTyped
<1>6. Scored(new.tr, entry'[t])
  BY <1>1, <1>3, <1>4, <1>5 DEF Scored, Early, Gains
<1>7. /\ \A u \in TournamentIds \ {t} : Unmoved(u)
      /\ tournament'[t] = new.tr /\ ScoreInv'
  BY <1>1, <1>2, <1>5, <1>6, OneUpdated
<1>8. /\ EscrowPhase(t) = "Playing" /\ EscrowPhase(t)' = "Playing"
      /\ WinnersOf(t) = {} /\ WinnersOf(t)' = {}
  BY <1>1, <1>4, <1>7 DEF EscrowPhase, WinnersOf
<1>9. OpenEntries(t)' = OpenEntries(t)
  BY <1>4, <1>5 DEF OpenEntries
<1>10. Promise!Next
  <2>1. /\ Phases[t] = "Playing" /\ Rosters[t] = OpenEntries(t)
        /\ Points[t] = PointsOf(entry[t]) /\ Points'[t] = PointsOf(entry'[t])
    BY <1>8, Here
  <2>2. /\ Points' = [Points EXCEPT ![t] = Points'[t]]
        /\ UNCHANGED <<Phases, Rosters, Champions>>
    BY <1>7, <1>8, <1>9, <2>1, Elsewhere
  <2>3. ASSUME NEW p \in Players
        PROVE  /\ Points'[t][p] >= Points[t][p]
               /\ p \notin Rosters[t] => Points'[t][p] = Points[t][p]
    <3>1. Points'[t][p] = new.en[p].score /\ Points[t][p] = entry[t][p].score
      BY <1>5, <2>1 DEF PointsOf
    <3>2. p \notin Rosters[t] => ~entry[t][p].open
      BY <2>1 DEF OpenEntries
    <3> QED
      BY <1>1, <3>1, <3>2 DEF Gains
  <2> QED
    BY <2>1, <2>2, <2>3, EscrowPlay
<1> QED
  BY <1>7, <1>10 DEF KeptEscrow

LEMMA CloseEscrow ==
    ASSUME ~ForeignRefund, IInv, LifeInv, CohInv, ScoreInv, NEW t \in TournamentIds,
           CloseTournament(t)
    PROVE  KeptEscrow
<1> DEFINE tr == tournament[t]
<1>1. /\ tr.state = "Payout" /\ tr.entries_remaining = 0
      /\ tournament' = [tournament EXCEPT ![t] = NoTournament]
      /\ config' = Collected(config, tr.lamports) /\ entry' = entry
  BY DEF CloseTournament, Closable
<1>2. /\ Scored(tr, entry[t]) /\ IsFiniteSet(OpenEntries(t))
      /\ Cardinality(OpenEntries(t)) = 0
  BY <1>1, Members
<1>3. OpenEntries(t) = {}
  BY <1>2, FS_EmptySet
<1>4. config'.current_tournament_id = config.current_tournament_id
  BY <1>1, CollectedFields DEF IInv
<1>5. t < config.current_tournament_id
  <2>1. t \in Int /\ config.current_tournament_id \in Int
    BY DEF TournamentIds, IInv, ConfigType
  <2>2. config.initialized
    BY <1>1 DEF LifeInv, Dormant
  <2>3. ~(t > config.current_tournament_id) /\ t # config.current_tournament_id
    BY <1>1, <2>2 DEF LifeInv, OneLiveTournament, Live
  <2> QED
    BY <2>1, <2>3
<1>6. NoTournament.state = "Absent"
  BY DEF NoTournament
<1>7. Scored(NoTournament, entry'[t])
  BY <1>1, <1>2, <1>6 DEF Scored, Early
<1>8. /\ \A u \in TournamentIds \ {t} : Unmoved(u)
      /\ tournament'[t] = NoTournament /\ ScoreInv'
  BY <1>1, <1>4, <1>7, OneUpdated
<1>9. /\ EscrowPhase(t) = "Settled" /\ EscrowPhase(t)' = "Done"
      /\ WinnersOf(t) = {} /\ WinnersOf(t)' = {}
      /\ OpenEntries(t)' = OpenEntries(t) /\ PointsOf(entry[t])' = PointsOf(entry[t])
  <2>1. EscrowPhase(t) = "Settled" /\ EscrowPhase(t)' = "Done"
    BY <1>1, <1>4, <1>5, <1>6, <1>8 DEF EscrowPhase
  <2>2. WinnersOf(t) = {} /\ WinnersOf(t)' = {}
    BY <1>3, <1>6, <1>8 DEF WinnersOf, OpenWinners
  <2>3. OpenEntries(t)' = OpenEntries(t) /\ PointsOf(entry[t])' = PointsOf(entry[t])
    BY <1>1 DEF OpenEntries, PointsOf
  <2> QED
    BY <2>1, <2>2, <2>3
<1>10. Promise!Next
  <2>1. Phases[t] = "Settled" /\ Rosters[t] = {}
    BY <1>3, <1>9, Here
  <2>2. /\ Phases' = [Phases EXCEPT ![t] = "Done"]
        /\ UNCHANGED <<Rosters, Points, Champions>>
    BY <1>8, <1>9, Elsewhere
  <2> QED
    BY <2>1, <2>2, EscrowClose
<1> QED
  BY <1>8, <1>10 DEF KeptEscrow

-----------------------------------------------------------------------------
(***************************************************************************)
(* finalize_tournament: the slots at or above the threshold are those of   *)
(* the top quarter, ties included.                                         *)
(***************************************************************************)
\* Fewer than a quarter of n, rounded up, is less than a quarter of n.
LEMMA Quarter ==
    ASSUME NEW n \in Nat, n >= 1, NEW a \in Nat
    PROVE  /\ Greater(1, CeilDiv(n, 4)) \in Nat
           /\ a < Greater(1, CeilDiv(n, 4)) <=> 4 * a < n
  BY DEF Greater, CeilDiv

LEMMA ReachingShrinks ==
    ASSUME NEW tr \in TournamentType, Len(tr.scores) = Len(tr.players),
           NEW x \in Int, NEW y \in Int, x <= y
    PROVE  /\ Cardinality(Reaching(tr, x)) \in Nat /\ Cardinality(Reaching(tr, y)) \in Nat
           /\ Cardinality(Reaching(tr, y)) <= Cardinality(Reaching(tr, x))
<1>1. /\ Len(tr.players) \in Nat /\ tr.scores \in Seq(Nat)
  BY Fields
<1>2. IsFiniteSet(ActiveSlots(tr))
  BY <1>1, ActiveFinite
<1>3. \A i \in ActiveSlots(tr) : tr.scores[i + 1] \in Int
  <2> SUFFICES ASSUME NEW i \in ActiveSlots(tr) PROVE tr.scores[i + 1] \in Int
    OBVIOUS
  <2>1. i \in Slots(tr)
    BY DEF ActiveSlots
  <2>2. i + 1 \in 1..Len(tr.scores)
    BY <1>1, <2>1 DEF Slots
  <2> QED
    BY <1>1, <2>2
<1>4. Reaching(tr, y) \subseteq Reaching(tr, x) /\ Reaching(tr, x) \subseteq ActiveSlots(tr)
  BY <1>3 DEF Reaching
<1>5. IsFiniteSet(Reaching(tr, x)) /\ IsFiniteSet(Reaching(tr, y))
  BY <1>2, <1>4, FS_Subset
<1> QED
  BY <1>4, <1>5, FS_Subset, FS_CardinalityType

LEMMA ThresholdSplits ==
    ASSUME NEW tr, tr.participant_count # 0, NEW threshold \in WinningThreshold(tr)
    PROVE  LET target == Greater(1, CeilDiv(tr.participant_count, 4))
           IN  /\ Cardinality(Reaching(tr, threshold)) >= target
               /\ Cardinality(Reaching(tr, threshold + 1)) < target
  BY DEF WinningThreshold

\* A member wins if and only if fewer than a quarter of the field are ahead.
LEMMA WinsByRank ==
    ASSUME NEW tr, NEW en \in [Players -> EntryType], Sound(tr), Linked(tr, en),
           tr.state = "Running", tr.participant_count >= 1,
           NEW threshold \in WinningThreshold(tr), NEW p \in Players
    PROVE  LET ahead == {q \in Players : en[q].open /\ en[q].score > en[p].score}
           IN  en[p].score >= threshold <=> 4 * Cardinality(ahead) < tr.participant_count
<1> DEFINE ahead == {q \in Players : en[q].open /\ en[q].score > en[p].score}
           s == en[p].score
           n == tr.participant_count
           target == Greater(1, CeilDiv(n, 4))
           a == Cardinality(Reaching(tr, s + 1))
<1>1. /\ tr \in TournamentType /\ Len(tr.scores) = Len(tr.players) /\ n \in Nat /\ n # 0
      /\ threshold \in Nat /\ s \in Nat /\ \A q \in Players : en[q].score \in Nat
  <2>1. tr \in TournamentType /\ Len(tr.scores) = Len(tr.players)
    BY DEF Sound
  <2>2. n \in Nat /\ n # 0
    BY <2>1, Fields
  <2>3. threshold \in Nat
    BY ThresholdReached
  <2>4. \A q \in Players : en[q].score \in Nat
    BY DEF EntryType
  <2> QED
    BY <2>1, <2>2, <2>3, <2>4
<1>2. Cardinality(ahead) = a
  <2> DEFINE done == [min_winning_score |-> s + 1]
  <2>1. done.min_winning_score = s + 1
    OBVIOUS
  <2>2. ahead = Winning(done, en)
    BY <1>1 DEF Winning
  <2>3. Cardinality(Winning(done, en)) = a
    <3> HIDE DEF done
    <3> QED
      BY <1>1, <2>1, WinnersByEntry DEF Live
  <2> QED
    BY <2>2, <2>3
<1>3. /\ Cardinality(Reaching(tr, threshold)) >= target
      /\ Cardinality(Reaching(tr, threshold + 1)) < target
  BY <1>1, ThresholdSplits
<1> HIDE DEF s, n, ahead
<1>4. a \in Nat /\ target \in Nat
  <2>1. a \in Nat
    BY <1>1, ReachingShrinks
  <2>2. target \in Nat
    BY ONLY <1>1, <2>1, Quarter, SMTT(40)
  <2> QED
    BY <2>1, <2>2
<1>5. a < target <=> 4 * a < n
  BY ONLY <1>1, <1>4, Quarter, SMTT(40)
<1>6. CASE s >= threshold
  <2>1. threshold + 1 <= s + 1 /\ threshold + 1 \in Int /\ s + 1 \in Int
    BY <1>1, <1>6
  <2>2. /\ a <= Cardinality(Reaching(tr, threshold + 1))
        /\ Cardinality(Reaching(tr, threshold + 1)) \in Nat
    BY <1>1, <2>1, ReachingShrinks
  <2> HIDE DEF a, target
  <2>3. a < target
    BY <1>3, <1>4, <2>2
  <2> QED
    BY <1>2, <1>5, <1>6, <2>3 DEF s, n, ahead
<1>7. CASE ~(s >= threshold)
  <2>1. s + 1 <= threshold /\ s + 1 \in Int /\ threshold \in Int
    BY <1>1, <1>7
  <2>2. Cardinality(Reaching(tr, threshold)) <= a /\ Cardinality(Reaching(tr, threshold)) \in Nat
    BY <1>1, <2>1, ReachingShrinks
  <2> HIDE DEF a, target
  <2>3. ~(a < target)
    BY <1>3, <1>4, <2>2
  <2> QED
    BY <1>2, <1>5, <1>7, <2>3 DEF s, n, ahead
<1> QED
  BY <1>6, <1>7

LEMMA SettleEscrow ==
    ASSUME ~ForeignRefund, IInv, LifeInv, CohInv, ScoreInv, NEW t \in TournamentIds,
           FinalizeTournament(t)
    PROVE  KeptEscrow
<1> DEFINE tr == tournament[t]
           en == entry[t]
           next == t + 1
           fresh == NewTournament(config)
<1>1. /\ tr.state = "Running" /\ t = config.current_tournament_id
      /\ next \in TournamentIds /\ next # t /\ tournament[next].state = "Absent"
      /\ entry' = entry
  BY FinalizeUpdate
<1>2. PICK threshold \in WinningThreshold(tr) :
         /\ tournament' = [tournament EXCEPT ![t] = Finalized(tr, threshold),
                                             ![next] = fresh]
         /\ config' = [Collected(config, Settlement(tr, threshold).fees) EXCEPT
                           !.current_tournament_id = next]
  BY <1>1, FinalizeUpdate
<1> DEFINE done == Finalized(tr, threshold)
<1>3. /\ tr \in TournamentType /\ en \in [Players -> EntryType] /\ Linked(tr, en)
      /\ Scored(tr, en) /\ Sound(tr) /\ Coherent(tr, en)
      /\ Cardinality(OpenEntries(t)) = tr.participant_count
      /\ config \in ConfigType /\ tournament \in [TournamentIds -> TournamentType]
  BY <1>1, Members, Known DEF Live, IInv, TournamentsSound
<1>4. tr.participant_count >= 1
  <2>1. tr.participant_count >= 2 /\ tr.participant_count \in Nat
    BY <1>1, <1>3, Fields DEF Coherent, Phased, Scheduled
  <2> QED
    BY <2>1
<1>5. /\ done.state = "Payout" /\ done.min_winning_score = threshold
      /\ fresh.state = "Registration"
  BY <1>3, FinalizedFields, NewFields
<1>6. config'.current_tournament_id = next
  BY <1>2, <1>3 DEF Collected, ConfigType
<1> HIDE DEF done, fresh
<1>7. \A u \in TournamentIds : tournament'[u] = IF u = next THEN fresh
                                               ELSE IF u = t THEN done ELSE tournament[u]
  BY <1>1, <1>2, <1>3 DEF done
<1>8. t \in Int /\ \A u \in TournamentIds : u \in Int
  BY DEF TournamentIds
<1>9. OpenEntries(next) = {} /\ Scored(tournament[next], entry[next])
  BY <1>1, Members
<1>10. ASSUME NEW u \in TournamentIds, u # t, u # next PROVE Unmoved(u)
  <2>1. tournament'[u] = tournament[u] /\ entry'[u] = entry[u]
    BY <1>1, <1>7, <1>10
  <2>2. u < t \/ u > next
    BY ONLY <1>8, <1>10, u \in TournamentIds
  <2>3. EscrowPhase(u)' = EscrowPhase(u)
    <3>1. u < config.current_tournament_id <=> u < config'.current_tournament_id
      BY <1>1, <1>6, <1>8, <2>2
    <3> QED
      BY <2>1, <3>1 DEF EscrowPhase
  <2> QED
    BY <2>1, <2>3 DEF Unmoved, OpenEntries, PointsOf, WinnersOf, OpenWinners
<1>11. /\ EscrowPhase(t) = "Playing" /\ EscrowPhase(t)' = "Settled"
       /\ EscrowPhase(next) = "Unused" /\ EscrowPhase(next)' = "Open"
  <2>1. EscrowPhase(t) = "Playing" /\ EscrowPhase(t)' = "Settled"
    BY <1>1, <1>5, <1>7 DEF EscrowPhase
  <2>2. EscrowPhase(next)' = "Open"
    BY <1>1, <1>5, <1>7 DEF EscrowPhase
  <2>3. EscrowPhase(next) = "Unused"
    BY <1>1, <1>8 DEF EscrowPhase
  <2> QED
    BY <2>1, <2>2, <2>3
<1>12. WinnersOf(next)' = {} /\ WinnersOf(next) = {} /\ WinnersOf(t) = {}
  BY <1>1, <1>5, <1>7 DEF WinnersOf
<1>13. WinnersOf(t)' = TopQuarter(t)
  <2>1. WinnersOf(t)' = {p \in OpenEntries(t) : en[p].score >= threshold}
    BY <1>1, <1>5, <1>7 DEF WinnersOf, OpenWinners, OpenEntries
  <2>2. ASSUME NEW p \in OpenEntries(t)
        PROVE  en[p].score >= threshold
                   <=> 4 * Cardinality(Ahead(t, p)) < Cardinality(OpenEntries(t))
    <3> DEFINE ahead == {q \in Players : en[q].open /\ en[q].score > en[p].score}
    <3>1. p \in Players
      BY DEF OpenEntries
    <3>2. Ahead(t, p) = ahead
      <4>1. Rosters[t] = OpenEntries(t)
        BY Here
      <4>2. \A q \in Players : Points[t][q] = en[q].score
        BY Here DEF PointsOf
      <4>3. Ahead(t, p) = {q \in OpenEntries(t) : en[q].score > en[p].score}
        BY <3>1, <4>1, <4>2 DEF Ahead, OpenEntries
      <4> QED
        BY <4>3 DEF OpenEntries
    <3>3. en[p].score >= threshold <=> 4 * Cardinality(ahead) < tr.participant_count
      BY ONLY <1>1, <1>3, <1>4, <3>1, WinsByRank, threshold \in WinningThreshold(tr)
    <3> QED
      BY <1>3, <3>2, <3>3
  <2>3. TopQuarter(t) = {p \in OpenEntries(t) :
                            4 * Cardinality(Ahead(t, p)) < Cardinality(OpenEntries(t))}
    BY Here DEF TopQuarter
  <2> QED
    BY <2>1, <2>2, <2>3
<1>14. Promise!Next
  <2>1. Phases[t] = "Playing" /\ Phases[next] = "Unused"
    BY <1>1, <1>11, Here
  <2>2. Phases' = [Phases EXCEPT ![t] = "Settled", ![next] = "Open"]
    <3>1. \A u \in TournamentIds : EscrowPhase(u)' =
              IF u = next THEN "Open" ELSE IF u = t THEN "Settled" ELSE EscrowPhase(u)
      BY <1>1, <1>10, <1>11 DEF Unmoved
    <3> QED
      BY <1>1, <3>1 DEF Phases
  <2>3. Champions' = [Champions EXCEPT ![t] = TopQuarter(t)]
    <3>1. \A u \in TournamentIds : WinnersOf(u)' =
              IF u = t THEN TopQuarter(t) ELSE WinnersOf(u)
      BY <1>1, <1>10, <1>12, <1>13 DEF Unmoved
    <3> QED
      BY <3>1 DEF Champions
  <2>4. UNCHANGED <<Rosters, Points>>
    BY <1>1 DEF Rosters, Points, OpenEntries, PointsOf
  <2> QED
    BY <1>1, <2>1, <2>2, <2>3, <2>4, EscrowSettle
<1>15. ScoreInv'
  <2> SUFFICES ASSUME NEW u \in TournamentIds PROVE Scored(tournament[u], entry[u])'
    BY DEF ScoreInv
  <2>1. CASE u = next
    BY <1>1, <1>9, <2>1 DEF Scored, OpenEntries
  <2>2. CASE u = t
    BY <1>1, <1>3, <1>5, <1>7, <2>2 DEF Scored, Early
  <2>3. CASE u # t /\ u # next
    BY <1>1, <1>7, <2>3 DEF Scored, ScoreInv
  <2> QED
    BY <2>1, <2>2, <2>3
<1> QED
  BY <1>14, <1>15 DEF KeptEscrow

-----------------------------------------------------------------------------
(***************************************************************************)
(* The refinement                                                          *)
(***************************************************************************)
LEMMA OpenFirstEscrow ==
    ASSUME ~ForeignRefund, IInv, IInv', LifeInv, CohInv, ScoreInv,
           NEW params \in InitParams, InitializeConfig(params)
    PROVE  KeptEscrow
<1> DEFINE new == NewTournament(config')
<1>1. /\ ~config.initialized /\ tournament' = [tournament EXCEPT ![0] = new]
      /\ entry' = entry /\ config'.current_tournament_id = 0
  BY DEF InitializeConfig
<1>2. /\ config.current_tournament_id = 0 /\ 0 \in TournamentIds
      /\ \A t \in TournamentIds : tournament[t].state = "Absent" /\ ~(t < 0)
  BY <1>1, AmountsAssumption DEF LifeInv, Dormant, TournamentIds
<1>3. new.state = "Registration"
  BY NewFields DEF IInv
<1> HIDE DEF new
<1>4. Scored(new, entry'[0])
  <2>1. Scored(tournament[0], entry[0]) /\ OpenEntries(0) = {}
    BY <1>2, Members
  <2> QED
    BY <1>1, <2>1 DEF Scored, OpenEntries
<1>5. /\ \A u \in TournamentIds \ {0} : Unmoved(u)
      /\ tournament'[0] = new /\ ScoreInv'
  BY <1>1, <1>2, <1>4, OneUpdated
<1>6. /\ \A t \in TournamentIds : EscrowPhase(t) = "Unused"
      /\ EscrowPhase(0)' = "Open" /\ WinnersOf(0) = {} /\ WinnersOf(0)' = {}
      /\ OpenEntries(0)' = OpenEntries(0) /\ PointsOf(entry[0])' = PointsOf(entry[0])
  <2>1. \A t \in TournamentIds : EscrowPhase(t) = "Unused"
    BY <1>2 DEF EscrowPhase
  <2>2. EscrowPhase(0)' = "Open" /\ WinnersOf(0) = {} /\ WinnersOf(0)' = {}
    BY <1>2, <1>3, <1>5 DEF EscrowPhase, WinnersOf
  <2>3. OpenEntries(0)' = OpenEntries(0) /\ PointsOf(entry[0])' = PointsOf(entry[0])
    BY <1>1 DEF OpenEntries, PointsOf
  <2> QED
    BY <2>1, <2>2, <2>3
<1>7. Promise!Next
  <2>1. \A t \in TournamentIds : Phases[t] = "Unused"
    BY <1>6 DEF Phases
  <2>2. /\ Phases' = [Phases EXCEPT ![0] = "Open"]
        /\ UNCHANGED <<Rosters, Points, Champions>>
    BY <1>2, <1>5, <1>6, Elsewhere
  <2> QED
    BY <2>1, <2>2, EscrowOpenFirst
<1> QED
  BY <1>5, <1>7 DEF KeptEscrow

\* Instructions of the admin and the passing of time.
LEMMA IdleEscrow ==
    ASSUME ScoreInv, tournament' = tournament, entry' = entry,
           config'.current_tournament_id = config.current_tournament_id
    PROVE  KeptEscrow
<1>1. \A t \in TournamentIds : Unmoved(t)
  BY SameAccounts
<1>2. UNCHANGED Promise!vars
  BY <1>1, AllUnmoved
<1>3. ScoreInv'
  BY DEF ScoreInv, Scored
<1> QED
  BY <1>2, <1>3 DEF KeptEscrow

LEMMA PlayerStepEscrow ==
    ASSUME ~ForeignRefund, IInv, CohInv, ScoreInv, NEW t \in TournamentIds,
           NEW p \in Players, PlayerStep(t, p)
    PROVE  KeptEscrow
<1> DEFINE tr == tournament[t]
           en == entry[t][p]
<1>1. /\ tr \in TournamentType /\ en \in EntryType
      /\ tournament \in [TournamentIds -> TournamentType]
  BY Given DEF TournamentsSound
<1>2. ASSUME NEW commitment \in Commitments, EnterTournament(p, t, commitment)
      PROVE  KeptEscrow
  BY <1>2, EnterEscrow
<1>3. ASSUME NEW secret \in Secrets, RevealStrategy(p, t, secret) PROVE KeptEscrow
  <2> DEFINE e == RevealedEntry(en, secret)
             new == Revealed(tr, en.index, secret.strategy)
  <2>1. /\ tr.state = "Reveal" /\ en.open /\ entry' = [entry EXCEPT ![t][p] = e]
        /\ tournament' = [tournament EXCEPT ![t] = new] /\ config' = config
    BY <1>3 DEF RevealStrategy
  <2>2. e.open = TRUE /\ e.score = en.score
    BY <1>1, <2>1 DEF RevealedEntry, EntryType
  <2>3. new.state = "Reveal"
    BY <1>1, <2>1, RevealedFields DEF SamePhase
  <2> HIDE DEF e, new
  <2> QED
    BY <2>1, <2>2, <2>3, RevealedEscrow
<1>4. ASSUME NEW byte \in SlotBytes, ForfeitUnrevealed(t, p, byte) PROVE KeptEscrow
  <2> DEFINE e == [en EXCEPT !.strategy = ForfeitStrategy(byte), !.revealed = TRUE]
             new == Revealed(Charged(tr), en.index, ForfeitStrategy(byte))
  <2>1. /\ tr.state = "Reveal" /\ en.open /\ entry' = [entry EXCEPT ![t][p] = e]
        /\ tournament' = [tournament EXCEPT ![t] = new] /\ config' = config
    BY <1>4 DEF ForfeitUnrevealed
  <2>2. e.open = TRUE /\ e.score = en.score
    BY <1>1, <2>1 DEF EntryType
  <2>3. new.state = "Reveal"
    <3>1. Sound(tr) /\ config \in ConfigType /\ tr.state \in Live
      BY <2>1, Given DEF Live
    <3>2. Charged(tr) \in TournamentType /\ Charged(tr).state = tr.state
      BY <3>1, ChargedSound DEF Sound
    <3> QED
      BY <2>1, <3>2, RevealedFields DEF SamePhase
  <2> HIDE DEF e, new
  <2> QED
    BY <2>1, <2>2, <2>3, RevealedEscrow
<1>5. ASSUME ClaimRefund(p, t) PROVE KeptEscrow
  BY <1>5, RefundEscrow
<1>6. ASSUME ClaimPayout(p, t) PROVE KeptEscrow
  <2> DEFINE new == Claimed(tr)
  <2>1. /\ tr.state = "Payout" /\ en.open /\ entry' = [entry EXCEPT ![t][p] = NoEntry]
        /\ tournament' = [tournament EXCEPT ![t] = new] /\ config' = config
    BY <1>6 DEF ClaimPayout
  <2>2. SamePhase(new, tr) /\ SameResult(new, tr)
    BY <1>1, ClaimedFields
  <2> HIDE DEF new
  <2> QED
    BY <2>1, <2>2, LeavingEscrow
<1> QED
  BY <1>2, <1>3, <1>4, <1>5, <1>6 DEF PlayerStep

LEMMA CloseEntryEscrow ==
    ASSUME ~ForeignRefund, IInv, CohInv, ScoreInv, NEW t \in TournamentIds,
           NEW p \in Players, CloseEntry(t, p)
    PROVE  KeptEscrow
<1> DEFINE tr == tournament[t]
           new == EntryClosed(tr, entry[t][p])
<1>1. /\ tr.state = "Payout" /\ entry[t][p].open
      /\ entry' = [entry EXCEPT ![t][p] = NoEntry]
      /\ tournament' = [tournament EXCEPT ![t] = new]
  BY DEF CloseEntry
<1>2. config'.current_tournament_id = config.current_tournament_id
  BY CloseEntryQuiet DEF SameConfig
<1>3. SamePhase(new, tr) /\ SameResult(new, tr)
  BY Given, EntryClosedFields
<1> HIDE DEF new
<1> QED
  BY <1>1, <1>2, <1>3, LeavingEscrow

LEMMA UpdateIdle ==
    ASSUME NEW params, UpdateConfig(params)
    PROVE  tournament' = tournament /\ entry' = entry
  BY DEF UpdateConfig

LEMMA NextEscrow ==
    ASSUME ~ForeignRefund
    PROVE  IInv /\ LifeInv /\ CohInv /\ ScoreInv /\ IInv' /\ [Next]_vars => KeptEscrow
<1> SUFFICES ASSUME IInv, LifeInv, CohInv, ScoreInv, IInv', [Next]_vars
             PROVE  KeptEscrow
  OBVIOUS
<1>1. CASE Tick
  BY <1>1, IdleEscrow DEF Tick
<1>2. ASSUME NEW params \in InitParams, InitializeConfig(params) PROVE KeptEscrow
  BY <1>2, OpenFirstEscrow
<1>3. ASSUME NEW params \in ConfigUpdates, UpdateConfig(params) PROVE KeptEscrow
  <2>1. config'.current_tournament_id = config.current_tournament_id
    BY <1>3, UpdateConfigFields
  <2> QED
    BY <1>3, <2>1, IdleEscrow, UpdateIdle
<1>4. CASE WithdrawFees
  <2>1. config'.current_tournament_id = config.current_tournament_id
    BY <1>4 DEF WithdrawFees, IInv, ConfigType
  <2> QED
    BY <1>4, <2>1, IdleEscrow DEF WithdrawFees
<1>5. ASSUME NEW t \in TournamentIds, NEW p \in Players, PlayerStep(t, p) PROVE KeptEscrow
  BY <1>5, PlayerStepEscrow
<1>6. ASSUME NEW t \in TournamentIds, NEW p \in Players, CloseEntry(t, p) PROVE KeptEscrow
  BY <1>6, CloseEntryEscrow
<1>7. ASSUME NEW t \in TournamentIds, CloseRegistration(t) PROVE KeptEscrow
  BY <1>7, LockEscrow
<1>8. ASSUME NEW t \in TournamentIds, CloseReveal(t) PROVE KeptEscrow
  BY <1>8, CloseRevealEscrow
<1>9. ASSUME NEW t \in TournamentIds, RunMatches(t) PROVE KeptEscrow
  BY <1>9, PlayEscrow
<1>10. ASSUME NEW t \in TournamentIds, FinalizeTournament(t) PROVE KeptEscrow
  BY <1>10, SettleEscrow
<1>11. ASSUME NEW t \in TournamentIds, CloseTournament(t) PROVE KeptEscrow
  BY <1>11, CloseEscrow
<1>12. CASE UNCHANGED vars
  BY <1>12, IdleEscrow DEF vars
<1> QED
  BY <1>1, <1>2, <1>3, <1>4, <1>5, <1>6, <1>7, <1>8, <1>9, <1>10, <1>11, <1>12
  DEF Next, PlayerStep

LEMMA InitEscrow == Init => Promise!Init /\ ScoreInv
<1> SUFFICES ASSUME Init PROVE Promise!Init /\ ScoreInv
  OBVIOUS
<1>1. /\ config.current_tournament_id = 0
      /\ \A t \in TournamentIds :
            /\ tournament[t].state = "Absent" /\ ~(t < 0)
            /\ \A p \in Players : entry[t][p].open = FALSE /\ entry[t][p].score = 0
  BY NoEntryClosed, NoEntryScore DEF Init, NoConfig, NoTournament, TournamentIds
<1>2. ScoreInv
  BY <1>1 DEF ScoreInv, Scored
<1>3. /\ Phases = [t \in TournamentIds |-> "Unused"]
      /\ Rosters = [t \in TournamentIds |-> {}]
      /\ Points = [t \in TournamentIds |-> [p \in Players |-> 0]]
      /\ Champions = [t \in TournamentIds |-> {}]
  <2>1. Phases = [t \in TournamentIds |-> "Unused"]
    BY <1>1 DEF Phases, EscrowPhase
  <2>2. Rosters = [t \in TournamentIds |-> {}]
    BY <1>1 DEF Rosters, OpenEntries
  <2>3. Points = [t \in TournamentIds |-> [p \in Players |-> 0]]
    <3>1. \A t \in TournamentIds : PointsOf(entry[t]) = [p \in Players |-> 0]
      BY <1>1 DEF PointsOf
    <3> QED
      BY <3>1 DEF Points
  <2>4. Champions = [t \in TournamentIds |-> {}]
    BY <1>1 DEF Champions, WinnersOf
  <2> QED
    BY <2>1, <2>2, <2>3, <2>4
<1>4. Promise!Init
  BY <1>3 DEF Promise!Init, Phases, Rosters, Points, PointsOf, Champions, WinnersOf
<1> QED
  BY <1>2, <1>4

\* The program implements Escrow, provided close_reveal is given entries of its own
\* tournament: whatever the order of transactions, the members
\* of a tournament, their scores and its winners change only by steps Escrow
\* allows.  In particular finalize_tournament makes winners of exactly those with
\* fewer than a quarter of the field ahead of them, and close_tournament finds no
\* member left.
THEOREM EscrowIsKept == ~ForeignRefund => (Spec => KeepsEscrow)
<1> SUFFICES ASSUME ~ForeignRefund PROVE Spec => KeepsEscrow
  OBVIOUS
<1>1. Init => Promise!Init /\ ScoreInv
  BY InitEscrow
<1>2. IInv /\ LifeInv /\ CohInv /\ ScoreInv /\ IInv' /\ [Next]_vars
          => [Promise!Next]_(Promise!vars) /\ ScoreInv'
  BY NextEscrow DEF KeptEscrow
<1> QED
  BY <1>1, <1>2, SpecCoh, PTL DEF Spec, KeepsEscrow, Promise!Spec

=============================================================================
