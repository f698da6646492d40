-------------------------- MODULE LifecycleProofs ---------------------------
(***************************************************************************)
(* Proofs about the life of a tournament, whatever entry account the       *)
(* operator passes to close_reveal: there is one tournament before its     *)
(* payout, a result is final, a settlement stays within the pool, and      *)
(* strategies are the committed ones.                                      *)
(***************************************************************************)
EXTENDS ArenaProofs

-----------------------------------------------------------------------------
(***************************************************************************)
(* What each update of a Tournament account changes, field by field        *)
(***************************************************************************)
SamePhase(new, tr) == new.state = tr.state /\ new.reveal_ends = tr.reveal_ends

SameTerms(new, tr) == new.stake = tr.stake /\ new.house_fee_bps = tr.house_fee_bps

SameSchedule(new, tr) ==
    /\ new.matches_per_player = tr.matches_per_player
    /\ new.matches_total = tr.matches_total
    /\ new.randomness_seed = tr.randomness_seed

SameResult(new, tr) ==
    /\ new.min_winning_score = tr.min_winning_score
    /\ new.winner_count = tr.winner_count
    /\ new.winner_pool = tr.winner_pool
    /\ new.payout_started_at = tr.payout_started_at

SameStakes(new, tr) ==
    /\ new.participant_count = tr.participant_count
    /\ new.pool = tr.pool

SameSlots(new, tr) ==
    /\ new.players = tr.players
    /\ new.scores = tr.scores
    /\ new.strategies = tr.strategies

\* A new participant: one more slot in each vector.
LEMMA EnteredFields ==
    ASSUME NEW tr \in TournamentType, NEW p
    PROVE  LET new == Entered(tr, p)
           IN  /\ SamePhase(new, tr) /\ SameTerms(new, tr)
               /\ SameSchedule(new, tr) /\ SameResult(new, tr)
               /\ new.players = Append(tr.players, p)
               /\ new.scores = Append(tr.scores, 0)
               /\ new.strategies = Append(tr.strategies, Unrevealed)
               /\ new.participant_count = tr.participant_count + 1
               /\ new.entries_remaining = tr.entries_remaining + 1
               /\ new.pool = tr.pool + tr.stake
               /\ new.reveals_completed = tr.reveals_completed
               /\ new.claims_processed = tr.claims_processed
               /\ new.matches_completed = tr.matches_completed
  BY DEF Entered, TournamentType, SamePhase, SameTerms, SameSchedule, SameResult

\* A strategy is recorded in its slot.
LEMMA RevealedFields ==
    ASSUME NEW tr \in TournamentType, NEW index, NEW strategy
    PROVE  LET new == Revealed(tr, index, strategy)
           IN  /\ SamePhase(new, tr) /\ SameTerms(new, tr) /\ SameStakes(new, tr)
               /\ SameSchedule(new, tr) /\ SameResult(new, tr)
               /\ new.players = tr.players
               /\ new.scores = tr.scores
               /\ new.strategies = [tr.strategies EXCEPT ![index + 1] = strategy]
               /\ new.entries_remaining = tr.entries_remaining
               /\ new.reveals_completed = tr.reveals_completed + 1
               /\ new.claims_processed = tr.claims_processed
               /\ new.matches_completed = tr.matches_completed
  BY DEF Revealed, TournamentType, SamePhase, SameTerms, SameStakes, SameSchedule,
         SameResult

\* A slot becomes a hole.
LEMMA RefundedFields ==
    ASSUME NEW tr \in TournamentType, NEW index
    PROVE  LET new == Refunded(tr, index)
           IN  /\ SamePhase(new, tr) /\ SameTerms(new, tr)
               /\ SameSchedule(new, tr) /\ SameResult(new, tr)
               /\ new.players = [tr.players EXCEPT ![index + 1] = NoPlayer]
               /\ new.scores = tr.scores
               /\ new.strategies = [tr.strategies EXCEPT ![index + 1] = Unrevealed]
               /\ new.participant_count = tr.participant_count - 1
               /\ new.entries_remaining = tr.entries_remaining - 1
               /\ new.pool = tr.pool - tr.stake
               /\ new.reveals_completed = tr.reveals_completed
               /\ new.claims_processed = tr.claims_processed
               /\ new.matches_completed = tr.matches_completed
  BY DEF Refunded, TournamentType, SamePhase, SameTerms, SameSchedule, SameResult

\* The last player's slot becomes a hole, and his reveal no longer counts.
LEMMA LastRefundedFields ==
    ASSUME NEW tr \in TournamentType, NEW index, Refunded(tr, index) \in TournamentType
    PROVE  LET new == LastRefunded(tr, index)
           IN  /\ SamePhase(new, tr) /\ SameTerms(new, tr)
               /\ SameSchedule(new, tr) /\ SameResult(new, tr)
               /\ new.players = [tr.players EXCEPT ![index + 1] = NoPlayer]
               /\ new.scores = tr.scores
               /\ new.strategies = [tr.strategies EXCEPT ![index + 1] = Unrevealed]
               /\ new.participant_count = tr.participant_count - 1
               /\ new.entries_remaining = tr.entries_remaining - 1
               /\ new.pool = tr.pool - tr.stake
               /\ new.reveals_completed = tr.reveals_completed - 1
               /\ new.claims_processed = tr.claims_processed
               /\ new.matches_completed = tr.matches_completed
<1> DEFINE mid == Refunded(tr, index)
           new == [mid EXCEPT !.reveals_completed = mid.reveals_completed - 1]
<1>1. LastRefunded(tr, index) = new
  BY DEF LastRefunded
<1>2. /\ SamePhase(mid, tr) /\ SameTerms(mid, tr)
      /\ SameSchedule(mid, tr) /\ SameResult(mid, tr)
      /\ mid.players = [tr.players EXCEPT ![index + 1] = NoPlayer]
      /\ mid.scores = tr.scores
      /\ mid.strategies = [tr.strategies EXCEPT ![index + 1] = Unrevealed]
      /\ mid.participant_count = tr.participant_count - 1
      /\ mid.entries_remaining = tr.entries_remaining - 1
      /\ mid.pool = tr.pool - tr.stake
      /\ mid.reveals_completed = tr.reveals_completed
      /\ mid.claims_processed = tr.claims_processed
      /\ mid.matches_completed = tr.matches_completed
  BY RefundedFields
<1> HIDE DEF mid
<1>3. mid \in TournamentType
  BY DEF mid
<1>4. /\ SamePhase(new, mid) /\ SameTerms(new, mid) /\ SameStakes(new, mid)
      /\ SameSchedule(new, mid) /\ SameResult(new, mid) /\ SameSlots(new, mid)
      /\ new.entries_remaining = mid.entries_remaining
      /\ new.reveals_completed = mid.reveals_completed - 1
      /\ new.claims_processed = mid.claims_processed
      /\ new.matches_completed = mid.matches_completed
  BY <1>3 DEF TournamentType, SamePhase, SameTerms, SameStakes, SameSchedule,
              SameResult, SameSlots
<1> HIDE DEF new
<1> QED
  BY <1>1, <1>2, <1>4 DEF SamePhase, SameTerms, SameStakes, SameSchedule, SameResult,
                          SameSlots

\* Fees of the operator are noted, nothing else.
LEMMA ChargedFields ==
    ASSUME NEW tr \in TournamentType
    PROVE  LET new == Charged(tr)
           IN  /\ SamePhase(new, tr) /\ SameTerms(new, tr) /\ SameStakes(new, tr)
               /\ SameSchedule(new, tr) /\ SameResult(new, tr) /\ SameSlots(new, tr)
               /\ new.entries_remaining = tr.entries_remaining
               /\ new.reveals_completed = tr.reveals_completed
               /\ new.claims_processed = tr.claims_processed
               /\ new.matches_completed = tr.matches_completed
               /\ new.lamports = tr.lamports
  BY DEF Charged, TournamentType, SamePhase, SameTerms, SameStakes, SameSchedule,
         SameResult, SameSlots

\* Registration ends, the deadline for reveals is set.
Locked(tr, ends) == [tr EXCEPT !.state = "Reveal", !.reveal_ends = ends]

LEMMA LockedFields ==
    ASSUME NEW tr \in TournamentType, NEW ends
    PROVE  LET new == Locked(tr, ends)
           IN  /\ new.state = "Reveal"
               /\ SameTerms(new, tr) /\ SameStakes(new, tr)
               /\ SameSchedule(new, tr) /\ SameResult(new, tr) /\ SameSlots(new, tr)
               /\ new.entries_remaining = tr.entries_remaining
               /\ new.reveals_completed = tr.reveals_completed
               /\ new.claims_processed = tr.claims_processed
               /\ new.matches_completed = tr.matches_completed
               /\ new.reveal_ends = ends
  BY DEF Locked, TournamentType, SameTerms, SameStakes, SameSchedule, SameResult,
         SameSlots

\* The schedule is fixed.
LEMMA StartedFields ==
    ASSUME NEW tr \in TournamentType, NEW seed
    PROVE  LET new == Started(tr, seed)
               k   == EffectiveK(tr.participant_count, tr.matches_per_player)
           IN  /\ new.state = "Running" /\ new.reveal_ends = tr.reveal_ends
               /\ SameTerms(new, tr) /\ SameStakes(new, tr)
               /\ SameResult(new, tr) /\ SameSlots(new, tr)
               /\ new.entries_remaining = tr.entries_remaining
               /\ new.reveals_completed = tr.reveals_completed
               /\ new.claims_processed = tr.claims_processed
               /\ tr.participant_count # 0 =>
                     /\ new.matches_completed = tr.matches_completed
                     /\ new.matches_per_player = k
                     /\ new.matches_total = CalculateMatchCount(tr.participant_count, k)
                     /\ new.randomness_seed = seed
<1>1. CASE tr.participant_count = 0
  BY <1>1 DEF Started, TournamentType, SameTerms, SameStakes, SameResult, SameSlots
<1>2. CASE tr.participant_count # 0
  BY <1>2 DEF Started, TournamentType, SameTerms, SameStakes, SameResult, SameSlots
<1> QED
  BY <1>1, <1>2

\* A winner's share is paid.
LEMMA ClaimedFields ==
    ASSUME NEW tr \in TournamentType
    PROVE  LET new == Claimed(tr)
           IN  /\ SamePhase(new, tr) /\ SameTerms(new, tr) /\ SameStakes(new, tr)
               /\ SameSchedule(new, tr) /\ SameResult(new, tr) /\ SameSlots(new, tr)
               /\ new.entries_remaining = tr.entries_remaining - 1
               /\ new.claims_processed = tr.claims_processed + 1
               /\ new.lamports = tr.lamports - Share(tr)
  BY DEF Claimed, TournamentType, SamePhase, SameTerms, SameStakes, SameSchedule,
         SameResult, SameSlots

\* An entry is closed by the operator.
LEMMA EntryClosedFields ==
    ASSUME NEW tr \in TournamentType, NEW en
    PROVE  LET new == EntryClosed(tr, en)
           IN  /\ SamePhase(new, tr) /\ SameTerms(new, tr) /\ SameStakes(new, tr)
               /\ SameSchedule(new, tr) /\ SameResult(new, tr) /\ SameSlots(new, tr)
               /\ new.entries_remaining = tr.entries_remaining - 1
               /\ new.claims_processed = IF IsWinner(tr, en) /\ ~Expired(tr)
                                         THEN tr.claims_processed + 1
                                         ELSE tr.claims_processed
               /\ new.lamports = tr.lamports - ClosingTransfer(tr, en)
  BY DEF EntryClosed, TournamentType, SamePhase, SameTerms, SameStakes, SameSchedule,
         SameResult, SameSlots

\* The result is fixed.
LEMMA FinalizedFields ==
    ASSUME NEW tr \in TournamentType, NEW threshold
    PROVE  LET new == Finalized(tr, threshold)
               s   == Settlement(tr, threshold)
           IN  /\ new.state = "Payout" /\ new.reveal_ends = tr.reveal_ends
               /\ SameTerms(new, tr) /\ SameStakes(new, tr)
               /\ SameSchedule(new, tr) /\ SameSlots(new, tr)
               /\ new.entries_remaining = tr.entries_remaining
               /\ new.claims_processed = tr.claims_processed
               /\ new.min_winning_score = threshold
               /\ new.winner_count = s.winners
               /\ new.winner_pool = s.winner_pool
               /\ new.payout_started_at = now
               /\ new.lamports = tr.lamports - s.fees - s.reimbursed
  BY DEF Finalized, TournamentType, SameTerms, SameStakes, SameSchedule, SameSlots

\* A tournament as it is created.
LEMMA NewFields ==
    ASSUME NEW c \in ConfigType
    PROVE  LET new == NewTournament(c)
           IN  /\ new.state = "Registration"
               /\ new.house_fee_bps = c.house_fee_bps
               /\ new.players = << >> /\ new.scores = << >> /\ new.strategies = << >>
               /\ new.pool = 0 /\ new.participant_count = 0
               /\ new.entries_remaining = 0 /\ new.reveals_completed = 0
               /\ new.claims_processed = 0 /\ new.matches_completed = 0
               /\ new.matches_total = 0
  BY DEF NewTournament, NoTournament

-----------------------------------------------------------------------------
(***************************************************************************)
(* What a batch of matches changes: scores, and the matches completed      *)
(***************************************************************************)
SameButScore(new, en) ==
    /\ new.open = en.open /\ new.index = en.index
    /\ new.commitment = en.commitment /\ new.strategy = en.strategy
    /\ new.bytecode = en.bytecode /\ new.revealed = en.revealed

ScoredOnly(new, tr) ==
    /\ SamePhase(new, tr) /\ SameTerms(new, tr) /\ SameStakes(new, tr)
    /\ SameSchedule(new, tr) /\ SameResult(new, tr)
    /\ new.players = tr.players
    /\ new.strategies = tr.strategies
    /\ new.entries_remaining = tr.entries_remaining
    /\ new.reveals_completed = tr.reveals_completed
    /\ new.claims_processed = tr.claims_processed
    /\ new.lamports = tr.lamports

BatchScored(new, b) ==
    /\ ScoredOnly(new.tr, b.tr)
    /\ \A p \in Players : SameButScore(new.en[p], b.en[p])

\* The pair that meets in the next match of a batch.
NextPair(tr) == CHOOSE x \in PairingOption(tr, tr.matches_completed) : TRUE

\* The scores after a match of that pair.
PlayedScores(tr, score) ==
    AddScore(AddScore(tr.scores, NextPair(tr)[1], score[1]), NextPair(tr)[2], score[2])

PlayedEntries(tr, en, score) ==
    AddResult(AddResult(en, tr.players[NextPair(tr)[1] + 1], score[1]),
              tr.players[NextPair(tr)[2] + 1], score[2])

\* PlayMatch, with its two cases apart.
LEMMA PlayMatchCases ==
    ASSUME NEW b, b.tr \in TournamentType, NEW score
    PROVE  LET new == PlayMatch(b, score)
           IN  /\ ScoredOnly(new.tr, b.tr)
               /\ new.tr.matches_completed = b.tr.matches_completed + 1
               /\ Skipped(b.tr, NextPair(b.tr)) =>
                     new.tr.scores = b.tr.scores /\ new.en = b.en
               /\ ~Skipped(b.tr, NextPair(b.tr)) =>
                     /\ new.tr.scores = PlayedScores(b.tr, score)
                     /\ new.en = PlayedEntries(b.tr, b.en, score)
<1> DEFINE tr   == b.tr
           done == [tr EXCEPT !.matches_completed = @ + 1]
           new  == PlayMatch(b, score)
<1>1. /\ ScoredOnly(done, tr) /\ done.scores = tr.scores
      /\ done.matches_completed = tr.matches_completed + 1
  BY DEF TournamentType, ScoredOnly, SamePhase, SameTerms, SameStakes, SameSchedule,
         SameResult
<1>2. ASSUME NEW s
      PROVE  /\ ScoredOnly([done EXCEPT !.scores = s], tr)
             /\ [done EXCEPT !.scores = s].scores = s
             /\ [done EXCEPT !.scores = s].matches_completed = tr.matches_completed + 1
  BY DEF TournamentType, ScoredOnly, SamePhase, SameTerms, SameStakes, SameSchedule,
         SameResult
<1>3. CASE Skipped(tr, NextPair(tr))
  <2>1. new = [tr |-> done, en |-> b.en]
    BY <1>3 DEF PlayMatch, NextPair
  <2>2. new.tr = done /\ new.en = b.en
    BY ONLY <2>1
  <2> HIDE DEF done, new
  <2>3. /\ ScoredOnly(new.tr, tr) /\ new.tr.matches_completed = tr.matches_completed + 1
        /\ new.tr.scores = tr.scores /\ new.en = b.en
    BY <1>1, <2>2
  <2> QED
    BY <1>3, <2>3 DEF new
<1>4. CASE ~Skipped(tr, NextPair(tr))
  <2>1. new = [tr |-> [done EXCEPT !.scores = PlayedScores(tr, score)],
               en |-> PlayedEntries(tr, b.en, score)]
    BY <1>1, <1>4 DEF PlayMatch, NextPair, PlayedScores, PlayedEntries
  <2>2. /\ new.tr = [done EXCEPT !.scores = PlayedScores(tr, score)]
        /\ new.en = PlayedEntries(tr, b.en, score)
    BY ONLY <2>1
  <2> HIDE DEF done, new
  <2>3. /\ ScoredOnly(new.tr, tr) /\ new.tr.matches_completed = tr.matches_completed + 1
        /\ new.tr.scores = PlayedScores(tr, score)
        /\ new.en = PlayedEntries(tr, b.en, score)
    BY <1>2, <2>2
  <2> QED
    BY <1>4, <2>3 DEF new
<1> QED
  BY <1>3, <1>4

\* Crediting a result changes the score and the matches played of one entry.
LEMMA AddResultScored ==
    ASSUME NEW en \in [Players -> EntryType], NEW q, NEW x \in Nat, NEW p \in Players
    PROVE  /\ SameButScore(AddResult(en, q, x)[p], en[p])
           /\ AddResult(en, q, x)[p].score = IF p = q THEN en[p].score + x ELSE en[p].score
<1>1. en[p] \in EntryType
  OBVIOUS
<1>2. AddResult(en, q, x)[p] = IF p = q THEN AfterMatch(en[p], x) ELSE en[p]
  BY DEF AddResult
<1>3. SameButScore(AfterMatch(en[p], x), en[p]) /\ AfterMatch(en[p], x).score = en[p].score + x
  BY <1>1 DEF AfterMatch, EntryType, SameButScore
<1> QED
  BY <1>2, <1>3 DEF SameButScore

\* Both results of a match.
LEMMA PlayedEntriesScored ==
    ASSUME NEW tr, NEW en \in [Players -> EntryType], NEW score \in Nat \X Nat,
           NEW p \in Players
    PROVE  SameButScore(PlayedEntries(tr, en, score)[p], en[p])
<1> DEFINE mid == AddResult(en, tr.players[NextPair(tr)[1] + 1], score[1])
<1>1. score[1] \in Nat /\ score[2] \in Nat
  OBVIOUS
<1>2. mid \in [Players -> EntryType] /\ SameButScore(mid[p], en[p])
  BY <1>1, AddResultType, AddResultScored
<1> HIDE DEF mid
<1>3. SameButScore(AddResult(mid, tr.players[NextPair(tr)[2] + 1], score[2])[p], mid[p])
  BY <1>1, <1>2, AddResultScored
<1>4. PlayedEntries(tr, en, score) = AddResult(mid, tr.players[NextPair(tr)[2] + 1], score[2])
  BY DEF PlayedEntries, mid
<1> QED
  BY <1>2, <1>3, <1>4 DEF SameButScore

\* One match.
LEMMA PlayMatchScored ==
    ASSUME NEW b, Batch(b), NEW score \in Nat \X Nat
    PROVE  BatchScored(PlayMatch(b, score), b)
<1>1. b.tr \in TournamentType /\ b.en \in [Players -> EntryType]
  BY DEF Batch, Sound
<1>2. CASE Skipped(b.tr, NextPair(b.tr))
  BY <1>1, <1>2, PlayMatchCases DEF BatchScored, SameButScore
<1>3. CASE ~Skipped(b.tr, NextPair(b.tr))
  <2>1. /\ ScoredOnly(PlayMatch(b, score).tr, b.tr)
        /\ PlayMatch(b, score).en = PlayedEntries(b.tr, b.en, score)
    BY <1>1, <1>3, PlayMatchCases
  <2> QED
    BY <1>1, <2>1, PlayedEntriesScored DEF BatchScored
<1> QED
  BY <1>2, <1>3

LEMMA ScoredTransitive ==
    ASSUME NEW a, NEW b, NEW c, BatchScored(b, a), BatchScored(c, b)
    PROVE  BatchScored(c, a)
  BY DEF BatchScored, ScoredOnly, SameButScore, SamePhase, SameTerms, SameStakes,
         SameSchedule, SameResult

\* The whole batch.
LEMMA PlayBatchScored ==
    ASSUME NEW b, Batch(b), NEW n \in Nat, NEW score \in [1..n -> MatchScores]
    PROVE  BatchScored(PlayBatch(b, score), b)
<1>1. ASSUME NEW c, Batch(c), BatchScored(c, b), NEW j \in 1..5
      PROVE  Batch(Played(c, j, score)) /\ BatchScored(Played(c, j, score), b)
  <2>1. CASE j \in DOMAIN score
    <3>1. score[j] \in Nat \X Nat
      BY <2>1, ArgumentsAssumption
    <3>2. Batch(PlayMatch(c, score[j])) /\ BatchScored(PlayMatch(c, score[j]), c)
      BY <1>1, <3>1, PlayMatchKeeps, PlayMatchScored
    <3>3. BatchScored(PlayMatch(c, score[j]), b)
      BY <1>1, <3>2, ScoredTransitive
    <3> QED
      BY <2>1, <3>2, <3>3 DEF Played
  <2>2. CASE j \notin DOMAIN score
    BY <1>1, <2>2 DEF Played
  <2> QED
    BY <2>1, <2>2
<1> DEFINE b1 == Played(b, 1, score)
           b2 == Played(b1, 2, score)
           b3 == Played(b2, 3, score)
           b4 == Played(b3, 4, score)
           b5 == Played(b4, 5, score)
<1>0. BatchScored(b, b)
  BY DEF BatchScored, ScoredOnly, SameButScore, SamePhase, SameTerms, SameStakes,
         SameSchedule, SameResult
<1>2. Batch(b1) /\ BatchScored(b1, b)
  BY <1>0, <1>1
<1> HIDE DEF b1
<1>3. Batch(b2) /\ BatchScored(b2, b)
  BY <1>1, <1>2
<1> HIDE DEF b2
<1>4. Batch(b3) /\ BatchScored(b3, b)
  BY <1>1, <1>3
<1> HIDE DEF b3
<1>5. Batch(b4) /\ BatchScored(b4, b)
  BY <1>1, <1>4
<1> HIDE DEF b4
<1>6. BatchScored(b5, b)
  BY <1>1, <1>5
<1> QED
  BY <1>6 DEF PlayBatch, b1, b2, b3, b4

-----------------------------------------------------------------------------
(***************************************************************************)
(* The phases of the tournaments                                           *)
(***************************************************************************)
\* Before initialize_config there is nothing.
Dormant ==
    ~config.initialized =>
        /\ config.current_tournament_id = 0
        /\ \A t \in TournamentIds : tournament[t].state = "Absent"

\* What the instructions of the admin let through, and tournaments inherit.
ConfigChecked ==
    /\ config.house_fee_bps <= 10000
    /\ config.initialized => config.min_participants >= 2
    /\ \A t \in TournamentIds : tournament[t].house_fee_bps <= 10000

LifeInv == OneLiveTournament /\ Dormant /\ ConfigChecked

SameConfig ==
    /\ config'.initialized = config.initialized
    /\ config'.current_tournament_id = config.current_tournament_id
    /\ config'.house_fee_bps = config.house_fee_bps
    /\ config'.min_participants = config.min_participants

\* A step that moves no tournament into another phase.
Quiet ==
    \A t \in TournamentIds :
        /\ SamePhase(tournament'[t], tournament[t])
        /\ SameTerms(tournament'[t], tournament[t])

\* A step that updates one tournament within its phase.
LEMMA QuietUpdate ==
    ASSUME IInv, NEW t \in TournamentIds, NEW new,
           tournament' = [tournament EXCEPT ![t] = new],
           SamePhase(new, tournament[t]), SameTerms(new, tournament[t])
    PROVE  Quiet
<1>1. tournament \in [TournamentIds -> TournamentType]
  BY DEF IInv, TournamentsSound
<1> QED
  BY <1>1 DEF Quiet, SamePhase, SameTerms

\* Quiet steps keep the lives of the tournaments apart.
LEMMA QuietLife ==
    ASSUME LifeInv, Quiet, SameConfig
    PROVE  LifeInv'
<1>1. \A t \in TournamentIds : /\ tournament'[t].state = tournament[t].state
                               /\ tournament'[t].house_fee_bps = tournament[t].house_fee_bps
  BY DEF Quiet, SamePhase, SameTerms
<1>2. OneLiveTournament'
  BY <1>1 DEF LifeInv, OneLiveTournament, SameConfig
<1>3. Dormant'
  BY <1>1 DEF LifeInv, Dormant, SameConfig
<1>4. ConfigChecked'
  BY <1>1 DEF LifeInv, ConfigChecked, SameConfig
<1> QED
  BY <1>2, <1>3, <1>4 DEF LifeInv

\* The instructions of the players, and the operator's that stay in a phase.
PlayerStep(t, p) ==
    \/ \E commitment \in Commitments : EnterTournament(p, t, commitment)
    \/ \E secret \in Secrets : RevealStrategy(p, t, secret)
    \/ ClaimRefund(p, t)
    \/ ClaimPayout(p, t)
    \/ \E byte \in SlotBytes : ForfeitUnrevealed(t, p, byte)

LEMMA PlayerStepQuiet ==
    ASSUME IInv, NEW t \in TournamentIds, NEW p \in Players, PlayerStep(t, p)
    PROVE  Quiet /\ config' = config
<1> DEFINE tr == tournament[t]
<1>0. tr \in TournamentType
  BY DEF IInv, TournamentsSound
<1>1. CASE \E commitment \in Commitments : EnterTournament(p, t, commitment)
  <2>1. tournament' = [tournament EXCEPT ![t] = Entered(tr, p)] /\ config' = config
    BY <1>1 DEF EnterTournament
  <2>2. SamePhase(Entered(tr, p), tr) /\ SameTerms(Entered(tr, p), tr)
    BY <1>0, EnteredFields
  <2> QED
    BY <2>1, <2>2, QuietUpdate
<1>2. CASE \E secret \in Secrets : RevealStrategy(p, t, secret)
  <2>1. PICK secret \in Secrets : RevealStrategy(p, t, secret)
    BY <1>2
  <2> DEFINE new == Revealed(tr, entry[t][p].index, secret.strategy)
  <2>2. tournament' = [tournament EXCEPT ![t] = new] /\ config' = config
    BY <2>1 DEF RevealStrategy
  <2>3. SamePhase(new, tr) /\ SameTerms(new, tr)
    BY <1>0, RevealedFields
  <2> QED
    BY <2>2, <2>3, QuietUpdate
<1>3. CASE ClaimRefund(p, t)
  <2> DEFINE new == Refunded(tr, entry[t][p].index)
  <2>1. tournament' = [tournament EXCEPT ![t] = new] /\ config' = config
    BY <1>3 DEF ClaimRefund
  <2>2. SamePhase(new, tr) /\ SameTerms(new, tr)
    BY <1>0, RefundedFields
  <2> QED
    BY <2>1, <2>2, QuietUpdate
<1>4. CASE ClaimPayout(p, t)
  <2>1. tournament' = [tournament EXCEPT ![t] = Claimed(tr)] /\ config' = config
    BY <1>4 DEF ClaimPayout
  <2>2. SamePhase(Claimed(tr), tr) /\ SameTerms(Claimed(tr), tr)
    BY <1>0, ClaimedFields
  <2> QED
    BY <2>1, <2>2, QuietUpdate
<1>5. CASE \E byte \in SlotBytes : ForfeitUnrevealed(t, p, byte)
  <2>1. PICK byte \in SlotBytes : ForfeitUnrevealed(t, p, byte)
    BY <1>5
  <2> DEFINE mid == Charged(tr)
             new == Revealed(mid, entry[t][p].index, ForfeitStrategy(byte))
  <2>2. tournament' = [tournament EXCEPT ![t] = new] /\ config' = config
    BY <2>1 DEF ForfeitUnrevealed
  <2>3. mid \in TournamentType /\ SamePhase(mid, tr) /\ SameTerms(mid, tr)
    <3>1. tr.state \in Live /\ Sound(tr) /\ config \in ConfigType
      BY <2>1 DEF ForfeitUnrevealed, Live, IInv, TournamentsSound
    <3> QED
      BY <1>0, <3>1, ChargedSound, ChargedFields DEF Sound
  <2> HIDE DEF mid
  <2>4. SamePhase(new, mid) /\ SameTerms(new, mid)
    BY <2>3, RevealedFields
  <2>5. SamePhase(new, tr) /\ SameTerms(new, tr)
    BY <2>3, <2>4 DEF SamePhase, SameTerms
  <2> QED
    BY <2>2, <2>5, QuietUpdate
<1> QED
  BY <1>1, <1>2, <1>3, <1>4, <1>5 DEF PlayerStep

\* run_matches as one update of the tournament and its entries.
LEMMA RunMatchesUpdate ==
    ASSUME IInv, NEW t \in TournamentIds, RunMatches(t)
    PROVE  \E new :
             /\ BatchScored(new, [tr |-> tournament[t], en |-> entry[t]])
             /\ new.tr \in TournamentType /\ new.en \in [Players -> EntryType]
             /\ tournament' = [tournament EXCEPT ![t] = new.tr]
             /\ entry' = [entry EXCEPT ![t] = new.en]
             /\ tournament[t].state = "Running"
             /\ UNCHANGED <<now, config, wallet>>
<1> DEFINE tr == tournament[t]
           count == Lesser(MatchesPerTx, tr.matches_total - tr.matches_completed)
           b == [tr |-> Charged(tr), en |-> entry[t]]
<1>1. /\ Sound(tr) /\ tr \in TournamentType /\ config \in ConfigType
      /\ entry[t] \in [Players -> EntryType]
  BY DEF IInv, TournamentsSound, EntriesTyped
<1>2. tr.state = "Running" /\ count > 0 /\ UNCHANGED <<now, config, wallet>>
  BY DEF RunMatches
<1>3. PICK score \in [1..count -> MatchScores] :
          /\ tournament' = [tournament EXCEPT ![t] = PlayBatch(b, score).tr]
          /\ entry' = [entry EXCEPT ![t] = PlayBatch(b, score).en]
  BY DEF RunMatches
<1>4. count \in Nat
  <2>1. tr.matches_total \in Nat /\ tr.matches_completed \in Nat
    BY <1>1, Fields
  <2>2. count \in Int
    BY <2>1, AmountsAssumption DEF Lesser
  <2> QED
    BY <1>2, <2>2
<1> HIDE DEF count
<1>5. Batch(b)
  <2>1. Sound(Charged(tr)) /\ Charged(tr).state \in Live
    BY <1>1, <1>2, ChargedSound DEF Live
  <2> QED
    BY <1>1, <2>1 DEF Batch
<1> DEFINE new == PlayBatch(b, score)
<1>6. Batch(new) /\ BatchScored(new, b)
  BY <1>4, <1>5, PlayBatchKeeps, PlayBatchScored
<1>7. BatchScored(b, [tr |-> tr, en |-> entry[t]])
  <2>1. ScoredOnly(Charged(tr), tr)
    BY <1>1, ChargedFields DEF ScoredOnly, SameSlots
  <2> QED
    BY <2>1 DEF BatchScored, SameButScore
<1> HIDE DEF b
<1>8. BatchScored(new, [tr |-> tr, en |-> entry[t]])
  BY <1>6, <1>7, ScoredTransitive
<1>9. new.tr \in TournamentType /\ new.en \in [Players -> EntryType]
  BY <1>6 DEF Batch, Sound
<1> HIDE DEF new, tr
<1> QED
  BY <1>2, <1>3, <1>8, <1>9 DEF new, tr

LEMMA RunMatchesQuiet ==
    ASSUME IInv, NEW t \in TournamentIds, RunMatches(t)
    PROVE  Quiet /\ config' = config
<1>1. PICK new :
         /\ BatchScored(new, [tr |-> tournament[t], en |-> entry[t]])
         /\ tournament' = [tournament EXCEPT ![t] = new.tr]
         /\ config' = config
  BY RunMatchesUpdate
<1>2. SamePhase(new.tr, tournament[t]) /\ SameTerms(new.tr, tournament[t])
  BY <1>1 DEF BatchScored, ScoredOnly
<1> QED
  BY <1>1, <1>2, QuietUpdate

\* Lamports that arrive as fees change the fees only.
LEMMA CollectedFields ==
    ASSUME NEW c \in ConfigType, NEW amount
    PROVE  LET new == Collected(c, amount)
           IN  /\ new.initialized = c.initialized
               /\ new.current_tournament_id = c.current_tournament_id
               /\ new.house_fee_bps = c.house_fee_bps
               /\ new.min_participants = c.min_participants
               /\ new.accumulated_fees = c.accumulated_fees + amount
  BY DEF Collected, ConfigType

LEMMA CloseEntryQuiet ==
    ASSUME IInv, NEW t \in TournamentIds, NEW p \in Players, CloseEntry(t, p)
    PROVE  Quiet /\ SameConfig
<1> DEFINE tr == tournament[t]
           new == EntryClosed(tr, entry[t][p])
<1>0. tr \in TournamentType /\ config \in ConfigType
  BY DEF IInv, TournamentsSound
<1>1. tournament' = [tournament EXCEPT ![t] = new]
  BY DEF CloseEntry
<1>2. PICK toFees : config' = Collected(config, toFees)
  BY DEF CloseEntry
<1>3. SamePhase(new, tr) /\ SameTerms(new, tr)
  BY <1>0, EntryClosedFields
<1>4. Quiet
  BY <1>1, <1>3, QuietUpdate
<1>5. SameConfig
  BY <1>0, <1>2, CollectedFields DEF SameConfig
<1> QED
  BY <1>4, <1>5

LEMMA LifeInit == Init => LifeInv
<1> SUFFICES ASSUME Init PROVE LifeInv
  OBVIOUS
<1>1. /\ config.initialized = FALSE /\ config.current_tournament_id = 0
      /\ config.house_fee_bps = 0
  BY DEF Init, NoConfig
<1>2. ASSUME NEW t \in TournamentIds
      PROVE  tournament[t].state = "Absent" /\ tournament[t].house_fee_bps = 0
  BY DEF Init, NoTournament
<1>3. \A t \in TournamentIds : t \in Nat
  BY DEF TournamentIds
<1>4. OneLiveTournament
  BY <1>1, <1>2, <1>3 DEF OneLiveTournament
<1> QED
  BY <1>1, <1>2, <1>4 DEF LifeInv, Dormant, ConfigChecked

\* initialize_config opens tournament 0.
LEMMA InitializeConfigLife ==
    ASSUME IInv, LifeInv, NEW params \in InitParams, InitializeConfig(params)
    PROVE  LifeInv'
<1>1. /\ ~config.initialized
      /\ config'.initialized = TRUE /\ config'.current_tournament_id = 0
      /\ config'.house_fee_bps = 0 /\ config'.min_participants = params.min_participants
      /\ params.min_participants >= 2
  BY DEF InitializeConfig
<1>2. /\ tournament' = [tournament EXCEPT ![0] = NewTournament(config')]
      /\ tournament \in [TournamentIds -> TournamentType]
  BY DEF InitializeConfig, IInv, TournamentsSound
<1>3. /\ NewTournament(config').state = "Registration"
      /\ NewTournament(config').house_fee_bps = 0
  <2>1. config' \in ConfigType
    BY InitializeConfigIInv DEF IInv
  <2> QED
    BY <1>1, <2>1, NewFields
<1>4. 0 \in TournamentIds
  BY AmountsAssumption DEF TournamentIds
<1>5. \A t \in TournamentIds : t \in Nat
  BY DEF TournamentIds
<1>6. ASSUME NEW t \in TournamentIds
      PROVE  /\ tournament'[t].state = IF t = 0 THEN "Registration" ELSE "Absent"
             /\ tournament'[t].house_fee_bps <= 10000
  <2>1. tournament[t].state = "Absent" /\ tournament[t].house_fee_bps <= 10000
    BY <1>1 DEF LifeInv, Dormant, ConfigChecked
  <2>2. tournament'[t] = IF t = 0 THEN NewTournament(config') ELSE tournament[t]
    BY <1>2
  <2> QED
    BY <1>3, <2>1, <2>2
<1>7. OneLiveTournament'
  BY <1>1, <1>5, <1>6 DEF OneLiveTournament, Live
<1>8. Dormant' /\ ConfigChecked'
  BY <1>1, <1>6 DEF Dormant, ConfigChecked
<1> QED
  BY <1>7, <1>8 DEF LifeInv

LEMMA UpdateConfigFields ==
    ASSUME IInv, NEW params \in ConfigUpdates, UpdateConfig(params)
    PROVE  /\ config.initialized /\ tournament' = tournament
           /\ config'.initialized = config.initialized
           /\ config'.current_tournament_id = config.current_tournament_id
           /\ config'.house_fee_bps = Updated(params.house_fee_bps, config.house_fee_bps)
           /\ config'.min_participants = Updated(params.min_participants, config.min_participants)
<1> DEFINE min == Updated(params.min_participants, config.min_participants)
           bps == Updated(params.house_fee_bps, config.house_fee_bps)
           new == [config EXCEPT
              !.operator = Updated(params.operator, config.operator),
              !.house_fee_bps = bps,
              !.stake = Updated(params.stake, config.stake),
              !.min_participants = min,
              !.max_participants = Updated(params.max_participants, config.max_participants),
              !.registration_duration =
                  Updated(params.registration_duration, config.registration_duration),
              !.matches_per_player =
                  Updated(params.matches_per_player, config.matches_per_player),
              !.reveal_duration = Updated(params.reveal_duration, config.reveal_duration),
              !.operator_tx_fee = Updated(params.operator_tx_fee, config.operator_tx_fee)]
<1>0. config \in ConfigType
  BY DEF IInv
<1>a. config.initialized /\ tournament' = tournament /\ config' = new
  BY DEF UpdateConfig
<1>b. /\ new.initialized = config.initialized
      /\ new.current_tournament_id = config.current_tournament_id
      /\ new.house_fee_bps = bps /\ new.min_participants = min
  BY <1>0 DEF ConfigType
<1> HIDE DEF new
<1> QED
  BY <1>a, <1>b

\* update_config keeps the bounds it checks.
LEMMA UpdateConfigLife ==
    ASSUME IInv, LifeInv, NEW params \in ConfigUpdates, UpdateConfig(params)
    PROVE  LifeInv'
<1>1. /\ config.initialized /\ tournament' = tournament
      /\ config'.initialized = config.initialized
      /\ config'.current_tournament_id = config.current_tournament_id
      /\ config'.house_fee_bps = Updated(params.house_fee_bps, config.house_fee_bps)
      /\ config'.min_participants = Updated(params.min_participants, config.min_participants)
  BY UpdateConfigFields
<1>2. /\ \A fee \in params.house_fee_bps : fee <= 10000
      /\ \A m \in params.min_participants : m >= 2
  BY DEF UpdateConfig
<1>3. config'.house_fee_bps <= 10000
  BY <1>1, <1>2 DEF Updated, LifeInv, ConfigChecked
<1>4. config'.min_participants >= 2
  BY <1>1, <1>2 DEF Updated, LifeInv, ConfigChecked
<1>5. OneLiveTournament' /\ Dormant'
  BY <1>1 DEF LifeInv, OneLiveTournament, Dormant
<1>6. ConfigChecked'
  BY <1>1, <1>3, <1>4 DEF LifeInv, ConfigChecked
<1> QED
  BY <1>5, <1>6 DEF LifeInv

LEMMA WithdrawFeesLife == IInv /\ LifeInv /\ WithdrawFees => LifeInv'
<1> SUFFICES ASSUME IInv, LifeInv, WithdrawFees PROVE LifeInv'
  OBVIOUS
<1>1. SameConfig
  BY DEF WithdrawFees, IInv, ConfigType, SameConfig
<1>2. Quiet
  BY DEF WithdrawFees, Quiet, SamePhase, SameTerms
<1> QED
  BY <1>1, <1>2, QuietLife

\* A move from a phase before the payout to another one before it.
LEMMA MoveLife ==
    ASSUME IInv, LifeInv, NEW t \in TournamentIds, NEW new,
           tournament' = [tournament EXCEPT ![t] = new], config' = config,
           tournament[t].state \in Live, new.state \in Live,
           new.house_fee_bps = tournament[t].house_fee_bps
    PROVE  LifeInv'
<1>1. tournament \in [TournamentIds -> TournamentType]
  BY DEF IInv, TournamentsSound
<1>2. ASSUME NEW u \in TournamentIds
      PROVE  /\ u # t => tournament'[u] = tournament[u]
             /\ u = t => tournament'[u] = new
  BY <1>1
<1>3. t = config.current_tournament_id /\ config.initialized
  <2>1. tournament[t].state \notin {"Payout", "Absent"}
    BY DEF Live
  <2>2. config.current_tournament_id \in Nat /\ t \in Nat
    BY DEF IInv, ConfigType, TournamentIds
  <2>3. ~(t < config.current_tournament_id) /\ ~(t > config.current_tournament_id)
    BY <2>1 DEF LifeInv, OneLiveTournament
  <2>4. config.initialized
    BY <2>1 DEF LifeInv, Dormant
  <2> QED
    BY <2>2, <2>3, <2>4
<1>4. config.current_tournament_id \in Nat /\ \A u \in TournamentIds : u \in Nat
  BY DEF IInv, ConfigType, TournamentIds
<1>5. OneLiveTournament'
  BY <1>2, <1>3, <1>4 DEF LifeInv, OneLiveTournament
<1>6. Dormant'
  BY <1>3 DEF Dormant
<1>7. ConfigChecked'
  BY <1>2 DEF LifeInv, ConfigChecked
<1> QED
  BY <1>5, <1>6, <1>7 DEF LifeInv

LEMMA CloseRegistrationLife ==
    ASSUME IInv, LifeInv, NEW t \in TournamentIds, CloseRegistration(t)
    PROVE  LifeInv'
<1> DEFINE tr == tournament[t]
           mid == Charged(tr)
           new == Locked(mid, now + tr.reveal_duration)
<1>1. /\ tournament' = [tournament EXCEPT ![t] = new] /\ config' = config
      /\ tr.state = "Registration"
  BY DEF CloseRegistration, Locked
<1>2. mid \in TournamentType /\ mid.house_fee_bps = tr.house_fee_bps
  <2>1. Sound(tr) /\ tr.state \in Live /\ config \in ConfigType /\ tr \in TournamentType
    BY <1>1 DEF Live, IInv, TournamentsSound
  <2> QED
    BY <2>1, ChargedSound, ChargedFields DEF Sound, SameTerms
<1> HIDE DEF mid
<1>3. new.state = "Reveal" /\ new.house_fee_bps = tr.house_fee_bps
  BY <1>2, LockedFields DEF SameTerms
<1> QED
  BY <1>1, <1>3, MoveLife DEF Live

\* close_reveal with an even number of participants.
LEMMA CloseRevealEvenUpdate ==
    ASSUME IInv, NEW t \in TournamentIds, NEW seed \in Seeds, CloseRevealEven(t, seed)
    PROVE  LET tr  == tournament[t]
               mid == Charged(tr)
               new == Started(mid, seed)
           IN  /\ tournament' = [tournament EXCEPT ![t] = new]
               /\ UNCHANGED <<now, config, entry, wallet>>
               /\ tr \in TournamentType /\ mid \in TournamentType /\ new \in TournamentType
               /\ tr.state = "Reveal" /\ tr.reveals_completed = tr.participant_count
               /\ tr.participant_count % 2 = 0
<1> DEFINE tr == tournament[t]
           mid == Charged(tr)
           new == Started(mid, seed)
<1>1. /\ tournament' = [tournament EXCEPT ![t] = new]
      /\ UNCHANGED <<now, config, entry, wallet>>
      /\ tr.state = "Reveal" /\ tr.reveals_completed = tr.participant_count
      /\ tr.participant_count % 2 = 0
  BY DEF CloseRevealEven, RevealClosable
<1>2. Sound(tr) /\ tr.state \in Live /\ config \in ConfigType /\ tr \in TournamentType
  BY <1>1 DEF Live, IInv, TournamentsSound
<1>3. Sound(mid) /\ mid.state \in Live
  BY <1>2, ChargedSound
<1> HIDE DEF mid
<1>4. Sound(new)
  BY <1>3, StartedSound
<1>5. mid \in TournamentType /\ new \in TournamentType
  BY <1>3, <1>4, SMTT(40) DEF Sound
<1> HIDE DEF new, tr
<1> QED
  BY <1>1, <1>2, <1>5 DEF mid, new, tr

\* close_reveal with an odd number: the last player's slot becomes a hole.
LEMMA CloseRevealOddUpdate ==
    ASSUME IInv, NEW t \in TournamentIds, NEW seed \in Seeds, NEW r \in TournamentIds,
           CloseRevealOdd(t, seed, r)
    PROVE  LET tr  == tournament[t]
               mid == Charged(tr)
           IN  \E last \in LastActive(tr) :
                 LET less == LastRefunded(mid, last)
                     new  == Started(less, seed)
                     p    == tr.players[last + 1]
                 IN  /\ tournament' = [tournament EXCEPT ![t] = new]
                     /\ UNCHANGED <<now, config>>
                     /\ p \in Players /\ last \in Nat
                     /\ entry[r][p].open /\ entry[r][p].index = last
                     /\ entry' = [entry EXCEPT ![r][p] = NoEntry]
                     /\ wallet' = [wallet EXCEPT ![p] = @ + tr.stake + EntryRent]
                     /\ tr \in TournamentType /\ mid \in TournamentType
                     /\ Refunded(mid, last) \in TournamentType
                     /\ less \in TournamentType /\ new \in TournamentType
                     /\ tr.state = "Reveal" /\ tr.reveals_completed = tr.participant_count
                     /\ tr.participant_count % 2 = 1 /\ tr.participant_count >= 1
<1> DEFINE tr == tournament[t]
           mid == Charged(tr)
<1>1. /\ tr.state = "Reveal" /\ tr.reveals_completed = tr.participant_count
      /\ tr.participant_count % 2 = 1
      /\ UNCHANGED <<now, config>>
  BY DEF CloseRevealOdd, RevealClosable
<1>2. PICK last \in LastActive(tr) :
          LET p == tr.players[last + 1]
          IN  /\ entry[r][p].open /\ entry[r][p].index = last
              /\ RentExempt(tr, tr.lamports - tr.stake)
              /\ tournament' = [tournament EXCEPT ![t] =
                    Started(LastRefunded(mid, last), seed)]
              /\ entry' = [entry EXCEPT ![r][p] = NoEntry]
              /\ wallet' = [wallet EXCEPT ![p] = @ + tr.stake + EntryRent]
  BY DEF CloseRevealOdd
<1> DEFINE p == tr.players[last + 1]
           less == LastRefunded(mid, last)
           new  == Started(less, seed)
<1>3. Sound(tr) /\ tr.state \in Live /\ config \in ConfigType /\ tr \in TournamentType
  BY <1>1 DEF Live, IInv, TournamentsSound
<1> HIDE DEF tr
<1>4. last \in Nat /\ p \in Players
  <2>1. last \in Slots(tr) /\ p # NoPlayer
    BY DEF LastActive, ActiveSlots
  <2>2. tr.players \in Seq(Players \cup {NoPlayer}) /\ Len(tr.players) \in Nat
    BY <1>3, Fields
  <2>3. last \in Nat /\ last + 1 \in 1..Len(tr.players)
    BY <2>1, <2>2 DEF Slots
  <2>4. p \in Players \cup {NoPlayer}
    BY <2>2, <2>3
  <2> QED
    BY <2>1, <2>3, <2>4
<1>5. tr.participant_count \in Nat /\ tr.participant_count >= 1
  <2>1. tr.participant_count \in Nat
    BY <1>3, Fields
  <2> QED
    BY <1>1, <2>1
<1>6. /\ Sound(mid) /\ mid.state \in Live /\ mid.participant_count >= 1
      /\ mid.reveals_completed >= 1 /\ RentExempt(mid, mid.lamports - mid.stake)
  <2>1. /\ Sound(mid) /\ mid.state = tr.state /\ mid.stake = tr.stake
        /\ mid.participant_count = tr.participant_count
        /\ mid.reveals_completed = tr.reveals_completed
        /\ mid.lamports = tr.lamports /\ mid.players = tr.players
    BY <1>3, ChargedSound
  <2>2. RentExempt(mid, mid.lamports - mid.stake)
    BY <1>2, <2>1 DEF RentExempt
  <2> QED
    BY <1>1, <1>3, <1>5, <2>1, <2>2
<1> HIDE DEF mid
<1>7. Sound(Refunded(mid, last)) /\ Sound(less) /\ less.state \in Live
  BY <1>4, <1>6, RefundedSound, LastRefundedSound
<1> HIDE DEF less
<1>8. Sound(new)
  BY <1>7, StartedSound
<1>9. /\ mid \in TournamentType /\ Refunded(mid, last) \in TournamentType
      /\ less \in TournamentType /\ new \in TournamentType
  BY <1>6, <1>7, <1>8 DEF Sound
<1>10. tournament' = [tournament EXCEPT ![t] = new]
  BY <1>2 DEF new, less
<1>11. /\ entry[r][p].open /\ entry[r][p].index = last
       /\ entry' = [entry EXCEPT ![r][p] = NoEntry]
       /\ wallet' = [wallet EXCEPT ![p] = @ + tr.stake + EntryRent]
  BY <1>2 DEF p
<1> HIDE DEF new, p
<1> QED
  BY <1>1, <1>3, <1>4, <1>5, <1>9, <1>10, <1>11 DEF mid, less, new, p, tr

\* In either case: the tournament runs on its old terms.
LEMMA CloseRevealMoves ==
    ASSUME IInv, NEW t \in TournamentIds, CloseReveal(t)
    PROVE  \E new \in TournamentType :
             /\ tournament' = [tournament EXCEPT ![t] = new]
             /\ UNCHANGED <<now, config>>
             /\ tournament[t].state = "Reveal"
             /\ new.state = "Running" /\ SameTerms(new, tournament[t])
<1> DEFINE tr == tournament[t]
           mid == Charged(tr)
<1>1. PICK seed \in Seeds :
          \/ CloseRevealEven(t, seed)
          \/ \E r \in (IF ForeignRefund THEN TournamentIds ELSE {t}) :
                 CloseRevealOdd(t, seed, r)
  BY DEF CloseReveal
<1>2. CASE CloseRevealEven(t, seed)
  <2> DEFINE new == Started(mid, seed)
  <2>1. /\ tournament' = [tournament EXCEPT ![t] = new]
        /\ UNCHANGED <<now, config>> /\ tr.state = "Reveal"
        /\ tr \in TournamentType /\ mid \in TournamentType /\ new \in TournamentType
    BY <1>2, CloseRevealEvenUpdate
  <2>2. SameTerms(mid, tr) /\ SameTerms(new, mid) /\ new.state = "Running"
    BY <2>1, ChargedFields, StartedFields
  <2> HIDE DEF mid, new
  <2> QED
    BY <2>1, <2>2 DEF SameTerms
<1>3. CASE \E r \in (IF ForeignRefund THEN TournamentIds ELSE {t}) :
               CloseRevealOdd(t, seed, r)
  <2>1. PICK r \in TournamentIds : CloseRevealOdd(t, seed, r)
    BY <1>3
  <2>2. PICK last \in LastActive(tr) :
           LET less == LastRefunded(mid, last)
               new  == Started(less, seed)
           IN  /\ tournament' = [tournament EXCEPT ![t] = new]
               /\ UNCHANGED <<now, config>> /\ tr.state = "Reveal"
               /\ tr \in TournamentType /\ mid \in TournamentType
               /\ Refunded(mid, last) \in TournamentType
               /\ less \in TournamentType /\ new \in TournamentType
    BY <2>1, CloseRevealOddUpdate
  <2> DEFINE less == LastRefunded(mid, last)
             new  == Started(less, seed)
  <2>3. SameTerms(mid, tr)
    BY <2>2, ChargedFields
  <2>4. SameTerms(less, mid)
    BY <2>2, LastRefundedFields
  <2>5. SameTerms(new, less) /\ new.state = "Running"
    BY <2>2, StartedFields
  <2> HIDE DEF mid, less, new
  <2> QED
    BY <2>2, <2>3, <2>4, <2>5 DEF SameTerms, less, new
<1> QED
  BY <1>1, <1>2, <1>3

LEMMA CloseRevealLife ==
    ASSUME IInv, LifeInv, NEW t \in TournamentIds, CloseReveal(t)
    PROVE  LifeInv'
<1>1. PICK new \in TournamentType :
         /\ tournament' = [tournament EXCEPT ![t] = new]
         /\ config' = config
         /\ tournament[t].state = "Reveal"
         /\ new.state = "Running" /\ SameTerms(new, tournament[t])
  BY CloseRevealMoves
<1> QED
  BY <1>1, MoveLife DEF Live, SameTerms

\* A tournament before its payout is the current one.
LEMMA LiveIsCurrent ==
    ASSUME IInv, LifeInv, NEW t \in TournamentIds, tournament[t].state \in Live
    PROVE  t = config.current_tournament_id /\ config.initialized
<1>1. tournament[t].state \notin {"Payout", "Absent"}
  BY DEF Live
<1>2. config.current_tournament_id \in Nat /\ t \in Nat
  BY DEF IInv, ConfigType, TournamentIds
<1>3. ~(t < config.current_tournament_id) /\ ~(t > config.current_tournament_id)
  BY <1>1 DEF LifeInv, OneLiveTournament
<1>4. config.initialized
  BY <1>1, SMTT(40) DEF LifeInv, Dormant
<1> QED
  BY <1>2, <1>3, <1>4

\* finalize_tournament: the current tournament goes to payout, and its successor,
\* which did not exist, is opened.
LEMMA FinalizeUpdate ==
    ASSUME IInv, LifeInv, NEW t \in TournamentIds, FinalizeTournament(t)
    PROVE  LET tr   == tournament[t]
               next == config.current_tournament_id + 1
           IN  /\ tr \in TournamentType /\ tr.state = "Running"
               /\ tr.matches_completed >= tr.matches_total
               /\ t = config.current_tournament_id /\ config.initialized
               /\ next \in TournamentIds /\ next # t /\ tournament[next].state = "Absent"
               /\ \E threshold \in WinningThreshold(tr) :
                    LET s == Settlement(tr, threshold)
                    IN  /\ RentExempt(tr, tr.lamports - s.fees - s.reimbursed)
                        /\ tournament' = [tournament EXCEPT
                              ![t] = Finalized(tr, threshold),
                              ![next] = NewTournament(config)]
                        /\ config' = [Collected(config, s.fees) EXCEPT
                                          !.current_tournament_id = next]
                        /\ wallet' = [wallet EXCEPT ![config.operator] =
                                          @ - BaseRent + s.reimbursed]
               /\ UNCHANGED <<now, entry>>
<1> DEFINE tr == tournament[t]
           next == config.current_tournament_id + 1
<1>1. tr \in TournamentType /\ tr.state = "Running" /\ next <= MaxTournamentId
  BY DEF IInv, TournamentsSound, FinalizeTournament
<1>2. t = config.current_tournament_id /\ config.initialized
  BY <1>1, LiveIsCurrent DEF Live
<1>3. next \in TournamentIds /\ next # t /\ next > config.current_tournament_id
  <2>1. config.current_tournament_id \in 0..MaxTournamentId
    BY DEF IInv, ConfigType, TournamentIds
  <2> QED
    BY <1>1, <1>2, <2>1, AmountsAssumption DEF TournamentIds
<1>4. tournament[next].state = "Absent"
  BY <1>3 DEF LifeInv, OneLiveTournament
<1> QED
  BY <1>1, <1>2, <1>3, <1>4 DEF FinalizeTournament

LEMMA FinalizeLife ==
    ASSUME IInv, LifeInv, NEW t \in TournamentIds, FinalizeTournament(t)
    PROVE  LifeInv'
<1> DEFINE tr   == tournament[t]
           next == config.current_tournament_id + 1
<1>1. /\ tr \in TournamentType /\ t = config.current_tournament_id /\ config.initialized
      /\ next \in TournamentIds /\ next # t
  BY FinalizeUpdate
<1>2. PICK threshold \in WinningThreshold(tr) :
         /\ tournament' = [tournament EXCEPT ![t] = Finalized(tr, threshold),
                                             ![next] = NewTournament(config)]
         /\ config' = [Collected(config, Settlement(tr, threshold).fees) EXCEPT
                           !.current_tournament_id = next]
  BY FinalizeUpdate
<1> DEFINE done == Finalized(tr, threshold)
           fresh == NewTournament(config)
           paid == Collected(config, Settlement(tr, threshold).fees)
<1>3. config \in ConfigType /\ tournament \in [TournamentIds -> TournamentType]
  BY DEF IInv, TournamentsSound
<1>4. done.state = "Payout" /\ done.house_fee_bps = tr.house_fee_bps
  BY <1>1, FinalizedFields DEF SameTerms
<1>5. fresh.state = "Registration" /\ fresh.house_fee_bps = config.house_fee_bps
  BY <1>3, NewFields
<1>6. /\ config'.initialized = config.initialized
      /\ config'.current_tournament_id = next
      /\ config'.house_fee_bps = config.house_fee_bps
      /\ config'.min_participants = config.min_participants
  <2>1. /\ paid.initialized = config.initialized
        /\ paid.house_fee_bps = config.house_fee_bps
        /\ paid.min_participants = config.min_participants
    BY <1>3, CollectedFields
  <2>2. paid \in ConfigType
    <3>1. Settlement(tr, threshold).fees \in Nat
      BY <1>2, SettlementType DEF IInv, TournamentsSound
    <3> QED
      BY <1>3, <3>1, CollectedKeeps DEF IInv, FeesBacked
  <2> HIDE DEF paid
  <2>3. config' = [paid EXCEPT !.current_tournament_id = next]
    BY <1>2 DEF paid
  <2> QED
    BY <2>1, <2>2, <2>3 DEF ConfigType
<1> HIDE DEF done, fresh, paid, tr
<1>7. ASSUME NEW u \in TournamentIds
      PROVE  tournament'[u] = IF u = next THEN fresh ELSE IF u = t THEN done
                              ELSE tournament[u]
  BY <1>1, <1>2, <1>3 DEF done, fresh
<1>8. config.current_tournament_id \in Nat /\ \A u \in TournamentIds : u \in Nat
  BY <1>3 DEF ConfigType, TournamentIds
<1>9. OneLiveTournament'
  <2> SUFFICES ASSUME NEW u \in TournamentIds
               PROVE  /\ u < next => tournament'[u].state \in {"Payout", "Absent"}
                      /\ u > next => tournament'[u].state = "Absent"
                      /\ u = next => tournament'[u].state \in Live
    BY <1>6 DEF OneLiveTournament
  <2>1. CASE u = next
    BY <1>5, <1>7, <1>8, <2>1 DEF Live
  <2>2. CASE u = t
    BY <1>1, <1>4, <1>7, <1>8, <2>2
  <2>3. CASE u # next /\ u # t
    <3>1. tournament'[u] = tournament[u]
      BY <1>7, <2>3
    <3>2. u < next => u < config.current_tournament_id
      BY <1>1, <1>8, <2>3
    <3>3. u > next => u > config.current_tournament_id
      BY <1>8
    <3> QED
      BY <2>3, <3>1, <3>2, <3>3 DEF LifeInv, OneLiveTournament
  <2> QED
    BY <2>1, <2>2, <2>3
<1>10. Dormant'
  BY <1>1, <1>6 DEF Dormant
<1>11. ConfigChecked'
  BY <1>4, <1>5, <1>6, <1>7 DEF LifeInv, ConfigChecked, tr
<1> QED
  BY <1>9, <1>10, <1>11 DEF LifeInv

LEMMA CloseTournamentLife ==
    ASSUME IInv, LifeInv, NEW t \in TournamentIds, CloseTournament(t)
    PROVE  LifeInv'
<1>1. /\ tournament[t].state = "Payout"
      /\ tournament' = [tournament EXCEPT ![t] = NoTournament]
      /\ config' = Collected(config, tournament[t].lamports)
  BY DEF CloseTournament, Closable
<1>2. config \in ConfigType /\ tournament \in [TournamentIds -> TournamentType]
  BY DEF IInv, TournamentsSound
<1>3. SameConfig
  BY <1>1, <1>2, CollectedFields DEF SameConfig
<1>4. ASSUME NEW u \in TournamentIds
      PROVE  tournament'[u] = IF u = t THEN NoTournament ELSE tournament[u]
  BY <1>1, <1>2
<1>5. NoTournament.state = "Absent" /\ NoTournament.house_fee_bps = 0
  BY DEF NoTournament
<1>6. config.initialized /\ t # config.current_tournament_id
  BY <1>1 DEF LifeInv, Dormant, OneLiveTournament, Live
<1>7. OneLiveTournament'
  BY <1>3, <1>4, <1>5, <1>6 DEF LifeInv, OneLiveTournament, SameConfig
<1>8. Dormant'
  BY <1>3, <1>6 DEF Dormant, SameConfig
<1>9. ConfigChecked'
  BY <1>3, <1>4, <1>5 DEF LifeInv, ConfigChecked, SameConfig
<1> QED
  BY <1>7, <1>8, <1>9 DEF LifeInv

\* Every step keeps it.
LEMMA NextLife == IInv /\ LifeInv /\ [Next]_vars => LifeInv'
<1> SUFFICES ASSUME IInv, LifeInv, [Next]_vars PROVE LifeInv'
  OBVIOUS
<1>0. ASSUME Quiet, config' = config PROVE LifeInv'
  BY <1>0, QuietLife DEF SameConfig
<1>1. CASE Tick
  BY <1>0, <1>1 DEF Tick, Quiet, SamePhase, SameTerms
<1>2. CASE \E params \in InitParams : InitializeConfig(params)
  BY <1>2, InitializeConfigLife
<1>3. CASE \E params \in ConfigUpdates : UpdateConfig(params)
  BY <1>3, UpdateConfigLife
<1>4. CASE WithdrawFees
  BY <1>4, WithdrawFeesLife
<1>5. ASSUME NEW t \in TournamentIds, NEW p \in Players, PlayerStep(t, p)
      PROVE  LifeInv'
  BY <1>0, <1>5, PlayerStepQuiet
<1>6. ASSUME NEW t \in TournamentIds, NEW p \in Players, CloseEntry(t, p)
      PROVE  LifeInv'
  BY <1>6, CloseEntryQuiet, QuietLife
<1>7. ASSUME NEW t \in TournamentIds, CloseRegistration(t) PROVE LifeInv'
  BY <1>7, CloseRegistrationLife
<1>8. ASSUME NEW t \in TournamentIds, CloseReveal(t) PROVE LifeInv'
  BY <1>8, CloseRevealLife
<1>9. ASSUME NEW t \in TournamentIds, RunMatches(t) PROVE LifeInv'
  BY <1>0, <1>9, RunMatchesQuiet
<1>10. ASSUME NEW t \in TournamentIds, FinalizeTournament(t) PROVE LifeInv'
  BY <1>10, FinalizeLife
<1>11. ASSUME NEW t \in TournamentIds, CloseTournament(t) PROVE LifeInv'
  BY <1>11, CloseTournamentLife
<1>12. CASE UNCHANGED vars
  BY <1>0, <1>12 DEF vars, Quiet, SamePhase, SameTerms
<1> QED
  BY <1>1, <1>2, <1>3, <1>4, <1>5, <1>6, <1>7, <1>8, <1>9, <1>10, <1>11, <1>12
  DEF Next, PlayerStep

LEMMA SpecLife == Spec => [](IInv /\ LifeInv)
<1>1. IInv /\ LifeInv /\ [Next]_vars => IInv' /\ LifeInv'
  BY NextIInv, NextLife
<1>2. Init => IInv /\ LifeInv
  BY InitIInv, LifeInit
<1> QED
  BY <1>1, <1>2, PTL DEF Spec

\* At any time exactly one tournament, config.current_tournament_id, is before
\* its payout; earlier ones are paid out or closed and later ones do not exist.
\* No order of finalize_tournament, close_tournament and the players'
\* instructions opens a second one or brings a closed one back.
THEOREM OneTournamentLives == Spec => []OneLiveTournament
<1>1. IInv /\ LifeInv => OneLiveTournament
  BY DEF LifeInv
<1> QED
  BY <1>1, SpecLife, PTL

-----------------------------------------------------------------------------
(***************************************************************************)
(* The result                                                              *)
(***************************************************************************)
\* What a step does to the result of a tournament in payout.
Fixed(new, tr) ==
    /\ new.state = "Payout"
    /\ new.scores = tr.scores
    /\ new.min_winning_score = tr.min_winning_score
    /\ Share(new) = Share(tr)

\* An update of another tournament, or one that leaves the result alone.
LEMMA FixedUpdate ==
    ASSUME IInv, NEW t \in TournamentIds, NEW new,
           tournament' = [tournament EXCEPT ![t] = new],
           tournament[t].state = "Payout" => Fixed(new, tournament[t]) \/ new.state = "Absent"
    PROVE  \A u \in TournamentIds :
             tournament[u].state = "Payout" /\ tournament'[u].state # "Absent" =>
                 Fixed(tournament'[u], tournament[u])
<1>1. tournament \in [TournamentIds -> TournamentType]
  BY DEF IInv, TournamentsSound
<1> SUFFICES ASSUME NEW u \in TournamentIds, tournament[u].state = "Payout",
                    tournament'[u].state # "Absent"
             PROVE  Fixed(tournament'[u], tournament[u])
  OBVIOUS
<1>2. CASE u = t
  BY <1>1, <1>2
<1>3. CASE u # t
  <2>1. tournament'[u] = tournament[u]
    BY <1>1, <1>3
  <2> QED
    BY <2>1 DEF Fixed
<1> QED
  BY <1>2, <1>3

\* A claim or the closing of an entry takes nothing from the result.
LEMMA PaidFixed ==
    ASSUME NEW new, NEW tr, tr.state = "Payout",
           SamePhase(new, tr), SameResult(new, tr), SameSlots(new, tr)
    PROVE  Fixed(new, tr)
  BY DEF Fixed, SamePhase, SameResult, SameSlots, Share

LEMMA PlayerStepFixed ==
    ASSUME IInv, NEW t \in TournamentIds, NEW p \in Players, PlayerStep(t, p)
    PROVE  \A u \in TournamentIds :
             tournament[u].state = "Payout" /\ tournament'[u].state # "Absent" =>
                 Fixed(tournament'[u], tournament[u])
<1> DEFINE tr == tournament[t]
<1>0. tr \in TournamentType
  BY DEF IInv, TournamentsSound
<1>1. CASE ClaimPayout(p, t)
  <2>1. tournament' = [tournament EXCEPT ![t] = Claimed(tr)] /\ tr.state = "Payout"
    BY <1>1 DEF ClaimPayout
  <2>2. Fixed(Claimed(tr), tr)
    BY <1>0, <2>1, ClaimedFields, PaidFixed
  <2> QED
    BY <2>1, <2>2, FixedUpdate
<1>2. CASE ~ClaimPayout(p, t)
  <2>1. tr.state # "Payout"
    BY <1>2, ZenonT(60) DEF PlayerStep, EnterTournament, RevealStrategy, ClaimRefund, ForfeitUnrevealed
  <2>2. \E new : tournament' = [tournament EXCEPT ![t] = new]
    BY <1>2, ZenonT(60) DEF PlayerStep, EnterTournament, RevealStrategy, ClaimRefund, ForfeitUnrevealed
  <2> QED
    BY <2>1, <2>2, FixedUpdate
<1> QED
  BY <1>1, <1>2

LEMMA NextFixed ==
    ASSUME IInv, LifeInv, [Next]_vars
    PROVE  \A u \in TournamentIds :
             tournament[u].state = "Payout" /\ tournament'[u].state # "Absent" =>
                 Fixed(tournament'[u], tournament[u])
<1> DEFINE Goal == \A u \in TournamentIds :
             tournament[u].state = "Payout" /\ tournament'[u].state # "Absent" =>
                 Fixed(tournament'[u], tournament[u])
<1>0. ASSUME tournament' = tournament PROVE Goal
  BY <1>0 DEF Fixed
<1>1. CASE Tick \/ (\E params \in ConfigUpdates : UpdateConfig(params)) \/ WithdrawFees
           \/ UNCHANGED vars
  <2>1. Tick => tournament' = tournament
    BY DEF Tick
  <2>2. ASSUME NEW params \in ConfigUpdates, UpdateConfig(params)
        PROVE  tournament' = tournament
    BY <2>2 DEF UpdateConfig
  <2>3. WithdrawFees => tournament' = tournament
    BY DEF WithdrawFees
  <2>4. UNCHANGED vars => tournament' = tournament
    BY DEF vars
  <2> QED
    BY <1>0, <1>1, <2>1, <2>2, <2>3, <2>4
<1>2. CASE \E params \in InitParams : InitializeConfig(params)
  <2>1. \A u \in TournamentIds : tournament[u].state = "Absent"
    BY <1>2 DEF InitializeConfig, LifeInv, Dormant
  <2> QED
    BY <2>1
<1>3. ASSUME NEW t \in TournamentIds, NEW p \in Players, PlayerStep(t, p) PROVE Goal
  BY <1>3, PlayerStepFixed
<1>4. ASSUME NEW t \in TournamentIds, NEW p \in Players, CloseEntry(t, p) PROVE Goal
  <2> DEFINE tr == tournament[t]
             new == EntryClosed(tr, entry[t][p])
  <2>0. tr \in TournamentType
    BY DEF IInv, TournamentsSound
  <2>1. tournament' = [tournament EXCEPT ![t] = new] /\ tr.state = "Payout"
    BY <1>4 DEF CloseEntry
  <2>2. Fixed(new, tr)
    BY <2>0, <2>1, EntryClosedFields, PaidFixed
  <2> QED
    BY <2>1, <2>2, FixedUpdate
<1>5. ASSUME NEW t \in TournamentIds,
             CloseRegistration(t) \/ CloseReveal(t) \/ RunMatches(t)
      PROVE  Goal
  <2>1. tournament[t].state # "Payout"
    BY <1>5, ZenonT(60) DEF CloseRegistration, CloseReveal, CloseRevealEven, CloseRevealOdd,
                RevealClosable, RunMatches
  <2>2. \E new : tournament' = [tournament EXCEPT ![t] = new]
    <3>1. CASE CloseRegistration(t)
      BY <3>1 DEF CloseRegistration
    <3>2. CASE CloseReveal(t)
      BY <3>2, CloseRevealMoves
    <3>3. CASE RunMatches(t)
      BY <3>3, RunMatchesUpdate
    <3> QED
      BY <1>5, <3>1, <3>2, <3>3
  <2> QED
    BY <2>1, <2>2, FixedUpdate, ZenonT(60)
<1>6. ASSUME NEW t \in TournamentIds, FinalizeTournament(t) PROVE Goal
  <2> DEFINE next == config.current_tournament_id + 1
  <2>1. /\ tournament[t].state = "Running" /\ next \in TournamentIds
        /\ tournament[next].state = "Absent"
        /\ tournament \in [TournamentIds -> TournamentType]
    BY <1>6, FinalizeUpdate DEF IInv, TournamentsSound
  <2>2. PICK done, fresh : tournament' = [tournament EXCEPT ![t] = done, ![next] = fresh]
    BY <1>6, FinalizeUpdate
  <2>3. ASSUME NEW u \in TournamentIds, tournament[u].state = "Payout"
        PROVE  tournament'[u] = tournament[u]
    BY <2>1, <2>2, <2>3
  <2> QED
    BY <2>3 DEF Fixed
<1>7. ASSUME NEW t \in TournamentIds, CloseTournament(t) PROVE Goal
  <2>1. tournament' = [tournament EXCEPT ![t] = NoTournament]
    BY <1>7 DEF CloseTournament
  <2>2. NoTournament.state = "Absent"
    BY DEF NoTournament
  <2> QED
    BY <2>1, <2>2, FixedUpdate
<1> QED
  BY <1>1, <1>2, <1>3, <1>4, <1>5, <1>6, <1>7 DEF Next, PlayerStep

\* The scores, the threshold and the share of a settled tournament never change
\* until close_tournament removes the account: the order in which winners are
\* paid, and what the admin configures meanwhile, make no difference.
THEOREM ResultIsFinal == Spec => ResultFinal
<1>1. IInv /\ LifeInv /\ [Next]_vars =>
          [\A t \in TournamentIds :
              tournament[t].state = "Payout" /\ tournament'[t].state # "Absent" =>
                  /\ tournament'[t].state = "Payout"
                  /\ tournament'[t].scores = tournament[t].scores
                  /\ tournament'[t].min_winning_score = tournament[t].min_winning_score
                  /\ Share(tournament'[t]) = Share(tournament[t])]_vars
  BY NextFixed DEF Fixed
<1> QED
  BY <1>1, SpecLife, PTL DEF Spec, ResultFinal

-----------------------------------------------------------------------------
(***************************************************************************)
(* The settlement                                                          *)
(***************************************************************************)
\* The house fee, a number of basis points up to 10000, is a part of the pool.
LEMMA HouseFeeBound ==
    ASSUME NEW pool \in Nat, NEW bps \in Nat, bps <= 10000
    PROVE  /\ (pool * bps) \div 10000 \in Nat
           /\ (pool * bps) \div 10000 <= pool
<1>1. pool * bps \in Nat /\ pool * bps <= pool * 10000
  OBVIOUS
<1> DEFINE fee == pool * bps
<1>2. fee \in Nat /\ fee <= pool * 10000
  BY <1>1
<1> HIDE DEF fee
<1>3. fee \div 10000 \in Nat /\ fee \div 10000 <= pool
  BY <1>2
<1> QED
  BY <1>3 DEF fee

\* Fees, reimbursement and winners' shares together are at most the pool.  In
\* the first case of the proof the pool covers fee and costs and the winners get
\* the rest; in the second nothing is left for them, and the operator's
\* reimbursement is cut to what the account can spend after the fee.
LEMMA SettlementSum ==
    ASSUME NEW tr, Sound(tr), tr.state \in Live, tr.house_fee_bps <= 10000,
           config \in ConfigType, NEW threshold \in WinningThreshold(tr)
    PROVE  LET s == Settlement(tr, threshold)
           IN  s.fees + s.reimbursed + s.winner_pool <= tr.pool
<1> DEFINE costs == FinalCosts(tr)
           min == MinBalance(Len(tr.players))
<1>1. tr \in TournamentType /\ Custody(tr)
  BY DEF Sound
<1>2. /\ tr.pool \in Nat /\ tr.house_fee_bps \in Nat /\ tr.lamports \in Nat
      /\ Len(tr.players) \in Nat
  BY <1>1, Fields
<1>3. costs \in Nat
  BY <1>1, FinalCostsNat
<1>4. min \in Nat
  BY ONLY <1>2, RentNat
<1>5. tr.lamports <= min + tr.pool
  BY <1>1 DEF Custody
<1>6. Spendable(tr) \in Nat /\ Spendable(tr) <= tr.pool
  BY <1>2, <1>4, <1>5 DEF Spendable, Greater
<1> HIDE DEF costs
<1>7. CASE tr.participant_count = 0
  <2> DEFINE paid == Lesser(costs, Spendable(tr))
  <2>1. paid \in Nat
    BY ONLY <1>3, <1>6 DEF Lesser
  <2>2. Settlement(tr, threshold) =
            [winners |-> 0, winner_pool |-> 0,
             fees |-> Spendable(tr) - paid, reimbursed |-> paid]
    BY <1>7 DEF Settlement, costs
  <2> HIDE DEF paid
  <2>3. (Spendable(tr) - paid) + paid + 0 <= tr.pool
    BY <1>2, <1>6, <2>1
  <2> QED
    BY <2>2, <2>3
<1>8. CASE tr.participant_count # 0
  <2> DEFINE winners    == Cardinality(Reaching(tr, threshold))
             house_fee  == (tr.pool * tr.house_fee_bps) \div 10000
             raw        == Lesser(Monus(Monus(tr.pool, house_fee), costs), Spendable(tr))
             per_winner == raw \div winners
             fee_total  == house_fee + (raw - per_winner * winners)
             left       == [tr EXCEPT !.lamports = @ - fee_total]
             paid       == Lesser(costs, Spendable(left))
  <2>1. winners \in Nat /\ winners > 0
    BY <1>8, ThresholdReached DEF Sound
  <2>2. house_fee \in Nat /\ house_fee <= tr.pool
    <3>1. tr.pool \in Nat /\ tr.house_fee_bps \in Nat /\ tr.house_fee_bps <= 10000
      BY <1>2
    <3> QED
      BY ONLY <3>1, HouseFeeBound
  <2>9. Settlement(tr, threshold) =
            [winners |-> winners, winner_pool |-> per_winner * winners,
             fees |-> fee_total, reimbursed |-> paid]
    BY <1>8 DEF Settlement, costs, winners, house_fee, raw, per_winner, fee_total, left
  <2> HIDE DEF winners, house_fee
  <2>3. raw \in Nat /\ (raw = 0 \/ raw + house_fee + costs <= tr.pool)
    BY <1>2, <1>3, <1>6, <2>2, SMTT(40) DEF Lesser, Monus, Greater
  <2> HIDE DEF raw
  <2>4. per_winner \in Nat /\ per_winner * winners <= raw /\ per_winner * winners \in Nat
    BY <2>1, <2>3, DivMulLe, MulStep
  <2> HIDE DEF per_winner
  <2>5. fee_total \in Nat /\ fee_total + per_winner * winners = house_fee + raw
    BY <2>2, <2>3, <2>4
  <2> HIDE DEF fee_total
  <2>6. left.lamports = tr.lamports - fee_total /\ left.players = tr.players
    BY <1>1 DEF TournamentType
  <2> HIDE DEF left
  <2>7. /\ Spendable(left) \in Nat
        /\ Spendable(left) = 0 \/ Spendable(left) = (tr.lamports - fee_total) - min
    BY <1>2, <1>4, <2>5, <2>6 DEF Spendable, Greater
  <2>8. paid \in Nat /\ paid <= costs /\ paid <= Spendable(left)
    BY <1>3, <2>7 DEF Lesser
  <2> HIDE DEF paid, min
  <2> DEFINE shares == per_winner * winners
  <2>a. shares \in Nat /\ shares <= raw /\ fee_total + shares = house_fee + raw
    BY <2>4, <2>5
  <2> HIDE DEF shares
  <2>10. fee_total + paid + shares <= tr.pool
    <3>1. CASE raw = 0
      BY <1>2, <1>4, <1>5, <2>2, <2>5, <2>7, <2>8, <2>a, <3>1, SMTT(40)
    <3>2. CASE raw + house_fee + costs <= tr.pool
      BY <1>2, <1>3, <2>2, <2>3, <2>5, <2>8, <2>a, <3>2
    <3> QED
      BY <2>3, <3>1, <3>2
  <2> QED
    BY <2>9, <2>10 DEF shares
<1> QED
  BY <1>7, <1>8

\* Only finalize_tournament takes a running tournament to its payout.
LEMMA NextPayout ==
    ASSUME IInv, LifeInv, [Next]_vars, NEW t \in TournamentIds,
           tournament[t].state = "Running", tournament'[t].state = "Payout"
    PROVE  FinalizeTournament(t)
<1>0. tournament \in [TournamentIds -> TournamentType]
  BY DEF IInv, TournamentsSound
<1>1. ASSUME Quiet PROVE FALSE
  BY <1>1 DEF Quiet, SamePhase
<1>2. ASSUME tournament' = tournament PROVE FALSE
  BY <1>2
<1>3. ~Tick
  BY <1>2 DEF Tick
<1>4. ~\E params \in InitParams : InitializeConfig(params)
  BY DEF InitializeConfig, LifeInv, Dormant
<1>5. ~\E params \in ConfigUpdates : UpdateConfig(params)
  <2>1. ASSUME NEW params \in ConfigUpdates, UpdateConfig(params) PROVE FALSE
    <3>1. tournament' = tournament
      BY <2>1 DEF UpdateConfig
    <3> QED
      BY <1>2, <3>1
  <2> QED
    BY <2>1
<1>6. ~WithdrawFees
  BY <1>2 DEF WithdrawFees
<1>7. ASSUME NEW u \in TournamentIds, NEW p \in Players, PlayerStep(u, p) PROVE FALSE
  BY <1>1, <1>7, PlayerStepQuiet
<1>8. ASSUME NEW u \in TournamentIds, NEW p \in Players, CloseEntry(u, p) PROVE FALSE
  BY <1>1, <1>8, CloseEntryQuiet
<1>9. ASSUME NEW u \in TournamentIds, RunMatches(u) PROVE FALSE
  BY <1>1, <1>9, RunMatchesQuiet
<1>10. ASSUME NEW u \in TournamentIds, NEW new, new.state # "Payout",
              tournament' = [tournament EXCEPT ![u] = new]
       PROVE  FALSE
  BY <1>0, <1>10
<1>11. ASSUME NEW u \in TournamentIds, CloseRegistration(u) PROVE FALSE
  <2> DEFINE tr == tournament[u]
             mid == Charged(tr)
             new == Locked(mid, now + tr.reveal_duration)
  <2>1. tournament' = [tournament EXCEPT ![u] = new] /\ tr.state = "Registration"
    BY <1>11 DEF CloseRegistration, Locked
  <2>2. mid \in TournamentType
    <3>1. Sound(tr) /\ tr.state \in Live /\ config \in ConfigType
      BY <2>1 DEF Live, IInv, TournamentsSound
    <3> QED
      BY <3>1, ChargedSound DEF Sound
  <2> HIDE DEF mid
  <2>3. new.state = "Reveal"
    BY <2>2, LockedFields
  <2> HIDE DEF new
  <2> QED
    BY <1>10, <2>1, <2>3
<1>12. ASSUME NEW u \in TournamentIds, CloseReveal(u) PROVE FALSE
  <2>1. PICK new \in TournamentType :
           tournament' = [tournament EXCEPT ![u] = new] /\ new.state = "Running"
    BY <1>12, CloseRevealMoves
  <2> QED
    BY <1>10, <2>1
<1>13. ASSUME NEW u \in TournamentIds, CloseTournament(u) PROVE FALSE
  <2>1. tournament' = [tournament EXCEPT ![u] = NoTournament]
    BY <1>13 DEF CloseTournament
  <2>2. NoTournament.state = "Absent"
    BY DEF NoTournament
  <2> QED
    BY <1>10, <2>1, <2>2
<1>14. ASSUME NEW u \in TournamentIds, FinalizeTournament(u) PROVE u = t
  <2>1. u = config.current_tournament_id
    BY <1>14, FinalizeUpdate
  <2>2. t = config.current_tournament_id
    BY LiveIsCurrent DEF Live
  <2> QED
    BY <2>1, <2>2
<1>15. ~UNCHANGED vars
  BY <1>2 DEF vars
<1> QED
  BY <1>3, <1>4, <1>5, <1>6, <1>7, <1>8, <1>9, <1>11, <1>12, <1>13, <1>14, <1>15
  DEF Next, PlayerStep

\* Whatever the house fee, the operator's costs and the number of tied winners,
\* what a settlement gives to the fees, to the operator and to the winners is
\* together at most the pool of stakes.
THEOREM SettlementIsCovered == Spec => SettlementWithinPool
<1> DEFINE Within(t) ==
             (config'.accumulated_fees - config.accumulated_fees)
                 + (wallet'[config.operator] - (wallet[config.operator] - BaseRent))
                 + tournament'[t].winner_pool
             <= tournament[t].pool
<1>1. ASSUME IInv, LifeInv, [Next]_vars, NEW t \in TournamentIds,
             tournament[t].state = "Running", tournament'[t].state = "Payout"
      PROVE  Within(t)
  <2> DEFINE tr == tournament[t]
             next == config.current_tournament_id + 1
             op == config.operator
  <2>1. FinalizeTournament(t)
    BY <1>1, NextPayout
  <2>2. /\ Sound(tr) /\ tr.house_fee_bps <= 10000 /\ config \in ConfigType
        /\ tournament \in [TournamentIds -> TournamentType]
        /\ wallet \in [Wallets -> Nat] /\ tr \in TournamentType
    BY <1>1 DEF IInv, TournamentsSound, LifeInv, ConfigChecked
  <2>3. next \in TournamentIds /\ next # t
    BY <1>1, <2>1, FinalizeUpdate
  <2>4. PICK threshold \in WinningThreshold(tr) :
           /\ tournament' = [tournament EXCEPT ![t] = Finalized(tr, threshold),
                                               ![next] = NewTournament(config)]
           /\ config' = [Collected(config, Settlement(tr, threshold).fees) EXCEPT
                             !.current_tournament_id = next]
           /\ wallet' = [wallet EXCEPT ![op] =
                             @ - BaseRent + Settlement(tr, threshold).reimbursed]
    BY <1>1, <2>1, FinalizeUpdate
  <2> DEFINE s == Settlement(tr, threshold)
             paid == Collected(config, s.fees)
  <2>5. /\ s.fees \in Nat /\ s.reimbursed \in Nat /\ s.winner_pool \in Nat
        /\ s.fees + s.reimbursed + s.winner_pool <= tr.pool
    BY <1>1, <2>2, SettlementType, SettlementSum DEF Live
  <2>6. tournament'[t].winner_pool = s.winner_pool
    <3>1. tournament'[t] = Finalized(tr, threshold)
      BY <2>2, <2>3, <2>4
    <3> QED
      BY <2>2, <3>1, FinalizedFields
  <2> HIDE DEF s
  <2>7. config'.accumulated_fees = config.accumulated_fees + s.fees
    <3>1. paid.accumulated_fees = config.accumulated_fees + s.fees
      BY <2>2, CollectedFields
    <3>2. paid \in ConfigType
      BY <1>1, <2>2, <2>5, CollectedKeeps DEF IInv, FeesBacked
    <3>3. config' = [paid EXCEPT !.current_tournament_id = next]
      BY <2>4 DEF s
    <3> HIDE DEF paid
    <3> QED
      BY <3>1, <3>2, <3>3 DEF ConfigType
  <2>8. wallet'[op] = wallet[op] - BaseRent + s.reimbursed /\ wallet[op] \in Nat
    <3>1. op \in Wallets
      BY <2>2 DEF ConfigType, Wallets
    <3> QED
      BY <2>2, <2>4, <3>1 DEF s
  <2>9. config.accumulated_fees \in Nat /\ BaseRent \in Nat /\ tr.pool \in Nat
    BY <2>2, AmountsAssumption, Fields DEF ConfigType
  <2> QED
    BY <2>5, <2>6, <2>7, <2>8, <2>9
<1>2. IInv /\ LifeInv /\ [Next]_vars =>
          \A t \in TournamentIds :
              tournament[t].state = "Running" /\ tournament'[t].state = "Payout" => Within(t)
  BY <1>1
<1>3. IInv /\ LifeInv /\ [Next]_vars =>
        [\A t \in TournamentIds :
          tournament[t].state = "Running" /\ tournament'[t].state = "Payout" =>
              (config'.accumulated_fees - config.accumulated_fees)
                  + (wallet'[config.operator] - (wallet[config.operator] - BaseRent))
                  + tournament'[t].winner_pool
              <= tournament[t].pool]_vars
  BY <1>2
<1> QED
  BY <1>3, SpecLife, PTL DEF Spec, SettlementWithinPool

-----------------------------------------------------------------------------
(***************************************************************************)
(* Revealed strategies                                                     *)
(***************************************************************************)
\* Entry en of a tournament tr has the strategy its player committed to, if the
\* deadline has not passed or the strategy is a custom program.
Bound(tr, en) ==
    /\ en.open /\ en.revealed
    /\ \/ en.strategy = Custom
       \/ tr.state = "Reveal" /\ now <= tr.reveal_ends
    => /\ \E secret \in Secrets : Opens(secret, en)
       /\ en.strategy = Custom => en.bytecode \in ValidBytecodes

\* RevealBinding, with what it depends on: nothing is revealed before the reveal
\* phase, and a tournament not yet created has no entries.
BindingInv ==
    \A t \in TournamentIds :
        /\ tournament[t].state = "Absent" /\ t >= config.current_tournament_id
               => OpenEntries(t) = {}
        /\ tournament[t].state = "Registration"
               => \A p \in OpenEntries(t) : ~entry[t][p].revealed
        /\ \A p \in Players : Bound(tournament[t], entry[t][p])

\* The phase of tournament t does not fall back.
PhaseKept(t) ==
    /\ tournament'[t].state = "Registration" =>
           tournament[t].state = "Registration" \/ OpenEntries(t) = {}
    /\ tournament'[t].state = "Reveal" =>
           \/ SamePhase(tournament'[t], tournament[t])
           \/ tournament[t].state = "Registration"
    /\ tournament'[t].state = "Absent" /\ t >= config'.current_tournament_id =>
           tournament[t].state = "Absent" /\ t >= config.current_tournament_id

\* Entries of tournament t are closed or, but for their scores, left alone.
EntriesKept(t) ==
    \A p \in Players :
        entry'[t][p].open => SameButScore(entry'[t][p], entry[t][p])

LEMMA KeptBinding ==
    ASSUME IInv, BindingInv, now' \in Nat, now' >= now,
           \A t \in TournamentIds : tournament'[t].reveal_ends \in Nat,
           \A t \in TournamentIds : PhaseKept(t) /\ EntriesKept(t)
    PROVE  BindingInv'
<1> SUFFICES ASSUME NEW t \in TournamentIds
             PROVE  /\ tournament'[t].state = "Absent" /\ t >= config'.current_tournament_id
                          => OpenEntries(t)' = {}
                    /\ tournament'[t].state = "Registration"
                          => \A p \in OpenEntries(t)' : ~entry'[t][p].revealed
                    /\ \A p \in Players : Bound(tournament[t], entry[t][p])'
  BY DEF BindingInv
<1>1. PhaseKept(t) /\ EntriesKept(t) /\ now \in Nat
  BY DEF IInv
<1>2. OpenEntries(t)' \subseteq OpenEntries(t)
  BY <1>1 DEF OpenEntries, EntriesKept, SameButScore
<1>3. tournament'[t].state = "Absent" /\ t >= config'.current_tournament_id
          => OpenEntries(t)' = {}
  BY <1>1, <1>2 DEF PhaseKept, BindingInv
<1>4. tournament'[t].state = "Registration"
          => \A p \in OpenEntries(t)' : ~entry'[t][p].revealed
  BY <1>1, <1>2 DEF PhaseKept, BindingInv, EntriesKept, SameButScore, OpenEntries
<1>5. ASSUME NEW p \in Players PROVE Bound(tournament[t], entry[t][p])'
  <2> SUFFICES ASSUME entry'[t][p].open, entry'[t][p].revealed,
                      \/ entry'[t][p].strategy = Custom
                      \/ tournament'[t].state = "Reveal" /\ now' <= tournament'[t].reveal_ends
               PROVE  /\ \E secret \in Secrets : Opens(secret, entry'[t][p])
                      /\ entry'[t][p].strategy = Custom =>
                            entry'[t][p].bytecode \in ValidBytecodes
    BY DEF Bound, Opens
  <2>1. SameButScore(entry'[t][p], entry[t][p])
    BY <1>1 DEF EntriesKept
  <2>2. p \in OpenEntries(t) /\ entry[t][p].revealed
    BY <2>1 DEF SameButScore, OpenEntries
  <2>3. tournament[t].state # "Registration"
    BY <2>2 DEF BindingInv
  <2>4. \/ entry[t][p].strategy = Custom
        \/ tournament[t].state = "Reveal" /\ now <= tournament[t].reveal_ends
    <3>1. CASE entry'[t][p].strategy = Custom
      BY <2>1, <3>1 DEF SameButScore
    <3>2. CASE tournament'[t].state = "Reveal" /\ now' <= tournament'[t].reveal_ends
      <4>1. SamePhase(tournament'[t], tournament[t])
        BY <1>1, <2>3, <3>2 DEF PhaseKept
      <4> QED
        BY <1>1, <3>2, <4>1 DEF SamePhase
    <3> QED
      BY <3>1, <3>2
  <2>5. Bound(tournament[t], entry[t][p])
    BY DEF BindingInv
  <2>6. /\ \E secret \in Secrets : Opens(secret, entry[t][p])
        /\ entry[t][p].strategy = Custom => entry[t][p].bytecode \in ValidBytecodes
    BY <2>2, <2>4, <2>5 DEF Bound, OpenEntries
  <2> QED
    BY <2>1, <2>6 DEF Opens, SameButScore
<1> QED
  BY <1>3, <1>4, <1>5

\* A step that changes one open entry, within a phase.
LEMMA OneEntryBinding ==
    ASSUME IInv, BindingInv, NEW t \in TournamentIds, NEW p \in Players, NEW e,
           Quiet, now' = now, config' = config,
           entry' = [entry EXCEPT ![t][p] = e],
           tournament[t].state # "Absent",
           tournament[t].state = "Registration" => ~e.revealed,
           Bound(tournament[t], e)
    PROVE  BindingInv'
<1>1. entry \in [TournamentIds -> [Players -> EntryType]]
  BY DEF IInv, EntriesTyped
<1>2. ASSUME NEW u \in TournamentIds, NEW q \in Players
      PROVE  entry'[u][q] = IF u = t /\ q = p THEN e ELSE entry[u][q]
  BY <1>1
<1>3. ASSUME NEW u \in TournamentIds
      PROVE  SamePhase(tournament'[u], tournament[u])
  BY DEF Quiet
<1> SUFFICES ASSUME NEW u \in TournamentIds
             PROVE  /\ tournament'[u].state = "Absent" /\ u >= config'.current_tournament_id
                          => OpenEntries(u)' = {}
                    /\ tournament'[u].state = "Registration"
                          => \A q \in OpenEntries(u)' : ~entry'[u][q].revealed
                    /\ \A q \in Players : Bound(tournament[u], entry[u][q])'
  BY DEF BindingInv
<1>4. tournament'[u].state = "Absent" /\ u >= config'.current_tournament_id
          => OpenEntries(u)' = {}
  <2> SUFFICES ASSUME tournament'[u].state = "Absent", u >= config'.current_tournament_id
               PROVE  OpenEntries(u)' = {}
    OBVIOUS
  <2>1. u # t /\ tournament[u].state = "Absent" /\ u >= config.current_tournament_id
    BY <1>3 DEF SamePhase
  <2>2. OpenEntries(u) = {}
    BY <2>1 DEF BindingInv
  <2>3. \A q \in Players : entry'[u][q] = entry[u][q]
    BY <1>2, <2>1
  <2> QED
    BY <2>2, <2>3 DEF OpenEntries
<1>5. ASSUME tournament'[u].state = "Registration", NEW q \in OpenEntries(u)'
      PROVE  ~entry'[u][q].revealed
  <2>1. tournament[u].state = "Registration" /\ q \in Players /\ entry'[u][q].open
    BY <1>3, <1>5 DEF SamePhase, OpenEntries
  <2>2. entry'[u][q] = IF u = t /\ q = p THEN e ELSE entry[u][q]
    BY <1>2, <2>1
  <2>3. entry[u][q].open => ~entry[u][q].revealed
    BY <2>1 DEF BindingInv, OpenEntries
  <2> QED
    BY <2>1, <2>2, <2>3
<1>6. ASSUME NEW q \in Players PROVE Bound(tournament[u], entry[u][q])'
  <2>1. Bound(tournament[u], entry'[u][q])
    <3>1. entry'[u][q] = IF u = t /\ q = p THEN e ELSE entry[u][q]
      BY <1>2
    <3>2. Bound(tournament[u], entry[u][q])
      BY DEF BindingInv
    <3> QED
      BY <3>1, <3>2
  <2> QED
    BY <1>3, <2>1 DEF Bound, Opens, SamePhase
<1> QED
  BY <1>4, <1>5, <1>6

\* Closing one entry, of whichever tournament.
LEMMA ClosedKept ==
    ASSUME IInv, NEW r \in TournamentIds, NEW q \in Players,
           entry' = [entry EXCEPT ![r][q] = NoEntry]
    PROVE  \A t \in TournamentIds : EntriesKept(t)
<1>1. entry \in [TournamentIds -> [Players -> EntryType]]
  BY DEF IInv, EntriesTyped
<1>2. ~NoEntry.open
  BY DEF NoEntry
<1>3. ASSUME NEW t \in TournamentIds, NEW p \in Players
      PROVE  entry'[t][p] = IF t = r /\ p = q THEN NoEntry ELSE entry[t][p]
  BY <1>1
<1> QED
  BY <1>2, <1>3 DEF EntriesKept, SameButScore

LEMMA SameEntriesKept ==
    ASSUME entry' = entry PROVE \A t \in TournamentIds : EntriesKept(t)
  BY DEF EntriesKept, SameButScore

LEMMA QuietKept ==
    ASSUME Quiet, config'.current_tournament_id = config.current_tournament_id
    PROVE  \A t \in TournamentIds : PhaseKept(t)
  BY DEF Quiet, PhaseKept, SamePhase

\* A player's instruction, or a forfeit.
LEMMA PlayerStepBinding ==
    ASSUME IInv, IInv', BindingInv, NEW t \in TournamentIds, NEW p \in Players,
           PlayerStep(t, p)
    PROVE  BindingInv'
<1> DEFINE tr == tournament[t]
           en == entry[t][p]
<1>0. Quiet /\ config' = config
  BY PlayerStepQuiet
<1>a. now \in Nat /\ tr \in TournamentType /\ en \in EntryType
  BY DEF IInv, TournamentsSound, EntriesTyped
<1>b. \A u \in TournamentIds : tournament'[u].reveal_ends \in Nat
  BY DEF IInv, TournamentsSound, TournamentType
<1>1. CASE \E commitment \in Commitments : EnterTournament(p, t, commitment)
  <2>1. PICK commitment \in Commitments : EnterTournament(p, t, commitment)
    BY <1>1
  <2> DEFINE e == [NoEntry EXCEPT !.open = TRUE, !.index = NextIndex(tr),
                                  !.commitment = commitment]
  <2>2. /\ entry' = [entry EXCEPT ![t][p] = e] /\ now' = now
        /\ tr.state = "Registration"
    BY <2>1 DEF EnterTournament
  <2>3. e.revealed = FALSE
    BY DEF NoEntry
  <2> HIDE DEF e
  <2> QED
    BY <1>0, <2>2, <2>3, OneEntryBinding DEF Bound
<1>2. CASE \E secret \in Secrets : RevealStrategy(p, t, secret)
  <2>1. PICK secret \in Secrets : RevealStrategy(p, t, secret)
    BY <1>2
  <2> DEFINE e == RevealedEntry(en, secret)
  <2>2. /\ entry' = [entry EXCEPT ![t][p] = e] /\ now' = now
        /\ tr.state = "Reveal" /\ Commitment(secret) = en.commitment
        /\ secret.strategy = Custom => secret.bytecode \in ValidBytecodes
    BY <2>1 DEF RevealStrategy
  <2>3. /\ e.commitment = en.commitment /\ e.strategy = secret.strategy
        /\ secret.strategy = Custom => e.bytecode = secret.bytecode
    BY <1>a DEF RevealedEntry, EntryType
  <2> HIDE DEF e
  <2>4. Bound(tr, e)
    BY <2>2, <2>3 DEF Bound, Opens
  <2> QED
    BY <1>0, <2>2, <2>4, OneEntryBinding
<1>3. CASE \E byte \in SlotBytes : ForfeitUnrevealed(t, p, byte)
  <2>1. PICK byte \in SlotBytes : ForfeitUnrevealed(t, p, byte)
    BY <1>3
  <2> DEFINE e == [en EXCEPT !.strategy = ForfeitStrategy(byte), !.revealed = TRUE]
  <2>2. /\ entry' = [entry EXCEPT ![t][p] = e] /\ now' = now
        /\ tr.state = "Reveal" /\ now > tr.reveal_ends
    BY <2>1 DEF ForfeitUnrevealed, RevealOver
  <2>3. e.strategy = ForfeitStrategy(byte)
    BY <1>a DEF EntryType
  <2>4. ForfeitStrategy(byte) # Custom
    <3>1. byte \in Nat
      BY ArgumentsAssumption
    <3> QED
      BY <3>1 DEF ForfeitStrategy, Custom
  <2> HIDE DEF e
  <2>5. Bound(tr, e)
    <3>1. tr.reveal_ends \in Nat
      BY <1>a DEF TournamentType
    <3>2. ~(now <= tr.reveal_ends)
      BY <1>a, <2>2, <3>1
    <3> QED
      BY <2>3, <2>4, <3>2 DEF Bound
  <2> QED
    BY <1>0, <2>2, <2>5, OneEntryBinding
<1>4. CASE ClaimRefund(p, t) \/ ClaimPayout(p, t)
  <2>1. entry' = [entry EXCEPT ![t][p] = NoEntry] /\ now' = now
    BY <1>4 DEF ClaimRefund, ClaimPayout
  <2>2. \A u \in TournamentIds : PhaseKept(u) /\ EntriesKept(u)
    BY <1>0, <2>1, QuietKept, ClosedKept
  <2> QED
    BY <1>a, <1>b, <2>1, <2>2, KeptBinding
<1> QED
  BY <1>1, <1>2, <1>3, <1>4 DEF PlayerStep

\* The parts of update_config and finalize_tournament that move the current id.
LEMMA UpdateConfigSame ==
    ASSUME IInv, NEW params \in ConfigUpdates, UpdateConfig(params)
    PROVE  config'.current_tournament_id = config.current_tournament_id
<1> DEFINE new == [config EXCEPT
              !.operator = Updated(params.operator, config.operator),
              !.house_fee_bps = Updated(params.house_fee_bps, config.house_fee_bps),
              !.stake = Updated(params.stake, config.stake),
              !.min_participants =
                  Updated(params.min_participants, config.min_participants),
              !.max_participants = Updated(params.max_participants, config.max_participants),
              !.registration_duration =
                  Updated(params.registration_duration, config.registration_duration),
              !.matches_per_player =
                  Updated(params.matches_per_player, config.matches_per_player),
              !.reveal_duration = Updated(params.reveal_duration, config.reveal_duration),
              !.operator_tx_fee = Updated(params.operator_tx_fee, config.operator_tx_fee)]
<1>1. config' = new /\ config \in ConfigType
  BY DEF UpdateConfig, IInv
<1>2. new.current_tournament_id = config.current_tournament_id
  BY <1>1 DEF ConfigType
<1> HIDE DEF new
<1> QED
  BY <1>1, <1>2

LEMMA FinalizeNext ==
    ASSUME IInv, LifeInv, NEW t \in TournamentIds, FinalizeTournament(t)
    PROVE  config'.current_tournament_id = config.current_tournament_id + 1
<1> DEFINE next == config.current_tournament_id + 1
<1>1. PICK threshold \in WinningThreshold(tournament[t]) :
         config' = [Collected(config, Settlement(tournament[t], threshold).fees) EXCEPT
                        !.current_tournament_id = next]
  BY FinalizeUpdate
<1> DEFINE paid == Collected(config, Settlement(tournament[t], threshold).fees)
<1>2. paid \in ConfigType
  <2>1. Settlement(tournament[t], threshold).fees \in Nat
    BY SettlementType DEF IInv, TournamentsSound
  <2> QED
    BY <2>1, CollectedKeeps DEF IInv, FeesBacked
<1> HIDE DEF paid
<1>3. config' = [paid EXCEPT !.current_tournament_id = next]
  BY <1>1 DEF paid
<1> QED
  BY <1>2, <1>3 DEF ConfigType

\* close_reveal closes at most one entry, of this or another tournament.
LEMMA CloseRevealEntries ==
    ASSUME IInv, NEW t \in TournamentIds, CloseReveal(t)
    PROVE  \/ entry' = entry
           \/ \E r \in TournamentIds, q \in Players :
                  entry' = [entry EXCEPT ![r][q] = NoEntry]
<1>1. PICK seed \in Seeds :
          \/ CloseRevealEven(t, seed)
          \/ \E r \in (IF ForeignRefund THEN TournamentIds ELSE {t}) :
                 CloseRevealOdd(t, seed, r)
  BY DEF CloseReveal
<1>2. CASE CloseRevealEven(t, seed)
  BY <1>2, CloseRevealEvenUpdate
<1>3. CASE \E r \in (IF ForeignRefund THEN TournamentIds ELSE {t}) :
               CloseRevealOdd(t, seed, r)
  <2>1. PICK r \in TournamentIds : CloseRevealOdd(t, seed, r)
    BY <1>3
  <2>2. PICK last \in LastActive(tournament[t]) :
           /\ tournament[t].players[last + 1] \in Players
           /\ entry' = [entry EXCEPT ![r][tournament[t].players[last + 1]] = NoEntry]
    BY <2>1, CloseRevealOddUpdate
  <2> QED
    BY <2>1, <2>2
<1> QED
  BY <1>1, <1>2, <1>3

\* Steps that move one tournament to another phase.
LEMMA MovedKept ==
    ASSUME IInv, NEW t \in TournamentIds, NEW new,
           tournament' = [tournament EXCEPT ![t] = new],
           config'.current_tournament_id = config.current_tournament_id,
           \/ new.state \in {"Running", "Payout"}
           \/ new.state = "Reveal" /\ tournament[t].state = "Registration"
           \/ new.state = "Absent" /\ t < config.current_tournament_id
    PROVE  \A u \in TournamentIds : PhaseKept(u)
<1>1. tournament \in [TournamentIds -> TournamentType]
  BY DEF IInv, TournamentsSound
<1> SUFFICES ASSUME NEW u \in TournamentIds PROVE PhaseKept(u)
  OBVIOUS
<1>2. CASE u = t
  <2>1. tournament'[u] = new
    BY <1>1, <1>2
  <2>2. t \in Nat /\ config.current_tournament_id \in Nat
    BY DEF IInv, ConfigType, TournamentIds
  <2>3. new.state = "Absent" => ~(t >= config.current_tournament_id)
    BY <2>2
  <2> QED
    BY <1>2, <2>1, <2>3 DEF PhaseKept
<1>3. CASE u # t
  <2>1. tournament'[u] = tournament[u]
    BY <1>1, <1>3
  <2> QED
    BY <2>1 DEF PhaseKept, SamePhase
<1> QED
  BY <1>2, <1>3

LEMMA NextBinding == IInv /\ LifeInv /\ BindingInv /\ IInv' /\ [Next]_vars => BindingInv'
<1> SUFFICES ASSUME IInv, LifeInv, BindingInv, IInv', [Next]_vars
             PROVE  BindingInv'
  OBVIOUS
<1>a. /\ \A u \in TournamentIds : tournament'[u].reveal_ends \in Nat
      /\ now \in Nat /\ now' \in Nat
  BY DEF IInv, TournamentsSound, TournamentType
<1>b. ASSUME Quiet, SameConfig, entry' = entry, now' >= now PROVE BindingInv'
  <2>1. \A u \in TournamentIds : PhaseKept(u) /\ EntriesKept(u)
    BY <1>b, QuietKept, SameEntriesKept DEF SameConfig
  <2> QED
    BY <1>a, <1>b, <2>1, KeptBinding
<1>1. CASE Tick
  BY <1>a, <1>b, <1>1 DEF Tick, Quiet, SamePhase, SameTerms, SameConfig
<1>2. ASSUME NEW params \in InitParams, InitializeConfig(params) PROVE BindingInv'
  <2>1. /\ ~config.initialized /\ config'.current_tournament_id = 0
        /\ tournament' = [tournament EXCEPT ![0] = NewTournament(config')]
        /\ entry' = entry /\ now' = now
    BY <1>2 DEF InitializeConfig
  <2>2. /\ config.current_tournament_id = 0
        /\ \A u \in TournamentIds : tournament[u].state = "Absent" /\ u >= 0
    BY <2>1 DEF LifeInv, Dormant, TournamentIds
  <2>3. \A u \in TournamentIds : OpenEntries(u) = {}
    BY <2>2 DEF BindingInv
  <2>4. NewTournament(config').state = "Registration"
    BY NewFields DEF IInv
  <2>5. tournament \in [TournamentIds -> TournamentType]
    BY DEF IInv, TournamentsSound
  <2>6. ASSUME NEW u \in TournamentIds PROVE PhaseKept(u)
    <3>1. tournament'[u].state = IF u = 0 THEN "Registration" ELSE "Absent"
      BY <2>1, <2>2, <2>4, <2>5
    <3> QED
      BY <2>1, <2>2, <2>3, <3>1 DEF PhaseKept
  <2> QED
    BY <1>a, <2>1, <2>6, SameEntriesKept, KeptBinding
<1>3. ASSUME NEW params \in ConfigUpdates, UpdateConfig(params) PROVE BindingInv'
  <2>1. tournament' = tournament /\ entry' = entry /\ now' = now
    BY <1>3 DEF UpdateConfig
  <2>2. config'.current_tournament_id = config.current_tournament_id
    BY <1>3, UpdateConfigSame
  <2>3. \A u \in TournamentIds : PhaseKept(u)
    BY <2>1, <2>2 DEF PhaseKept, SamePhase
  <2> QED
    BY <1>a, <2>1, <2>3, SameEntriesKept, KeptBinding
<1>4. CASE WithdrawFees
  <2>1. SameConfig
    BY <1>4 DEF WithdrawFees, IInv, ConfigType, SameConfig
  <2> QED
    BY <1>a, <1>b, <1>4, <2>1 DEF WithdrawFees, Quiet, SamePhase, SameTerms
<1>5. ASSUME NEW t \in TournamentIds, NEW p \in Players, PlayerStep(t, p)
      PROVE  BindingInv'
  BY <1>5, PlayerStepBinding
<1>6. ASSUME NEW t \in TournamentIds, NEW p \in Players, CloseEntry(t, p)
      PROVE  BindingInv'
  <2>1. entry' = [entry EXCEPT ![t][p] = NoEntry] /\ now' = now
    BY <1>6 DEF CloseEntry
  <2>2. \A u \in TournamentIds : PhaseKept(u) /\ EntriesKept(u)
    BY <1>6, <2>1, CloseEntryQuiet, QuietKept, ClosedKept DEF SameConfig
  <2> QED
    BY <1>a, <2>1, <2>2, KeptBinding
<1>7. ASSUME NEW t \in TournamentIds, CloseRegistration(t) PROVE BindingInv'
  <2> DEFINE tr == tournament[t]
             mid == Charged(tr)
             new == Locked(mid, now + tr.reveal_duration)
  <2>1. /\ tournament' = [tournament EXCEPT ![t] = new] /\ tr.state = "Registration"
        /\ config' = config /\ entry' = entry /\ now' = now
    BY <1>7 DEF CloseRegistration, Locked
  <2>2. mid \in TournamentType
    <3>1. Sound(tr) /\ tr.state \in Live /\ config \in ConfigType
      BY <2>1 DEF Live, IInv, TournamentsSound
    <3> QED
      BY <3>1, ChargedSound DEF Sound
  <2> HIDE DEF mid
  <2>3. new.state = "Reveal"
    BY <2>2, LockedFields
  <2> HIDE DEF new
  <2>4. \A u \in TournamentIds : PhaseKept(u)
    BY <2>1, <2>3, MovedKept
  <2> QED
    BY <1>a, <2>1, <2>4, SameEntriesKept, KeptBinding
<1>8. ASSUME NEW t \in TournamentIds, CloseReveal(t) PROVE BindingInv'
  <2>1. PICK new \in TournamentType :
           /\ tournament' = [tournament EXCEPT ![t] = new]
           /\ now' = now /\ config' = config /\ new.state = "Running"
    BY <1>8, CloseRevealMoves
  <2>2. \A u \in TournamentIds : EntriesKept(u)
    BY <1>8, CloseRevealEntries, ClosedKept, SameEntriesKept
  <2>3. \A u \in TournamentIds : PhaseKept(u)
    BY <2>1, MovedKept
  <2> QED
    BY <1>a, <2>1, <2>2, <2>3, KeptBinding
<1>9. ASSUME NEW t \in TournamentIds, RunMatches(t) PROVE BindingInv'
  <2>1. PICK new :
           /\ BatchScored(new, [tr |-> tournament[t], en |-> entry[t]])
           /\ entry' = [entry EXCEPT ![t] = new.en]
           /\ now' = now
    BY <1>9, RunMatchesUpdate
  <2>2. ASSUME NEW u \in TournamentIds PROVE EntriesKept(u)
    <3>1. entry'[u] = IF u = t THEN new.en ELSE entry[u]
      BY <2>1 DEF IInv, EntriesTyped
    <3>2. \A p \in Players : SameButScore(new.en[p], entry[t][p])
      BY <2>1 DEF BatchScored
    <3> QED
      BY <3>1, <3>2 DEF EntriesKept, SameButScore
  <2>3. \A u \in TournamentIds : PhaseKept(u)
    BY <1>9, RunMatchesQuiet, QuietKept
  <2> QED
    BY <1>a, <2>1, <2>2, <2>3, KeptBinding
<1>10. ASSUME NEW t \in TournamentIds, FinalizeTournament(t) PROVE BindingInv'
  <2> DEFINE next == config.current_tournament_id + 1
  <2>1. /\ next \in TournamentIds /\ tournament[next].state = "Absent" /\ next # t
        /\ entry' = entry /\ now' = now /\ tournament[t] \in TournamentType
        /\ t = config.current_tournament_id
    BY <1>10, FinalizeUpdate
  <2>2. PICK threshold : /\ tournament' = [tournament EXCEPT
                                ![t] = Finalized(tournament[t], threshold),
                                ![next] = NewTournament(config)]
    BY <1>10, FinalizeUpdate
  <2>3. /\ Finalized(tournament[t], threshold).state = "Payout"
        /\ NewTournament(config).state = "Registration"
    BY <2>1, FinalizedFields, NewFields DEF IInv
  <2>4. config.current_tournament_id \in Nat /\ \A u \in TournamentIds : u \in Nat
    BY DEF IInv, ConfigType, TournamentIds
  <2>5. OpenEntries(next) = {}
    BY <2>1, <2>4 DEF BindingInv
  <2>6. config'.current_tournament_id = next
    BY <1>10, FinalizeNext
  <2>7. tournament \in [TournamentIds -> TournamentType]
    BY DEF IInv, TournamentsSound
  <2> DEFINE done == Finalized(tournament[t], threshold)
             fresh == NewTournament(config)
  <2> HIDE DEF done, fresh
  <2>8. ASSUME NEW u \in TournamentIds PROVE PhaseKept(u)
    <3>1. tournament'[u] = IF u = next THEN fresh ELSE IF u = t THEN done
                           ELSE tournament[u]
      BY <2>1, <2>2, <2>7 DEF done, fresh
    <3>2. done.state = "Payout" /\ fresh.state = "Registration"
      BY <2>3 DEF done, fresh
    <3> QED
      BY <2>4, <2>5, <2>6, <3>1, <3>2 DEF PhaseKept, SamePhase
  <2> QED
    BY <1>a, <2>1, <2>8, SameEntriesKept, KeptBinding
<1>11. ASSUME NEW t \in TournamentIds, CloseTournament(t) PROVE BindingInv'
  <2>1. /\ tournament[t].state = "Payout"
        /\ tournament' = [tournament EXCEPT ![t] = NoTournament]
        /\ config' = Collected(config, tournament[t].lamports)
        /\ entry' = entry /\ now' = now
    BY <1>11 DEF CloseTournament, Closable
  <2>2. NoTournament.state = "Absent"
    BY DEF NoTournament
  <2>3. config'.current_tournament_id = config.current_tournament_id
    BY <2>1, CollectedFields DEF IInv
  <2>4. t < config.current_tournament_id
    <3>1. t # config.current_tournament_id
      BY <2>1 DEF LifeInv, Dormant, OneLiveTournament, Live
    <3>2. ~(t > config.current_tournament_id)
      BY <2>1 DEF LifeInv, OneLiveTournament
    <3>3. t \in Nat /\ config.current_tournament_id \in Nat
      BY DEF IInv, ConfigType, TournamentIds
    <3> QED
      BY <3>1, <3>2, <3>3
  <2>5. \A u \in TournamentIds : PhaseKept(u)
    BY <2>1, <2>2, <2>3, <2>4, MovedKept
  <2> QED
    BY <1>a, <2>1, <2>5, SameEntriesKept, KeptBinding
<1>12. CASE UNCHANGED vars
  BY <1>a, <1>b, <1>12 DEF vars, Quiet, SamePhase, SameTerms, SameConfig
<1> QED
  BY <1>1, <1>2, <1>3, <1>4, <1>5, <1>6, <1>7, <1>8, <1>9, <1>10, <1>11, <1>12
  DEF Next, PlayerStep

LEMMA BindingInit == Init => BindingInv
<1> SUFFICES ASSUME Init PROVE BindingInv
  OBVIOUS
<1>1. ASSUME NEW t \in TournamentIds
      PROVE  /\ tournament[t].state = "Absent"
             /\ \A p \in Players : entry[t][p].open = FALSE
  BY DEF Init, NoTournament, NoEntry
<1> QED
  BY <1>1 DEF BindingInv, Bound, OpenEntries

LEMMA SpecBinding == Spec => [](IInv /\ LifeInv /\ BindingInv)
<1>1. IInv /\ LifeInv /\ [Next]_vars => IInv'
  BY NextIInv
<1> QED
  BY <1>1, BindingInit, NextBinding, SpecLife, PTL DEF Spec

\* Until the reveal deadline an entry has no strategy but the one its player
\* committed to, and a custom program is at any time one its player revealed and
\* validate_bytecode accepted: no forfeit, refund or restart of the slot, not
\* even one with the entry account of another tournament, puts another one there.
THEOREM RevealsBind == Spec => []RevealBinding
<1>1. BindingInv => RevealBinding
  <2> SUFFICES ASSUME BindingInv, NEW t \in TournamentIds, NEW p \in OpenEntries(t),
                      entry[t][p].revealed,
                      \/ entry[t][p].strategy = Custom
                      \/ tournament[t].state = "Reveal" /\ now <= tournament[t].reveal_ends
               PROVE  /\ \E secret \in Secrets : Opens(secret, entry[t][p])
                      /\ entry[t][p].strategy = Custom =>
                            entry[t][p].bytecode \in ValidBytecodes
    BY DEF RevealBinding
  <2>1. p \in Players /\ entry[t][p].open
    BY DEF OpenEntries
  <2>2. Bound(tournament[t], entry[t][p])
    BY <2>1 DEF BindingInv
  <2> QED
    BY <2>1, <2>2 DEF Bound
<1> QED
  BY <1>1, SpecBinding, PTL

=============================================================================
