------------------------------- MODULE Arena -------------------------------
(***************************************************************************)
(* The on-chain program prisoners-arena: its Config, Tournament and Entry  *)
(* accounts, the lamports they hold, and one action per instruction.       *)
(*                                                                         *)
(* An instruction is one atomic transaction.  A failed require!, a checked *)
(* arithmetic error or a refusal of the Solana runtime reverts all of it,  *)
(* so every such condition is a guard.  The runtime refuses a transaction  *)
(* that leaves an account below its rent-exempt minimum (RentExempt).      *)
(*                                                                         *)
(* Lamports are exact; identities, hashes and match results are data and   *)
(* come from small sets.  Optional arguments are sets: Some(x) is {x},     *)
(* None is {}.                                                             *)
(***************************************************************************)
EXTENDS Pairing, Integers, Sequences, FiniteSets

CONSTANTS
    Players,            \* wallets that enter tournaments
    Operators,          \* keys config.operator may hold
    Admin,              \* config.admin, set once by initialize_config
    NoPlayer,           \* Pubkey::default(), a refunded slot
    InitParams,         \* arguments initialize_config is called with
    ConfigUpdates,      \* arguments update_config is called with
    Secrets,            \* what a player may reveal: [strategy, salt, bytecode]
    Commitments,        \* 32-byte values passed to enter_tournament
    ValidBytecodes,     \* bytecodes validate_bytecode accepts
    NoBytecode,         \* an absent or zeroed bytecode field
    Seeds,              \* values of the randomness seed
    NoSeed,             \* the zeroed seed
    SlotBytes,          \* bytes of the SlotHashes sysvar
    MatchScores,        \* results of run_match, <<total_score_a, total_score_b>>
    PairingOf(_,_,_,_), \* match_logic::get_pairing_for_match
    ForeignRefund,      \* TRUE: close_reveal may be given another tournament's entry
    BaseRent,           \* rent-exempt minimum of Tournament::BASE_SPACE bytes
    RentPerPlayer,      \* rent of BYTES_PER_PLAYER bytes
    EntryRent,          \* rent-exempt minimum of Entry::LEN bytes
    ConfigRent,         \* rent-exempt minimum of Config::LEN bytes
    InitialWallet,      \* lamports every wallet starts with
    ClaimExpiry,        \* CLAIM_EXPIRY_SECONDS
    Closure,            \* TOURNAMENT_CLOSURE_SECONDS
    MatchesPerTx,       \* MATCHES_PER_TX (5 in the code)
    U16Max,             \* largest max_participants
    MaxTournamentId,    \* bound of the model on tournament ids
    MaxTime             \* bound of the model on the clock (see Tick)

VARIABLES
    now,                \* Clock::get().unix_timestamp
    config,             \* the Config account
    tournament,         \* tournament id -> Tournament account
    entry,              \* tournament id -> player -> Entry account
    wallet              \* lamports of the players, the operators and the admin

vars == <<now, config, tournament, entry, wallet>>

TournamentIds == 0..MaxTournamentId
Wallets == Players \cup Operators \cup {Admin}

States == {"Absent", "Registration", "Reveal", "Running", "Payout"}

\* Strategy as u8: the builtins are 0..8, Custom is 9; u8::MAX marks a slot
\* without a revealed strategy.
Custom == 9
Unrevealed == 255

InitParam == [operator : Operators, stake : Nat, min_participants : Nat,
              max_participants : 0..U16Max, registration_duration : Int,
              matches_per_player : Nat, reveal_duration : Int]

ConfigUpdate == [operator : SUBSET Operators, house_fee_bps : SUBSET Nat,
                 stake : SUBSET Nat, min_participants : SUBSET Nat,
                 max_participants : SUBSET (0..U16Max),
                 registration_duration : SUBSET Int,
                 matches_per_player : SUBSET Nat,
                 reveal_duration : SUBSET Int, operator_tx_fee : SUBSET Nat]

Pairs(n) == {p \in (0..(n - 1)) \X (0..(n - 1)) : p[1] < p[2]}

ASSUME ActorsAssumption ==
    /\ NoPlayer \notin Players
    /\ Players \cap Operators = {} /\ Admin \notin Players \cup Operators
    /\ IsFiniteSet(Players) /\ IsFiniteSet(Operators)
    /\ Operators # {} /\ Commitments # {}

ASSUME ArgumentsAssumption ==
    /\ InitParams \subseteq InitParam
    /\ ConfigUpdates \subseteq ConfigUpdate
    /\ \A s \in Secrets : s.strategy \in 0..Custom
    /\ SlotBytes \subseteq 0..255
    /\ MatchScores \subseteq Nat \X Nat
    /\ ForeignRefund \in BOOLEAN

ASSUME AmountsAssumption ==
    /\ BaseRent \in Nat /\ RentPerPlayer \in Nat
    /\ EntryRent \in Nat /\ ConfigRent \in Nat /\ InitialWallet \in Nat
    /\ ClaimExpiry \in Nat /\ Closure \in Nat
    /\ U16Max \in Nat /\ MaxTournamentId \in Nat /\ MaxTime \in Nat
    /\ MatchesPerTx \in 1..5

\* What the program needs of get_pairing_for_match: a match below the match
\* count is a pair of distinct participant indices.
ASSUME PairingAssumption ==
    \A n \in 2..U16Max, seed \in Seeds : \A k \in 1..(n - 1) :
        \A m \in 0..(CalculateMatchCount(n, k) - 1) :
            PairingOf(n, k, seed, m) \subseteq Pairs(n)

-----------------------------------------------------------------------------
(***************************************************************************)
(* The accounts                                                            *)
(***************************************************************************)
NoConfig ==
    [initialized |-> FALSE, operator |-> CHOOSE o \in Operators : TRUE,
     house_fee_bps |-> 0, stake |-> 0, min_participants |-> 0,
     max_participants |-> 0, registration_duration |-> 0,
     matches_per_player |-> 0, accumulated_fees |-> 0,
     current_tournament_id |-> 0, reveal_duration |-> 0,
     operator_tx_fee |-> 0, lamports |-> 0]

\* A Tournament account that was never created, or was closed.
NoTournament ==
    [state |-> "Absent", stake |-> 0, house_fee_bps |-> 0,
     matches_per_player |-> 0, pool |-> 0, participant_count |-> 0,
     registration_ends |-> 0, matches_completed |-> 0, matches_total |-> 0,
     randomness_seed |-> NoSeed, min_winning_score |-> 0, winner_count |-> 0,
     winner_pool |-> 0, claims_processed |-> 0, payout_started_at |-> 0,
     entries_remaining |-> 0, reveal_ends |-> 0, reveal_duration |-> 0,
     reveals_completed |-> 0, players |-> << >>, scores |-> << >>,
     strategies |-> << >>, operator_costs |-> 0, lamports |-> 0]

\* A tournament opened under configuration c, at the current time.
NewTournament(c) ==
    [NoTournament EXCEPT
        !.state = "Registration",
        !.stake = c.stake,
        !.house_fee_bps = c.house_fee_bps,
        !.matches_per_player = c.matches_per_player,
        !.reveal_duration = c.reveal_duration,
        !.registration_ends = now + c.registration_duration,
        !.lamports = BaseRent]

\* An Entry account that does not exist.  paid_out is left out: claim_payout
\* closes the account in the transaction that sets it, so it is FALSE in every
\* open entry.
NoEntry ==
    [open |-> FALSE, index |-> 0, commitment |-> CHOOSE c \in Commitments : TRUE,
     strategy |-> 0, bytecode |-> NoBytecode, revealed |-> FALSE, score |-> 0,
     matches_played |-> 0]

-----------------------------------------------------------------------------
(***************************************************************************)
(* Rent (external: the Solana runtime)                                     *)
(***************************************************************************)
\* Rent::minimum_balance of a tournament account with n player slots.
MinBalance(n) == BaseRent + n * RentPerPlayer

\* The balance a tournament account may be left with by a transaction.
RentExempt(tr, lamports) == lamports >= MinBalance(Len(tr.players))

\* lamports().saturating_sub(min_balance)
Spendable(tr) == Greater(0, tr.lamports - MinBalance(Len(tr.players)))

Monus(a, b) == Greater(0, a - b)

(***************************************************************************)
(* Slots.  The vectors players, scores and strategies are indexed from 0   *)
(* by entry.index; slot i is element i + 1 of the sequence.                *)
(***************************************************************************)
Slots(tr) == 0..(Len(tr.players) - 1)
ActiveSlots(tr) == {i \in Slots(tr) : tr.players[i + 1] # NoPlayer}

\* SHA-256 (external) as a symbolic, injective constructor.
Sha256(preimage) == [digest |-> preimage]

Commitment(s) ==
    IF s.strategy = Custom
    THEN Sha256(<<Custom, Sha256(s.bytecode), s.salt>>)
    ELSE Sha256(<<s.strategy, s.salt>>)

-----------------------------------------------------------------------------
Init ==
    /\ now = 0
    /\ config = NoConfig
    /\ tournament = [t \in TournamentIds |-> NoTournament]
    /\ entry = [t \in TournamentIds |-> [p \in Players |-> NoEntry]]
    /\ wallet = [w \in Wallets |-> InitialWallet]

\* A deadline some account still waits for.
DeadlineAhead(tr) ==
    \/ tr.state = "Registration" /\ now < tr.registration_ends
    \/ tr.state = "Reveal" /\ now <= tr.reveal_ends
    \/ tr.state = "Payout" /\ now < tr.payout_started_at + Greater(ClaimExpiry, Closure)

\* The clock advances (external).  Bound of the model: past MaxTime it only
\* moves while a deadline lies ahead, so no deadline is cut off.
Tick ==
    /\ now < MaxTime \/ \E t \in TournamentIds : DeadlineAhead(tournament[t])
    /\ now' = now + 1
    /\ UNCHANGED <<config, tournament, entry, wallet>>

-----------------------------------------------------------------------------
(***************************************************************************)
(* Admin instructions                                                      *)
(***************************************************************************)
InitializeConfig(params) ==
    /\ ~config.initialized
    /\ params.min_participants >= 2 /\ params.min_participants % 2 = 0
    /\ params.stake > 0
    /\ params.max_participants >= params.min_participants
    /\ params.registration_duration > 0
    /\ params.matches_per_player > 0
    /\ params.reveal_duration > 0
    /\ wallet[Admin] >= ConfigRent + BaseRent
    /\ config' = [initialized |-> TRUE, operator |-> params.operator,
                  house_fee_bps |-> 0, stake |-> params.stake,
                  min_participants |-> params.min_participants,
                  max_participants |-> params.max_participants,
                  registration_duration |-> params.registration_duration,
                  matches_per_player |-> params.matches_per_player,
                  accumulated_fees |-> 0, current_tournament_id |-> 0,
                  reveal_duration |-> params.reveal_duration,
                  operator_tx_fee |-> 0, lamports |-> ConfigRent]
    /\ tournament' = [tournament EXCEPT ![0] = NewTournament(config')]
    /\ wallet' = [wallet EXCEPT ![Admin] = @ - ConfigRent - BaseRent]
    /\ UNCHANGED <<now, entry>>

\* The value of a field after an optional update.
Updated(option, current) ==
    IF option = {} THEN current ELSE CHOOSE x \in option : TRUE

UpdateConfig(params) ==
    LET min == Updated(params.min_participants, config.min_participants)
    IN  /\ config.initialized
        /\ \A fee \in params.house_fee_bps : fee <= 10000
        /\ \A s \in params.stake : s > 0
        /\ \A m \in params.min_participants : m >= 2 /\ m % 2 = 0
        /\ \A m \in params.max_participants : m >= min
        /\ \A d \in params.registration_duration : d > 0
        /\ \A k \in params.matches_per_player : k > 0
        /\ \A d \in params.reveal_duration : d > 0
        /\ \A fee \in params.operator_tx_fee : fee <= 100000000
        /\ config' = [config EXCEPT
              !.operator = Updated(params.operator, @),
              !.house_fee_bps = Updated(params.house_fee_bps, @),
              !.stake = Updated(params.stake, @),
              !.min_participants = min,
              !.max_participants = Updated(params.max_participants, @),
              !.registration_duration = Updated(params.registration_duration, @),
              !.matches_per_player = Updated(params.matches_per_player, @),
              !.reveal_duration = Updated(params.reveal_duration, @),
              !.operator_tx_fee = Updated(params.operator_tx_fee, @)]
        /\ UNCHANGED <<now, tournament, entry, wallet>>

WithdrawFees ==
    LET amount == Lesser(config.accumulated_fees, Monus(config.lamports, ConfigRent))
    IN  /\ config.accumulated_fees > 0
        /\ config' = [config EXCEPT !.accumulated_fees = @ - amount,
                                    !.lamports = @ - amount]
        /\ wallet' = [wallet EXCEPT ![Admin] = @ + amount]
        /\ UNCHANGED <<now, tournament, entry>>

-----------------------------------------------------------------------------
(***************************************************************************)
(* Player instructions                                                     *)
(***************************************************************************)
\* realloc grows the account by one slot at the player's expense, as far as
\* the lamports it already holds do not cover the larger rent minimum.
ReallocTopUp(tr) == Monus(MinBalance(Len(tr.players) + 1), tr.lamports)

\* Mutant: number the entry by the participants still active.
NextIndex_Active(tr) == tr.participant_count

\* The index of the next entry: the slot that is about to be pushed.
NextIndex(tr) == Len(tr.players)

\* A slot added for player p, with his stake.
Entered(tr, p) ==
    [tr EXCEPT !.players = Append(@, p),
               !.scores = Append(@, 0),
               !.strategies = Append(@, Unrevealed),
               !.participant_count = @ + 1,
               !.entries_remaining = @ + 1,
               !.pool = @ + tr.stake,
               !.lamports = @ + ReallocTopUp(tr) + tr.stake]

EnterTournament(p, t, commitment) ==
    LET tr == tournament[t]
    IN  /\ tr.state = "Registration"
        /\ ~entry[t][p].open
        /\ Len(tr.players) < config.max_participants
        /\ wallet[p] >= ReallocTopUp(tr) + EntryRent + tr.stake
        /\ entry' = [entry EXCEPT ![t][p] =
              [NoEntry EXCEPT !.open = TRUE, !.index = NextIndex(tr),
                              !.commitment = commitment]]
        /\ tournament' = [tournament EXCEPT ![t] = Entered(tr, p)]
        /\ wallet' = [wallet EXCEPT ![p] =
                          @ - ReallocTopUp(tr) - EntryRent - tr.stake]
        /\ UNCHANGED <<now, config>>

\* A slot given a strategy, by its player or by forfeit.
Revealed(tr, index, strategy) ==
    [tr EXCEPT !.strategies[index + 1] = strategy, !.reveals_completed = @ + 1]

RevealedEntry(en, secret) ==
    [en EXCEPT !.strategy = secret.strategy,
               !.bytecode = IF secret.strategy = Custom THEN secret.bytecode ELSE @,
               !.revealed = TRUE]

RevealStrategy(p, t, secret) ==
    LET tr == tournament[t]
        en == entry[t][p]
    IN  /\ en.open
        /\ tr.state = "Reveal"
        /\ now <= tr.reveal_ends
        /\ ~en.revealed
        /\ secret.strategy = Custom => secret.bytecode \in ValidBytecodes
        /\ Commitment(secret) = en.commitment
        /\ entry' = [entry EXCEPT ![t][p] = RevealedEntry(en, secret)]
        /\ tournament' = [tournament EXCEPT ![t] =
              Revealed(tr, en.index, secret.strategy)]
        /\ UNCHANGED <<now, config, wallet>>

\* Mutant: the account is not counted as closed.
Refunded_EntryKept(tr, index) ==
    [tr EXCEPT !.players[index + 1] = NoPlayer,
               !.strategies[index + 1] = Unrevealed,
               !.participant_count = @ - 1,
               !.pool = @ - tr.stake,
               !.lamports = @ - tr.stake]

\* Mutant: the pool still counts the refunded stake.
Refunded_PoolKept(tr, index) ==
    [tr EXCEPT !.players[index + 1] = NoPlayer,
               !.strategies[index + 1] = Unrevealed,
               !.participant_count = @ - 1,
               !.entries_remaining = @ - 1,
               !.lamports = @ - tr.stake]

\* Mutant: the stake is paid out and not debited.
Refunded_NotDebited(tr, index) ==
    [tr EXCEPT !.players[index + 1] = NoPlayer,
               !.strategies[index + 1] = Unrevealed,
               !.participant_count = @ - 1,
               !.entries_remaining = @ - 1,
               !.pool = @ - tr.stake]

\* Mutant: the key of the refunded player stays in its slot.
Refunded_KeyKept(tr, index) ==
    [tr EXCEPT !.strategies[index + 1] = Unrevealed,
               !.participant_count = @ - 1,
               !.entries_remaining = @ - 1,
               !.pool = @ - tr.stake,
               !.lamports = @ - tr.stake]

\* Slot index given back: the stake leaves the pool, the slot stays as a hole.
Refunded(tr, index) ==
    [tr EXCEPT !.players[index + 1] = NoPlayer,
               !.strategies[index + 1] = Unrevealed,
               !.participant_count = @ - 1,
               !.entries_remaining = @ - 1,
               !.pool = @ - tr.stake,
               !.lamports = @ - tr.stake]

ClaimRefund(p, t) ==
    LET tr == tournament[t]
        en == entry[t][p]
    IN  /\ en.open
        /\ tr.state = "Registration"
        /\ RentExempt(tr, tr.lamports - tr.stake)
        /\ tr.participant_count > 0 /\ tr.entries_remaining > 0 /\ tr.pool >= tr.stake
        /\ tournament' = [tournament EXCEPT ![t] = Refunded(tr, en.index)]
        /\ entry' = [entry EXCEPT ![t][p] = NoEntry]
        /\ wallet' = [wallet EXCEPT ![p] = @ + tr.stake + EntryRent]
        /\ UNCHANGED <<now, config>>

\* The equal share of a winner.
Share(tr) == tr.winner_pool \div tr.winner_count

Expired(tr) == now >= tr.payout_started_at + ClaimExpiry

\* Mutant: the payment is not counted.
Claimed_Uncounted(tr) ==
    [tr EXCEPT !.lamports = @ - Share(tr), !.entries_remaining = @ - 1]

\* Mutant: the share is also taken off the pool the shares are computed from.
Claimed_PoolReduced(tr) ==
    [tr EXCEPT !.lamports = @ - Share(tr),
               !.winner_pool = @ - Share(tr),
               !.claims_processed = @ + 1,
               !.entries_remaining = @ - 1]

\* The account after a winner's share has been paid.
Claimed(tr) ==
    [tr EXCEPT !.lamports = @ - Share(tr),
               !.claims_processed = @ + 1,
               !.entries_remaining = @ - 1]

ClaimPayout(p, t) ==
    LET tr == tournament[t]
        en == entry[t][p]
    IN  /\ en.open
        /\ tr.state = "Payout"
        /\ ~Expired(tr)
        /\ en.score >= tr.min_winning_score
        /\ tr.winner_count > 0
        /\ RentExempt(tr, tr.lamports - Share(tr))
        /\ tr.entries_remaining > 0
        /\ tournament' = [tournament EXCEPT ![t] = Claimed(tr)]
        /\ entry' = [entry EXCEPT ![t][p] = NoEntry]
        /\ wallet' = [wallet EXCEPT ![p] = @ + Share(tr) + EntryRent]
        /\ UNCHANGED <<now, config>>

-----------------------------------------------------------------------------
(***************************************************************************)
(* Tournament instructions.  All but CloseTournament are signed by         *)
(* config.operator.                                                        *)
(***************************************************************************)
\* Every operator transaction is charged at the fee configured at that time.
Charged(tr) == [tr EXCEPT !.operator_costs = @ + config.operator_tx_fee]

\* Mutant: more than the minimum is asked for.
QuorumReached_Strict(tr) == tr.participant_count > config.min_participants

QuorumReached(tr) == tr.participant_count >= config.min_participants

CloseRegistration(t) ==
    LET tr == tournament[t]
    IN  /\ tr.state = "Registration"
        /\ now >= tr.registration_ends
        /\ QuorumReached(tr)
        /\ tournament' = [tournament EXCEPT ![t] =
              [Charged(tr) EXCEPT !.state = "Reveal",
                                  !.reveal_ends = now + tr.reveal_duration]]
        /\ UNCHANGED <<now, config, entry, wallet>>

\* Mutant: the deadline itself already counts as passed.
RevealOver_AtDeadline(tr) == now >= tr.reveal_ends

RevealOver(tr) == now > tr.reveal_ends

\* Mutant: a power of two instead of the number of builtins.
ForfeitStrategy_Mod16(byte) == byte % 16

\* The strategy for a forfeited entry: slot_hashes[16 + index % 32] % 9.
ForfeitStrategy(byte) == byte % 9

ForfeitUnrevealed(t, p, byte) ==
    LET tr == tournament[t]
        en == entry[t][p]
    IN  /\ en.open
        /\ tr.state = "Reveal"
        /\ RevealOver(tr)
        /\ ~en.revealed
        /\ entry' = [entry EXCEPT ![t][p] =
              [en EXCEPT !.strategy = ForfeitStrategy(byte), !.revealed = TRUE]]
        /\ tournament' = [tournament EXCEPT ![t] =
              Revealed(Charged(tr), en.index, ForfeitStrategy(byte))]
        /\ UNCHANGED <<now, config, wallet>>

\* The tail of close_reveal: fix the seed, K and the number of matches, unless
\* nobody is left.
Started(tr, seed) ==
    IF tr.participant_count = 0
    THEN [tr EXCEPT !.state = "Running", !.matches_total = 0, !.matches_completed = 0]
    ELSE LET k == EffectiveK(tr.participant_count, tr.matches_per_player)
         IN  [tr EXCEPT !.state = "Running",
                        !.randomness_seed = seed,
                        !.matches_per_player = k,
                        !.matches_total = CalculateMatchCount(tr.participant_count, k)]

\* Mutant: unrevealed entries need not have been forfeited.
RevealClosable_Unprocessed(tr) ==
    /\ tr.state = "Reveal"
    /\ RevealOver(tr)

RevealClosable(tr) ==
    /\ tr.state = "Reveal"
    /\ RevealOver(tr)
    /\ tr.reveals_completed = tr.participant_count

CloseRevealEven(t, seed) ==
    /\ RevealClosable(tournament[t])
    /\ tournament[t].participant_count % 2 = 0
    /\ tournament' = [tournament EXCEPT ![t] = Started(Charged(@), seed)]
    /\ UNCHANGED <<now, config, entry, wallet>>

\* rposition of the last slot that is not a hole.
LastActive(tr) == {i \in ActiveSlots(tr) : \A j \in ActiveSlots(tr) : j <= i}

\* The last registrant, whose entry counted as revealed, given back his slot.
LastRefunded(tr, last) ==
    [Refunded(tr, last) EXCEPT !.reveals_completed = @ - 1]

\* With an odd count the last registrant is refunded.  The entry account passed
\* as refund_entry is checked for its player and its index only, so it may
\* belong to another tournament r.
CloseRevealOdd(t, seed, r) ==
    LET tr == tournament[t]
    IN  /\ RevealClosable(tr)
        /\ tr.participant_count % 2 = 1
        /\ \E last \in LastActive(tr) :
            LET p == tr.players[last + 1]
            IN  /\ entry[r][p].open /\ entry[r][p].index = last
                /\ RentExempt(tr, tr.lamports - tr.stake)
                /\ tournament' = [tournament EXCEPT ![t] =
                      Started(LastRefunded(Charged(tr), last), seed)]
                /\ entry' = [entry EXCEPT ![r][p] = NoEntry]
                /\ wallet' = [wallet EXCEPT ![p] = @ + tr.stake + EntryRent]
        /\ UNCHANGED <<now, config>>

CloseReveal(t) ==
    \E seed \in Seeds :
        \/ CloseRevealEven(t, seed)
        \/ \E r \in (IF ForeignRefund THEN TournamentIds ELSE {t}) :
               CloseRevealOdd(t, seed, r)

(***************************************************************************)
(* run_matches: a batch of up to MatchesPerTx matches.  b carries the      *)
(* tournament and its entries through the loop.                            *)
(***************************************************************************)
PairingOption(tr, m) ==
    PairingOf(tr.participant_count, tr.matches_per_player, tr.randomness_seed, m)

Skipped(tr, pair) ==
    \/ tr.players[pair[1] + 1] = NoPlayer
    \/ tr.players[pair[2] + 1] = NoPlayer

\* get_tournament_pairings_filtered: the frontend, which reads the account but
\* not the keys, drops a pair when one of its strategy bytes is u8::MAX.
Replayed(tr, pair) ==
    \A i \in {pair[1], pair[2]} : i \in Slots(tr) /\ tr.strategies[i + 1] # Unrevealed

\* find_entry_account and the index check.
EntryFound(t, i) ==
    LET en == entry[t][tournament[t].players[i + 1]]
    IN  en.open /\ en.index = i

Playable(t, m) ==
    LET tr == tournament[t]
    IN  /\ PairingOption(tr, m) # {}
        /\ \A pair \in PairingOption(tr, m) :
              /\ pair[1] \in Slots(tr) /\ pair[2] \in Slots(tr)
              /\ ~Skipped(tr, pair) =>
                     EntryFound(t, pair[1]) /\ EntryFound(t, pair[2])

\* The result x of a match, for slot i of the scores and for player p's entry.
AddScore(scores, i, x) == [scores EXCEPT ![i + 1] = @ + x]

AfterMatch(en, x) == [en EXCEPT !.score = @ + x, !.matches_played = @ + 1]

AddResult(en, p, x) == [en EXCEPT ![p] = AfterMatch(@, x)]

PlayMatch(b, score) ==
    LET tr   == b.tr
        pair == CHOOSE x \in PairingOption(tr, tr.matches_completed) : TRUE
        done == [tr EXCEPT !.matches_completed = @ + 1]
        pa   == tr.players[pair[1] + 1]
        pb   == tr.players[pair[2] + 1]
    IN  IF Skipped(tr, pair) THEN [tr |-> done, en |-> b.en]
        ELSE [tr |-> [done EXCEPT !.scores = AddScore(AddScore(@, pair[1], score[1]),
                                                      pair[2], score[2])],
              en |-> AddResult(AddResult(b.en, pa, score[1]), pb, score[2])]

\* The loop, unrolled to its five iterations.
Played(b, j, score) == IF j \in DOMAIN score THEN PlayMatch(b, score[j]) ELSE b

PlayBatch(b, score) ==
    Played(Played(Played(Played(Played(b, 1, score), 2, score), 3, score),
                  4, score), 5, score)

\* With no match left the instruction returns without an effect: a stutter.
RunMatches(t) ==
    LET tr == tournament[t]
        matches_to_run == Lesser(MatchesPerTx, tr.matches_total - tr.matches_completed)
    IN  /\ tr.state = "Running"
        /\ matches_to_run > 0
        /\ \A i \in ActiveSlots(tr) : tr.strategies[i + 1] # Unrevealed
        /\ \A j \in 1..matches_to_run : Playable(t, tr.matches_completed + j - 1)
        /\ \E score \in [1..matches_to_run -> MatchScores] :
              LET b == PlayBatch([tr |-> Charged(tr), en |-> entry[t]], score)
              IN  /\ tournament' = [tournament EXCEPT ![t] = b.tr]
                  /\ entry' = [entry EXCEPT ![t] = b.en]
        /\ UNCHANGED <<now, config, wallet>>

(***************************************************************************)
(* finalize_tournament                                                     *)
(***************************************************************************)
Reaching(tr, score) == {i \in ActiveSlots(tr) : tr.scores[i + 1] >= score}

\* Mutant: element target_winners, one rank too low.
WinningThreshold_NextRank(tr) ==
    LET target == Greater(1, CeilDiv(tr.participant_count, 4)) + 1
    IN  {x \in {tr.scores[i + 1] : i \in ActiveSlots(tr)} :
            /\ Cardinality(Reaching(tr, x)) >= target
            /\ Cardinality(Reaching(tr, x + 1)) < target}

\* Element target_winners - 1 of the active scores sorted in descending order:
\* target_winners slots reach it and fewer exceed it.
WinningThreshold(tr) ==
    LET target == Greater(1, CeilDiv(tr.participant_count, 4))
    IN  IF tr.participant_count = 0 THEN {0}
        ELSE {x \in {tr.scores[i + 1] : i \in ActiveSlots(tr)} :
                 /\ Cardinality(Reaching(tr, x)) >= target
                 /\ Cardinality(Reaching(tr, x + 1)) < target}

\* This transaction, one close_entry per open entry and one close_tournament.
FinalCosts(tr) ==
    tr.operator_costs + config.operator_tx_fee
        + (tr.entries_remaining + 1) * config.operator_tx_fee

\* Mutant: the operator's costs are paid but not taken off the winners' pool.
Settlement_CostsOnTop(tr, threshold) ==
    LET winners    == Cardinality(Reaching(tr, threshold))
        house_fee  == (tr.pool * tr.house_fee_bps) \div 10000
        raw        == Lesser(Monus(tr.pool, house_fee), Spendable(tr))
        per_winner == raw \div winners
        fee_total  == house_fee + (raw - per_winner * winners)
    IN  [winners |-> winners, winner_pool |-> per_winner * winners,
         fees |-> fee_total,
         reimbursed |-> Lesser(FinalCosts(tr),
             Spendable([tr EXCEPT !.lamports = @ - fee_total]))]

\* Who gets what: with nobody left the operator first, the rest to the fees;
\* otherwise house fee and dust to the fees, the operator's costs, and equal
\* shares for all slots at or above the threshold.
Settlement(tr, threshold) ==
    LET costs == FinalCosts(tr)
    IN  IF tr.participant_count = 0
        THEN LET paid == Lesser(costs, Spendable(tr))
             IN  [winners |-> 0, winner_pool |-> 0,
                  fees |-> Spendable(tr) - paid, reimbursed |-> paid]
        ELSE LET winners    == Cardinality(Reaching(tr, threshold))
                 house_fee  == (tr.pool * tr.house_fee_bps) \div 10000
                 raw        == Lesser(Monus(Monus(tr.pool, house_fee), costs),
                                      Spendable(tr))
                 per_winner == raw \div winners
                 fee_total  == house_fee + (raw - per_winner * winners)
             IN  [winners |-> winners, winner_pool |-> per_winner * winners,
                  fees |-> fee_total,
                  reimbursed |-> Lesser(costs,
                      Spendable([tr EXCEPT !.lamports = @ - fee_total]))]

\* Mutant: the state is not advanced.
Finalized_StillRunning(tr, threshold) ==
    LET s == Settlement(tr, threshold)
    IN  [tr EXCEPT !.min_winning_score = threshold,
                   !.winner_count = s.winners,
                   !.winner_pool = s.winner_pool,
                   !.payout_started_at = now,
                   !.lamports = @ - s.fees - s.reimbursed]

Finalized(tr, threshold) ==
    LET s == Settlement(tr, threshold)
    IN  [tr EXCEPT !.state = "Payout",
                   !.operator_costs = FinalCosts(tr),
                   !.min_winning_score = threshold,
                   !.winner_count = s.winners,
                   !.winner_pool = s.winner_pool,
                   !.payout_started_at = now,
                   !.lamports = @ - s.fees - s.reimbursed]

\* Mutant: the lamports arrive and accumulated_fees does not grow.
Collected_Unrecorded(c, amount) == [c EXCEPT !.lamports = @ + amount]

\* The Config account after lamports were moved to it as fees.
Collected(c, amount) ==
    [c EXCEPT !.accumulated_fees = @ + amount, !.lamports = @ + amount]

FinalizeTournament(t) ==
    LET tr   == tournament[t]
        next == config.current_tournament_id + 1
    IN  /\ next <= MaxTournamentId
        /\ tr.state = "Running"
        /\ tr.matches_completed >= tr.matches_total
        /\ wallet[config.operator] >= BaseRent
        /\ \E threshold \in WinningThreshold(tr) :
            LET s == Settlement(tr, threshold)
            IN  /\ RentExempt(tr, tr.lamports - s.fees - s.reimbursed)
                /\ tournament' = [tournament EXCEPT
                      ![t] = Finalized(tr, threshold),
                      ![next] = NewTournament(config)]
                /\ config' = [Collected(config, s.fees) EXCEPT
                                  !.current_tournament_id = next]
                /\ wallet' = [wallet EXCEPT ![config.operator] =
                                  @ - BaseRent + s.reimbursed]
        /\ UNCHANGED <<now, entry>>

(***************************************************************************)
(* close_entry and close_tournament                                        *)
(***************************************************************************)
IsWinner(tr, en) == tr.winner_count > 0 /\ en.score >= tr.min_winning_score

\* What close_entry pays out: nothing for a loser, else the share as far as the
\* account can bear it.
ClosingTransfer(tr, en) ==
    IF IsWinner(tr, en) THEN Lesser(Share(tr), Spendable(tr)) ELSE 0

EntryClosed(tr, en) ==
    [tr EXCEPT !.lamports = @ - ClosingTransfer(tr, en),
               !.claims_processed =
                   IF IsWinner(tr, en) /\ ~Expired(tr) THEN @ + 1 ELSE @,
               !.entries_remaining = @ - 1]

CloseEntry(t, p) ==
    LET tr       == tournament[t]
        en       == entry[t][p]
        transfer == ClosingTransfer(tr, en)
        toFees   == IF Expired(tr) THEN transfer ELSE 0
    IN  /\ en.open
        /\ tr.state = "Payout"
        /\ tr.entries_remaining > 0
        /\ tournament' = [tournament EXCEPT ![t] = EntryClosed(tr, en)]
        /\ entry' = [entry EXCEPT ![t][p] = NoEntry]
        /\ config' = Collected(config, toFees)
        /\ wallet' = [wallet EXCEPT ![p] = @ + (transfer - toFees) + EntryRent]
        /\ UNCHANGED now

\* Mutant: open entries do not hold up the closure.
Closable_EntriesOpen(tr) ==
    /\ tr.state = "Payout"
    /\ \/ now >= tr.payout_started_at + Closure
       \/ tr.claims_processed >= tr.winner_count

\* Mutant: only paid winners release the account, not time.
Closable_NoTimeout(tr) ==
    /\ tr.state = "Payout"
    /\ tr.claims_processed >= tr.winner_count
    /\ tr.entries_remaining = 0

Closable(tr) ==
    /\ tr.state = "Payout"
    /\ \/ now >= tr.payout_started_at + Closure
       \/ tr.claims_processed >= tr.winner_count
    /\ tr.entries_remaining = 0

\* Signed by the operator or the admin.
CloseTournament(t) ==
    /\ Closable(tournament[t])
    /\ config' = Collected(config, tournament[t].lamports)
    /\ tournament' = [tournament EXCEPT ![t] = NoTournament]
    /\ UNCHANGED <<now, entry, wallet>>

-----------------------------------------------------------------------------
Next ==
    \/ Tick
    \/ \E params \in InitParams : InitializeConfig(params)
    \/ \E params \in ConfigUpdates : UpdateConfig(params)
    \/ WithdrawFees
    \/ \E t \in TournamentIds :
        \/ \E p \in Players :
            \/ \E commitment \in Commitments : EnterTournament(p, t, commitment)
            \/ \E secret \in Secrets : RevealStrategy(p, t, secret)
            \/ ClaimRefund(p, t)
            \/ ClaimPayout(p, t)
            \/ \E byte \in SlotBytes : ForfeitUnrevealed(t, p, byte)
            \/ CloseEntry(t, p)
        \/ CloseRegistration(t)
        \/ CloseReveal(t)
        \/ RunMatches(t)
        \/ FinalizeTournament(t)
        \/ CloseTournament(t)

Spec == Init /\ [][Next]_vars

=============================================================================
