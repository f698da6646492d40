# Prisoner's Arena in TLA+

This directory models the Solana program `prisoners-arena` and the crate
`match-logic` (pairing, matches, strategies, bytecode machine), checks them with TLC on small instances
and proves what is checked, except liveness, with TLAPS for every instance.

## 1. The system

| Part | Source | State | Operations |
|---|---|---|---|
| Config and admin | `instructions/admin.rs`, `state.rs` | one `Config` account: operator, fee rates, limits, `accumulated_fees`, `current_tournament_id`, lamports | `initialize_config`, `update_config`, `withdraw_fees` |
| Players | `instructions/player.rs` | one `Entry` account per player and tournament: slot index, commitment, strategy, score | `enter_tournament`, `reveal_strategy`, `claim_refund`, `claim_payout` |
| Tournament lifecycle | `instructions/tournament.rs` | one `Tournament` account per id: phase, pool, counters, the vectors `players`, `scores`, `strategies`, lamports | `close_registration`, `forfeit_unrevealed`, `close_reveal`, `run_matches`, `finalize_tournament`, `close_entry`, `close_tournament` |
| Pairing | `match-logic/pairing.rs` | none | `effective_k`, match counts, `get_pairing_for_match`, `generate_all_pairings` |
| Random numbers | `match-logic/random.rs` | a 64-bit word | xorshift64* |
| Match engine, strategies | `match-logic/game.rs`, `strategy.rs`, `lib.rs` | histories and totals of one match | `determine_round_count`, `run_match`, nine builtin strategies, `payoff` |
| Virtual machine | `match-logic/vm.rs` | stack, pc, fuel; pc and terminal flag of the validator | `validate_bytecode`, `execute_bytecode` |
| Bindings | `match-logic/wasm.rs` | none | filtered schedule and replay of unvalidated programs for the frontend; otherwise marshalling |

The parts interact through accounts: every instruction is one atomic transaction
over some of them, sent by a player, the operator or the admin in any order. A
failed `require!`, a checked-arithmetic error or a refusal of the runtime reverts
the transaction. The same facts are stored twice in several places (the
score of a slot in the tournament and in the entry, the number of open entries in
a counter, the stakes in `pool` and in the lamport balance), and the phase changes
are decided on those copies.

What is hard to test here, each listed with its line in `PROJECT.json` under
`hazards`:

* slots of refunded players stay in the vectors as holes, while the counters and
  the schedule only count active players;
* several subtractions are unchecked and would wrap in a release build;
* the rent minimum of the account grows with every slot, and is paid from the
  stakes when they suffice, so rent and stakes compete for the same lamports;
* claims, operator closures and expiry compete for the same share;
* a tournament starts while earlier ones are still in payout, on one Config whose
  values may change at any time;
* a refusal by the runtime that no later transaction lifts stops a tournament;
* the validator of custom programs and their interpreter decode the same bytes
  independently, with separate limits on length, stack and fuel;
* moves of a round are simultaneous only by the order of two calls and two
  pushes; random streams are told apart by a u8;
* the frontend recomputes the schedule from other fields than the program.

What makes each part correct:

* *Config*: fees are backed by lamports; exactly one tournament is before payout.
* *Players*: an entry and its slot describe the same player; what is played was
  committed to; a participant's stake is held until settlement.
* *Lifecycle*: counters count what they name; a running tournament is playable;
  settlement stays within the pool; a winner is paid or forfeits once; nothing is
  closed over an open entry; an operator alone can bring every tournament to its
  end.
* *Pairing*: every index names one match, no rematches in a cycle, equal load.
* *Virtual machine*: what was validated is what is executed; limits suffice.
* *Matches*: scores count defections, nobody sees a move early, strategies and
  the programs that imitate them do what they are described to do.

## 2. Modules

| Module | Models | Notes |
|---|---|---|
| `Pairing` | `pairing.rs` as operators | An `Option` is a set with at most one element. A seed is what is drawn from it: six round functions and a sequence of draws, both arbitrary. Recursion is by recursive functions. |
| `PairingGen` | `generate_all_pairings` | One match index per step, over all n, K and seeds of the instance. |
| `PairingProofs` | | Theorems: the permutation is a bijection, no rematches, equal load. Extends `PairingGen`. |
| `Arena` | the program | One action per instruction, plus the clock. |
| `ArenaProps` | | Type invariant, invariants, action properties, liveness, and the refuted statements. |
| `ArenaProofs` | | Theorems: types, fees, custody of the stakes. |
| `LifecycleProofs` | | Theorems: phases, settlement, commitments. Extends `ArenaProofs`. |
| `CoherenceProofs` | | Theorems: slots, entries and counters agree. Extends `LifecycleProofs`. |
| `PayoutProofs` | | Theorems: winners and shares, the lamports of all accounts, and that `Arena` implements `Escrow`. Extends `CoherenceProofs`. |
| `Escrow` | what the program promises its players | Abstract: phase, members, scores and winners of a tournament. `ArenaProps!KeepsEscrow` says that `Arena` implements it. |
| `Bytecode` | the interpreter of `vm.rs` as operators, `payoff` | One step of the loop, and a whole execution as a recursive function of the machine. All 25 opcodes and the real limits. |
| `BytecodeProofs` | | Theorems: every execution ends, the parity programs play as the builtins do, except Pavlov's. Extends `Strategies`. |
| `Vm` | validation and execution of one program | One instruction per step. History variables: the offsets the validator decoded, the targets of jumps taken. |
| `VmProofs` | | Theorems: fuel, decoding, registers. Extends `Vm` and `BytecodeProofs`. |
| `Strategies` | `strategy.rs` | Builtins as functions of two histories and the first draw; the programs of the parity tests. |
| `Match` | `game.rs` | One pass of the counting loop or one round per step. |
| `MatchProofs` | | Theorems: rounds, scores, streams, strategies and programs; and those about `SeededRng`. Extends `BytecodeProofs`. |
| `SeededRng` | the state transition of `random.rs` | 64-bit words as sets of bits; operators only, no state machine. |
| `MCPairing`, `MCArena`, `MCVm`, `MCMatch` | | Constants for TLC. |

`Arena` in detail. Variables: `now` (the Clock sysvar), `config`, `tournament`
(id to account), `entry` (id and player to account), `wallet` (lamports of
players, operators and admin). An account that does not exist has state
`"Absent"` or `open = FALSE`. Amounts are exact lamports. Each action has the
handler's conditions as guards, in the order of the code, and the complete effect
of the transaction, including the rent that Anchor's `init`, `realloc` and
`close` move. Operators such as `Entered`, `Refunded`, `Revealed`, `Started`,
`Finalized` and `EntryClosed` are the updates of a Tournament account; they
carry the lemmas of the proofs.

Abstractions:

* SHA-256 is an injective constructor; a secret is a strategy, a salt and a
  bytecode; `validate_bytecode` is membership in `ValidBytecodes`.
* The result of `run_match` is any element of `MatchScores`; the seed is any
  element of `Seeds` (slot hash and tournament id are mixed in the code).
* `close_reveal` is two actions, for an even and an odd count. Its
  `refund_entry` is checked for player and index but not for its tournament:
  with `ForeignRefund = TRUE` it may be another tournament's entry.
* The five iterations of `run_matches` are unrolled; a call with no match left
  changes nothing and is a stutter.
* Left out: `round_tier`, `created_at`, `registration_duration` of a tournament
  (never read again), PDA bumps, padding, `paid_out` (the transaction that sets
  it closes the account). Overflow of u64 sums is not modelled: they are
  checked in the code or bounded by the supply of lamports.
* Plain transfers of lamports to an account of the program, without one of its
  instructions, are not modelled. With them `FeesBacked` would be a lower bound,
  the upper bound of `StakesHeld` would not hold, and a refusal by the rent check
  (runs `refund`, `shares`, `fullfee`) could be lifted by a donation.
* External, modelled from their use: the clock, the rent check, SHA-256,
  `min`/`max`/`div_ceil`/`saturating_sub`.

`Replayed` is the filter of `get_tournament_pairings_filtered` in `wasm.rs`, next
to `Skipped` of `run_matches`, which it has to agree with.

The refinement mapping to `Escrow`: members are the owners of open entries, a
score is the score of the entry, the phase is the tournament's state, where an
account that does not exist is unused or done depending on
`current_tournament_id`, and the winners are the open entries at or above the
threshold during payout. Clock, counters, fees, lamports and the vectors are
invisible in `Escrow`, so instructions that only touch them are stutters. With
`ForeignRefund = TRUE` the refinement does not hold (run `foreign`).

`Vm` in detail. `scan` is the validator (`CheckLength`, `ScanInstruction`,
`ScanEnd`), `machine` the interpreter (`ExecuteInstruction`). Any program is
executed after its validation, also a rejected one, because `replay_match` does
not validate. `halt` names the check that failed; the code returns `None` for all
of them and cooperates. Fuel and stack are not updated by the step that halts,
since nothing reads them afterwards. Random draws are a sequence, repeated.

`Match` in detail. `run_match` draws the round count (`CountRound`, `CountEnds`)
and plays (`PlayRound`, `Finish`). The two `RoundConfig`s are constants, because
the real ones (20 to 50 and 10 to 30 rounds) are too long for TLC; their
assumption (`max_rounds <= 128`, so that `round * 2 + 1` is a u8) holds for the
real values. The vector of `RoundResult`s is the two histories and the totals
after each round, and is left out. `Arena` uses the result of `run_match` as any
element of `MatchScores`.

Bounds of the model: `MaxTournamentId` (no finalization that would create a
later one), and `MaxTime`: past it the clock only moves while some account waits
for a deadline, so deadlines are never cut off. In all instances durations are 1
and `MaxTime` is 0, so that every comparison with a deadline is made just
before, at and just after it.

## 3. Runs

Amounts in the instances keep their order: stake 100, rent 50 + 10 per slot, 20
for an entry, 30 for Config, operator fee 7, house fee 1000 bps. Deadlock checking
is off: a tournament without a quorum, and the last id of the model, may wait
for ever.

| Run | Instance | Shows |
|---|---|---|
| `tournament` | 3 players, 2 to 3 per tournament, no fees, wallets for one stake each, `FairSpec` | `TypeOK`, `SlotsMatchEntries`, `CountersMatch`, `RunningReady`, `StakesHeld`, `ReplayShowsPlayed`, the refinement `KeepsEscrow`, and `QuorumStarts` and `TournamentCompletes`. Covers leaving and re-entering (holes), an odd field whose last registrant is refunded, forfeits, and a second tournament. |
| `payout` | 4 players, a transaction fee that is raised at any moment (the first tournament has no house fee), 6 matches, so two batches, ties and one to four winners | `ShortfallBounded`, `WinnersAccounted`, `ResultFinal` over every order of claims, closures and expiry. |
| `succession` | 2 players, 3 tournament ids, 2 operators; builtin, valid and invalid custom secrets | `OneLiveTournament`, `NoOrphanEntries`, `FeesBacked`, `LamportsConserved` while tournaments overlap, `RevealBinding`, and `SettlementWithinPool`: the second tournament is settled with a 10% fee, operator costs and dust. |
| `pairing` | n and K up to 8; all 4096 choices of round functions where there are two to four matches, eight families elsewhere | `NoRematch`, `EqualLoad`: round robin, several cycles, circular mode with even and odd n, and the boundary n = K + 1. |
| `vm` | all programs of up to 3 bytes, 4 and 5 bytes over jumps, immediates and terminals, programs that saturate, fill the stack, and have 63 to 65 bytes or 127 to 129 instructions; first and third round | `TypeOK`, `FuelSuffices`, `DecodedAsValidated`, `FallsOffByJumping`. |
| `match` | nine builtins and three custom programs against each other, both tiers at the boundary of 1000, 4 to 6 and 2 to 5 rounds | `TypeOK`, `GapCountsDefections`, `TitForTatKeepsUp`, `NiceNeverFirst`, `GradualForgives`, `OtherProgramsMatch`, `StreamsIndependent`. |

Three players are the fewest with an odd field, a hole before an active slot and
a re-entry; four are the fewest with more than one batch of matches. With up to
four the top quarter is one rank; two ranks need five participants, which no run
has and only the proofs cover (`EscrowIsKept`, `WinnersAreAccounted`). Two
overlapping tournaments already share Config in every way three do; the third id
lets the second one be finalized. Three bytes are enough for a jump over or into
every instruction, five for a jump behind a condition. Random against Random
reaches every pair of histories of up to six rounds; six rounds are enough for
Gradual to answer two defections with three.

The remaining runs expect a violation, and each refutes a sentence of the
repository (quoted under `findings` in `PROJECT.json`):

| Run | Refutes | What happens |
|---|---|---|
| `shares` | winners claim their share | The rent of the slots was taken from the stakes; the shares are computed from the pool; the last claim is refused by the rent check. `close_entry` pays what is left instead. `ShortfallBounded` limits the gap to the rent of the slots. |
| `refund` | a refund can be claimed during registration | The refunded slot keeps its rent and the account would fall below the minimum. |
| `holes` | each participant plays K matches | The schedule is over `participant_count` indices, the vector contains a hole: a match against the hole is skipped and the last player never plays. |
| `fullfee` | `house_fee_bps` ranges to 10000 | The fee leaves less than the rent minimum: `finalize_tournament` fails as long as nobody sends lamports to the account. |
| `foreign` | `entries_remaining` counts open entries | `close_reveal` with the same player's entry of an earlier tournament. |
| `parity` | `test_parity_pavlov`: "If bad outcome: return NOT(MY_LAST)" (`vm.rs:916`) | Both jumps of the program land on its `NOT` with an empty stack, so it cooperates after every bad outcome. The test, where each only meets itself, cannot notice. `OtherProgramsMatch` is the same statement for the other six programs, where it holds. |

More disagreements were met while modelling. One is stated by a property of a
passing run: `pairing.rs:26` says that each participant plays exactly K matches,
and `EqualLoad` that it is K + 1 for odd K in circular mode, as `test_odd_k_handled`
expects (hence `total_matches` of `get_matchmaking_stats`, n K / 2, is too small
there). The others can be
read off one line: `BytecodeError::NoTerminal` is described as "no reachable
terminal instruction" (`vm.rs:67`) while any occurrence is accepted;
`get_tournament_pairings_filtered` returns pairs without their match index, which
`replay_match` needs; `TournamentFull` counts holes (`player.rs:62`) while
`error.rs:43` speaks of participants; `operator_tx_fee` is read live
(`tournament.rs:52`) while the repository's README says that fees are captured at
creation; `update_config` accepts a minimum above the maximum (`admin.rs:188`),
which `initialize_config` rejects.

Every property of a passing run has a mutant: an operator named
after the definition it replaces, such as `Refunded_KeyKept`, that changes one definition the way a slip in the
code would. With it TLC finds the property violated.

### Fairness

`FairSpec` assumes that time passes and that the operator's instructions are
each weakly fair. The operator is an automated service that polls accounts and
sends whatever is due; an instruction that stays possible is eventually sent. No
fairness is assumed of players or of the admin: they may do nothing, and
`close_entry` and `forfeit_unrevealed` exist for that case.
`TournamentCompletes` is checked without fees (run `tournament`) and fails under the
same fairness with a 100% fee (run `fullfee`), so it does depend on the code. It
does not hold for every lower fee either: with the amounts of the instances, two
players and 20 holes leave the account exactly at its rent minimum of 270, and a
10% fee of 20 is refused in the same way. No run has that many slots.

## 4. Proofs

Every invariant and action property of section 3 is also a theorem; only liveness
is left to TLC. The theorems hold for any finite sets of players and operators, any
stakes, fee rates, rents and durations, any pairing function, any match results,
any programs and any number of tournaments, players and rounds.

Some facts are about recursive functions and sums, and need induction. The provers
do not instantiate the library's induction rules, which have an operator as
parameter; `SetInduction` and `NumberInduction` state them for a *set* of numbers
instead and follow from `WFMin` and `NatLessThanWellFounded`. That a recursive
function exists, and so has the equation it is written with, is shown by giving
one (lemmas `Iteration` and `RunExists`).

### Arena

Assumptions: `ActorsAssumption`, `ArgumentsAssumption` and `AmountsAssumption` of
`Arena`; TLC evaluates them in every run. `PairingAssumption` (a match below the
match count is a pair of distinct participant indices) is used once, by
`ReplayIsFaithful`. `EveryMatchHasAPair`, below, proves it of the real algorithm.

`~ForeignRefund` is a hypothesis of six theorems: that `close_reveal` is given an
entry of its own tournament, which the code does not check. Run `foreign` shows a
violation of `CountersMatch` without it. The other theorems hold for both values.

| Theorem | Property | Module | Hypothesis |
|---|---|---|---|
| `TypeCorrect` | `TypeOK` | `ArenaProofs` | |
| `FeesAreBacked` | `FeesBacked` | `ArenaProofs` | |
| `StakesAreHeld` | `StakesHeld` | `ArenaProofs` | |
| `OneTournamentLives` | `OneLiveTournament` | `LifecycleProofs` | |
| `ResultIsFinal` | `ResultFinal` | `LifecycleProofs` | |
| `SettlementIsCovered` | `SettlementWithinPool` | `LifecycleProofs` | |
| `RevealsBind` | `RevealBinding` | `LifecycleProofs` | |
| `RunningIsReady` | `RunningReady` | `CoherenceProofs` | |
| `ReplayIsFaithful` | `ReplayShowsPlayed` | `CoherenceProofs` | |
| `SlotsAreEntries` | `SlotsMatchEntries` | `CoherenceProofs` | `~ForeignRefund` |
| `CountersCount` | `CountersMatch` | `CoherenceProofs` | `~ForeignRefund` |
| `NobodyIsOrphaned` | `NoOrphanEntries` | `CoherenceProofs` | `~ForeignRefund` |
| `WinnersAreAccounted` | `WinnersAccounted` | `PayoutProofs` | `~ForeignRefund` |
| `ShortfallIsBounded` | `ShortfallBounded` | `PayoutProofs` | `~ForeignRefund` |
| `LamportsAreConserved` | `LamportsConserved` | `PayoutProofs` | |
| `EscrowIsKept` | `KeepsEscrow` | `PayoutProofs` | `~ForeignRefund` |

The inductive invariants, each resting on the ones before it:

* `IInv`. `TypeOK` is not inductive: `close_reveal` subtracts from
  `participant_count`, `pool`, `entries_remaining` and the lamports without a
  check, and they stay natural only because of how they are related. `Custody`
  states the relation for every tournament before payout: the pool is the
  participants' stakes, there are at least as many open entries as participants,
  the lamports cover base rent plus pool, and at least the rent minimum, and at
  most minimum plus pool. `Sound` adds that `scores` is as long as `players`,
  without which the threshold taken from `scores` need not be a number.
  `entries_remaining >= participant_count` is weaker than the equality TLC
  checks, and that is what makes the theorem hold for `ForeignRefund = TRUE` too.
* `LifeInv`: one live tournament; nothing exists before `initialize_config`
  (otherwise `OneLiveTournament` says nothing of the first one); fee rates are at
  most 10000 bps and the minimum at least two, which the admin's checks let
  through and every tournament inherits. The fee is therefore at most the pool.
* `BindingInv`: `RevealBinding`, and that nothing is revealed during registration
  and nobody has entered a tournament that does not exist yet. Without these an
  entry could reach the reveal phase with a strategy nobody committed to.
* `CohInv`. `Filled` and `Phased` speak of the Tournament account alone: vectors
  of equal length, participants are the active slots, holes have no strategy, a
  schedule the pairing is defined for. `Linked` ties it to its Entry accounts:
  every open entry owns its slot, every active slot of a live tournament is an
  open entry's, and both counters are cardinalities. With `ForeignRefund` it
  is claimed until the reveal phase ends only; that is what `RunningReady` needs,
  which therefore has no hypothesis.
* `PayInv`: claims processed plus open winners, the rent minimum, and what the
  winners are due. The settlement establishes it: `Linked` gives a bijection
  between the slots at or above the threshold, which `finalize_tournament`
  counts, and the entries `claim_payout` and `close_entry` look at.
* `Vacant`: accounts that do not exist hold no lamports, so that a step that
  creates one changes the sum by what it deposits.
* `ScoreInv`: closed entries, and entries of tournaments without matches yet,
  have no score, as `Escrow` needs for somebody who leaves and enters again.

Argument: each update of a Tournament account (`EnteredSound`, `RefundedSound`,
`RevealedSound`, `StartedSound`, `PlayBatchKeeps`, `FinalizedSound`,
`ClaimedSound`, `EntryClosedSound`, and the field lemmas of `LifecycleProofs`)
keeps it sound; one lemma per instruction lifts this to the state, together with
the Config account, the entries and the wallets. `PlayBatchKeeps` needs no fact
about pairings, because an update at an index outside a vector changes nothing.
`ThresholdReached` shows that the number of winners is not zero when shares are
computed.

The ledger: `Holdings` is the Config account, the sum of `Held` (what the accounts
of a tournament hold) over the tournaments and the sum of the wallets. A step
changes at most the Config, two tournaments (`finalize_tournament` creates the
next one, `close_reveal` may be given a foreign entry) and one wallet. `Moved` says
that the holdings stay if these changes cancel; it rests on the fact that changing
one summand changes a sum by as much. One lemma per instruction adds up what it
moves: stake, rent of the account, of its new slot and of the entry, fees, refunds,
shares and what is left when an account is closed. Nothing is needed of the
counters, so the theorem holds with `ForeignRefund` too.

The refinement: one lemma per step of `Escrow` says which change of the mapped
variables is that step (`EscrowDeposit`, `EscrowLock`, `EscrowSettle`, ...), one
per instruction that it makes this change (`EnterEscrow`, `LockEscrow`,
`SettleEscrow`, ...) or none. The hard step is the settlement. The program sorts
the scores and takes the one at the quarter as threshold; `Escrow` says that the
winners are those with fewer than a quarter of the field ahead of them.
`WinsByRank` shows that these are the same players, ties included.

### Pairing

`SeedsAssumption` says that a seed provides a number wherever one is drawn; TLC
evaluates it in run `pairing`. For any numbers, that is any six round functions
and any draws:

* `PassIsInjective`: a pass of the Feistel network maps the square of `half * half`
  values into itself, no two to the same. Every round adds to one half a number
  that depends on the other half only, and can be undone.
* `PermuteIsBijective`: `feistel_permute` is a bijection of the match indices, if
  fewer values of the square lie outside the domain than the walk has passes
  (`WithinLimit`). Following an injective map from inside the domain, the walk
  cannot repeat a value before it is back inside, so at worst it visits every
  outside value once; and two walks that end in the same value, traced back, began
  in the same one.
* `UnrankPair` inverts the ranking of pairs: lemmas on Newton's method
  (`FloorSqrt`) and on the two correction loops. In circular mode the sampled
  offsets are different and at most half of n, so `CanonicalToPairCircular` names
  different pairs for different indices.
* `NobodyMeetsAgain`: `Spec => []NoRematch`, and `EverybodyPlaysTheSame`:
  `Spec => []EqualLoad`. The inductive invariant `PairingsInOrder` says that the
  schedule so far lists the pair of each match index. The bijection takes the
  indices where a pair occurs to the canonical indices of that pair, one per cycle;
  for the load, it takes the matches of a player to the canonical indices that
  name the player, and these are counted: all opponents per cycle, or two per offset.

Both have the hypothesis `Covered`: the schedules of the instance are `Feasible`,
that is within the walk's limit and with at most 50 offsets. `TournamentsAreFeasible`
shows that `close_reveal` starts only such schedules for up to 5000 participants,
because `effective_k` lies between 49 and 99 for more than 200. That is exactly as
far as the argument reaches: 5000 participants with K = 99 play 250000 = 500 * 500
matches; with one match more, 1000 values are outside and the walk has 1000
passes. 5000 is also the value of `MAX_PARTICIPANTS` (`state.rs:26`), but
nothing in the program enforces that constant: `max_participants` is any u16.
`EveryMatchHasAPair` is the consequence that `run_matches` relies on.

### Virtual machine

Assumptions: `ProgramsAssumption` and, for the registers,
`EnvironmentsAssumption`. For any programs and any observations:

* `FuelNeverExhausted`: `Spec => []FuelSuffices`. The inductive invariant `FuelInv`
  adds that the machine has executed at most as many instructions as it has
  advanced bytes (`Forward`), and that only programs of at most 64 bytes are
  scanned or accepted. `NextPcForward` is the reason: an instruction that does not
  fail moves forward, a jump included, because its operand was found and is a u8.
* `ExecutedAsValidated`: `Spec => []DecodedAsValidated`, and `OnlyJumpsFallOff`:
  `Spec => []FallsOffByJumping`. `DecodeInv` adds to `FuelInv` what the scan has
  established (`ScanInv`): every offset it has passed holds a known opcode with
  its immediate inside the program, the offset behind the instruction is the next
  one it passed or has come to, the byte of an immediate is none of them, and a
  terminal was seen if the flag says so. It also says that in a straight line no
  terminal has been passed (`Straight`): a machine at the end would have passed
  all instructions, the terminal one included.
* `RegistersStayTyped`: `Spec => []TypeOK`, for rejected programs too. `ValueIsByte`
  goes through the instructions that push; `ContinuedStack` uses the checks for
  underflow and overflow made before.
* `EveryExecutionEnds`: a whole execution (`ExecuteInner`, used by `Match`) of any
  bytes ends with a move or a failure. Every pass of the loop keeps the types and
  uses fuel, so that the result is defined by induction on the fuel left.

### Matches

Assumptions: `MatchAssumption` and `RoundConfigAssumption`. For any strategies,
custom programs included, any length and any draws: `MatchStaysTyped` (`TypeOK`),
`GapIsDefections` (`GapCountsDefections`), `TitForTatIsNeverAhead`
(`TitForTatKeepsUp`), `NiceStaysNice` (`NiceNeverFirst`), `GradualIsBounded`
(`GradualForgives`), `StreamsStayIndependent` (`StreamsIndependent`) and
`ProgramsPlayAsBuiltins` (`OtherProgramsMatch`).

`RoundInv` adds to the types that both histories have one move per round, that
no more rounds are played than were drawn, and that the arguments of `for_round`
so far are exactly 0 to 2 * Round - 1. The properties of strategies are inductive
together with it; each is proved for one seat, whatever the opponent plays
(`KeepsUpRound`, `NeverFirstRound`, `ForgivesRound`), and used for both. Pavlov
defects after its own defection, so `NiceMove` needs the induction hypothesis
there; `StillBounded` carries Gradual's bound over a round without retaliation.
That a custom program makes a move needs nothing of its execution:
`execute_bytecode` turns everything else into a Cooperate. What the programs of the
parity tests do needs more: one rule per instruction they use (`ObserveRule`,
`PushRule`, `BinaryRule`, `JumpRule`, `ReturnRule`, ...) says what an execution
ends with if it does so from the next machine, and `ParityOutcomes` applies them
along every path of every program, for histories of any length that fits the u8
round number. `ParityProgramsPlayAsBuiltins` is the result for the other six
programs, and `PavlovsProgramDiffers` says exactly where Pavlov's fails.

### Random numbers

`MatchProofs` proves about the 64-bit words of `SeededRng` that `next_u64` is injective
(`NextStateInjective`), does not reach the absorbing state zero from elsewhere
(`StateNeverZero`) and that `for_round` separates different mixed-in words
(`RoundsDiffer`). Two words that differ in bit b and agree after `x ^ (x >> k)`
differ in bit b + k too; after six such steps the bit is beyond 63. Zero itself
can be a seed: all-zero seed bytes and match index 0, as in the example of the
repository's README, give state 0 ^ 1 ^ 2 ^ 3 = 0, and every draw is 0. That
multiples of the odd constant in `for_round` differ for different rounds is
arithmetic on 64-bit products and not proved.

### Only model-checked

* Liveness (`QuorumStarts`, `TournamentCompletes`): needs fairness and `ENABLED`.

## 5. Not modelled, and the plan

Modelled: all instructions of the program, pairing, matches, strategies and the
bytecode machine. Proved: all safety properties of the runs. Left to do: that the
words `for_round` mixes in differ for different rounds, as said above, and a bound
on the walk for more than 5000 participants, where it depends on the hash.

Not modelled:

* `random.rs`: `SeededRng::new` and the outputs. The users of the generator are
  modelled for arbitrary draws, which covers every output.
* `expected_rounds` and `get_matchmaking_stats`: floating point, for display.
* The rest of `wasm.rs` and `describe_strategy`: JSON and texts.
* Account addresses and signatures: the runtime enforces them; actions are
  written for the signer the code requires. Log messages.
