----------------------------- MODULE ArenaProps -----------------------------
(***************************************************************************)
(* What the accounts of the program promise: the type invariant, the       *)
(* safety invariants, action properties and liveness of Arena.             *)
(***************************************************************************)
EXTENDS Arena, Functions

Live == {"Registration", "Reveal", "Running"}

OpenEntries(t) == {p \in Players : entry[t][p].open}

\* Entries that will still receive, or forfeit to the fees, a winner's share.
OpenWinners(t) ==
    {p \in OpenEntries(t) : entry[t][p].score >= tournament[t].min_winning_score}

-----------------------------------------------------------------------------
ConfigType ==
    [initialized : BOOLEAN, operator : Operators, house_fee_bps : Nat,
     stake : Nat, min_participants : Nat, max_participants : 0..U16Max,
     registration_duration : Nat, matches_per_player : Nat,
     accumulated_fees : Nat, current_tournament_id : TournamentIds,
     reveal_duration : Nat, operator_tx_fee : Nat, lamports : Nat]

TournamentType ==
    [state : States, stake : Nat, house_fee_bps : Nat, matches_per_player : Nat,
     pool : Nat, participant_count : Nat, registration_ends : Nat,
     matches_completed : Nat, matches_total : Nat,
     randomness_seed : Seeds \cup {NoSeed}, min_winning_score : Nat,
     winner_count : Nat, winner_pool : Nat, claims_processed : Nat,
     payout_started_at : Nat, entries_remaining : Nat, reveal_ends : Nat,
     reveal_duration : Nat, reveals_completed : Nat,
     players : Seq(Players \cup {NoPlayer}), scores : Seq(Nat),
     strategies : Seq(0..Custom \cup {Unrevealed}), operator_costs : Nat,
     lamports : Nat]

EntryType ==
    [open : BOOLEAN, index : Nat, commitment : Commitments, strategy : 0..Custom,
     bytecode : ValidBytecodes \cup {NoBytecode}, revealed : BOOLEAN,
     score : Nat, matches_played : Nat]

\* The accounts hold values of their fields' types; in particular no u64 or
\* u32 field ever goes below zero, although several subtractions
\* (close_reveal, the lamport transfers) are not checked in the code.
TypeOK ==
    /\ now \in Nat
    /\ config \in ConfigType
    /\ tournament \in [TournamentIds -> TournamentType]
    /\ entry \in [TournamentIds -> [Players -> EntryType]]
    /\ wallet \in [Wallets -> Nat]

-----------------------------------------------------------------------------
(***************************************************************************)
(* Accounts that describe the same thing agree                             *)
(***************************************************************************)
\* Only the tournament config.current_tournament_id is before its payout;
\* earlier ones are in payout or closed, later ones do not exist.
OneLiveTournament ==
    \A t \in TournamentIds :
        /\ t < config.current_tournament_id => tournament[t].state \in {"Payout", "Absent"}
        /\ t > config.current_tournament_id => tournament[t].state = "Absent"
        /\ config.initialized /\ t = config.current_tournament_id
               => tournament[t].state \in Live

\* The three vectors of a tournament and its Entry accounts describe the same
\* players: an open entry owns slot `index`, with the score and strategy of that
\* slot, and until payout every slot that is not a hole has an open entry.
SlotsMatchEntries ==
    \A t \in TournamentIds :
        LET tr == tournament[t]
        IN  /\ Len(tr.scores) = Len(tr.players) /\ Len(tr.strategies) = Len(tr.players)
            /\ \A p \in OpenEntries(t) :
                  LET en == entry[t][p]
                  IN  /\ en.index \in Slots(tr)
                      /\ tr.players[en.index + 1] = p
                      /\ tr.scores[en.index + 1] = en.score
                      /\ tr.strategies[en.index + 1] =
                             IF en.revealed THEN en.strategy ELSE Unrevealed
            /\ tr.state \in Live => \A i \in ActiveSlots(tr) : EntryFound(t, i)

\* The counters the phase changes are decided on count what their names say:
\* participant_count the slots that are not holes, entries_remaining the open
\* entries, reveals_completed the entries with a strategy; the pool is the
\* stakes of the participants.
CountersMatch ==
    \A t \in TournamentIds :
        LET tr == tournament[t]
        IN  /\ tr.entries_remaining = Cardinality(OpenEntries(t))
            /\ tr.pool = tr.participant_count * tr.stake
            /\ tr.participant_count = Cardinality(ActiveSlots(tr))
            /\ tr.state \in Live =>
                  tr.reveals_completed =
                      Cardinality({p \in OpenEntries(t) : entry[t][p].revealed})

\* Closing a tournament never leaves an entry behind whose rent and prize could
\* no longer be claimed.
NoOrphanEntries ==
    \A t \in TournamentIds : tournament[t].state = "Absent" => OpenEntries(t) = {}

\* A tournament past registration keeps at least two participants, and one that
\* runs has an even number of them, all with a strategy: the branches of
\* close_reveal and finalize_tournament for zero participants are never taken.
RunningReady ==
    \A t \in TournamentIds :
        LET tr == tournament[t]
        IN  /\ tr.state \in {"Reveal", "Running"} => tr.participant_count >= 2
            /\ tr.state = "Running" =>
                  /\ tr.participant_count % 2 = 0
                  /\ tr.matches_total > 0
                  /\ tr.matches_completed <= tr.matches_total
                  /\ \A i \in ActiveSlots(tr) : tr.strategies[i + 1] # Unrevealed

\* A replay in the frontend shows what was played: wasm.rs drops a match of the
\* schedule by the strategy bytes exactly where run_matches skips it by the
\* players' keys.
ReplayShowsPlayed ==
    \A t \in TournamentIds :
        LET tr == tournament[t]
        IN  tr.state \in {"Running", "Payout"} =>
                \A m \in 0..(tr.matches_total - 1) : \A pair \in PairingOption(tr, m) :
                    Replayed(tr, pair) <=> ~Skipped(tr, pair)

-----------------------------------------------------------------------------
(***************************************************************************)
(* Strategies                                                              *)
(***************************************************************************)
\* secret opens the commitment of entry en and is what en plays.
Opens(secret, en) ==
    /\ Commitment(secret) = en.commitment
    /\ secret.strategy = en.strategy
    /\ secret.strategy = Custom => secret.bytecode = en.bytecode

\* Until the reveal deadline has passed, only a player's own reveal gives his
\* entry a strategy, and it is the committed one; a custom program, which runs
\* with the entry's bytecode, comes from a reveal at any time.
RevealBinding ==
    \A t \in TournamentIds : \A p \in OpenEntries(t) :
        LET en == entry[t][p]
        IN  /\ en.revealed
            /\ \/ en.strategy = Custom
               \/ tournament[t].state = "Reveal" /\ now <= tournament[t].reveal_ends
            => /\ \E secret \in Secrets : Opens(secret, en)
               /\ en.strategy = Custom => en.bytecode \in ValidBytecodes

-----------------------------------------------------------------------------
(***************************************************************************)
(* Lamports                                                                *)
(***************************************************************************)
\* The fees withdraw_fees may pay out are in the Config account, on top of its
\* own rent: nothing else may touch that balance.  (Lamports somebody sends to the
\* account without an instruction of the program are not modelled; they would come
\* on top.)
FeesBacked ==
    config.initialized => config.lamports = ConfigRent + config.accumulated_fees

\* Until finalization an account holds the stakes of its participants on top of
\* the base rent, never less than its rent minimum and never more than stakes
\* and rent together.  The slots' own rent is not held in addition to the
\* stakes: realloc collects it only as far as the stakes do not cover it.  (The
\* upper bound leaves lamports aside that are sent to the account directly.)
StakesHeld ==
    \A t \in TournamentIds :
        LET tr == tournament[t]
        IN  tr.state \in Live =>
                /\ tr.lamports >= BaseRent + tr.pool
                /\ tr.lamports >= MinBalance(Len(tr.players))
                /\ tr.lamports <= MinBalance(Len(tr.players)) + tr.pool

\* In payout the account stays rent exempt, and what open winners are still due
\* exceeds what it can pay by no more than the rent of its slots.
ShortfallBounded ==
    \A t \in TournamentIds :
        LET tr  == tournament[t]
            due == Cardinality(OpenWinners(t)) * Share(tr)
        IN  tr.state = "Payout" =>
                /\ tr.lamports >= MinBalance(Len(tr.players))
                /\ due <= Spendable(tr) + Len(tr.players) * RentPerPlayer

\* A winner is counted once: claims processed plus winners still open is the
\* number of winners, until shares expire to the fees uncounted.
WinnersAccounted ==
    \A t \in TournamentIds :
        LET tr      == tournament[t]
            counted == tr.claims_processed + Cardinality(OpenWinners(t))
        IN  tr.state = "Payout" =>
                /\ tr.winner_count >= 1
                /\ counted <= tr.winner_count
                /\ ~Expired(tr) => counted = tr.winner_count

\* The lamports of a tournament: its own account and the rent of its entries.
Held == [t \in TournamentIds |->
            tournament[t].lamports + EntryRent * Cardinality(OpenEntries(t))]

Holdings == config.lamports + SumFunction(Held) + SumFunction(wallet)

\* Every instruction moves lamports without creating or losing any; the runtime
\* would refuse one that did not.
LamportsConserved == Holdings = InitialWallet * Cardinality(Wallets)

-----------------------------------------------------------------------------
(***************************************************************************)
(* Action properties                                                       *)
(***************************************************************************)
\* The settlement of finalize_tournament gives fees, operator and winners
\* together no more than the stakes in the pool.
SettlementWithinPool ==
    [][\A t \in TournamentIds :
          tournament[t].state = "Running" /\ tournament'[t].state = "Payout" =>
              (config'.accumulated_fees - config.accumulated_fees)
                  + (wallet'[config.operator] - (wallet[config.operator] - BaseRent))
                  + tournament'[t].winner_pool
              <= tournament[t].pool]_vars

\* The result is final: during payout neither scores nor the threshold nor the
\* share change, whoever is paid first and whatever the admin configures.
ResultFinal ==
    [][\A t \in TournamentIds :
          tournament[t].state = "Payout" /\ tournament'[t].state # "Absent" =>
              /\ tournament'[t].state = "Payout"
              /\ tournament'[t].scores = tournament[t].scores
              /\ tournament'[t].min_winning_score = tournament[t].min_winning_score
              /\ Share(tournament'[t]) = Share(tournament[t])]_vars

-----------------------------------------------------------------------------
(***************************************************************************)
(* Refinement.  A tournament's members are the owners of its open entries; *)
(* a tournament that no longer exists is done, one that does not exist yet *)
(* is unused.                                                              *)
(***************************************************************************)
EscrowPhase(t) ==
    CASE tournament[t].state = "Registration" -> "Open"
      [] tournament[t].state = "Reveal"       -> "Locked"
      [] tournament[t].state = "Running"      -> "Playing"
      [] tournament[t].state = "Payout"       -> "Settled"
      [] tournament[t].state = "Absent"       ->
            IF t < config.current_tournament_id THEN "Done" ELSE "Unused"

Promise ==
    INSTANCE Escrow WITH
        Ids     <- TournamentIds,
        Members <- Players,
        phase   <- [t \in TournamentIds |-> EscrowPhase(t)],
        members <- [t \in TournamentIds |-> OpenEntries(t)],
        score   <- [t \in TournamentIds |-> [p \in Players |-> entry[t][p].score]],
        winners <- [t \in TournamentIds |->
                      IF tournament[t].state = "Payout" THEN OpenWinners(t) ELSE {}]

\* The program keeps the promise of Escrow: whatever the order of transactions,
\* nobody joins or leaves between the close of registration and the settlement
\* but the one player an odd field sends away, exactly the top quarter by score
\* (ties included) wins, everyone leaves once, and a tournament is closed only
\* when all have left.
KeepsEscrow == Promise!Spec

-----------------------------------------------------------------------------
(***************************************************************************)
(* Liveness.  The operator is a bot that keeps sending the transactions    *)
(* the tournaments wait for, and time passes; players and the admin may do *)
(* nothing at all.                                                         *)
(***************************************************************************)
OperatorFairness ==
    \A t \in TournamentIds :
        /\ WF_vars(CloseRegistration(t))
        /\ WF_vars(CloseReveal(t))
        /\ WF_vars(RunMatches(t))
        /\ WF_vars(FinalizeTournament(t))
        /\ WF_vars(CloseTournament(t))
        /\ \A p \in Players :
              /\ WF_vars(\E byte \in SlotBytes : ForfeitUnrevealed(t, p, byte))
              /\ WF_vars(CloseEntry(t, p))

FairSpec == Spec /\ OperatorFairness /\ WF_vars(Tick)

\* A tournament that has enough players when its deadline passes is started,
\* unless players leave again.
QuorumStarts ==
    \A t \in TournamentIds :
        tournament[t].state = "Registration"
            /\ tournament[t].participant_count >= config.min_participants
        ~> \/ tournament[t].state # "Registration"
           \/ tournament[t].participant_count < config.min_participants

\* A tournament that left registration is played, settled, and closed, with or
\* without the help of its players.  (The last id of the model is left out:
\* finalize_tournament would have to create one more.)
TournamentCompletes ==
    \A t \in 0..(MaxTournamentId - 1) :
        tournament[t].state = "Reveal" ~> tournament[t].state = "Absent"

-----------------------------------------------------------------------------
(***************************************************************************)
(* What comments and documents say of the program and the code does not    *)
(* keep (each is refuted by a run of its own).                             *)
(***************************************************************************)
\* README: winners claim their share of the prize pool.  While claims are open
\* the account can pay every open winner's share.
SharesBacked ==
    \A t \in TournamentIds :
        LET tr == tournament[t]
        IN  tr.state = "Payout" /\ ~Expired(tr) =>
                Cardinality(OpenWinners(t)) * Share(tr) <= Spendable(tr)

\* lib.rs: a refund can be claimed during registration.  No entrant is refused
\* by the runtime.
RefundAvailable ==
    \A t \in TournamentIds :
        LET tr == tournament[t]
        IN  tr.state = "Registration" /\ OpenEntries(t) # {} =>
                RentExempt(tr, tr.lamports - tr.stake)

\* pairing.rs: each participant plays exactly K matches.
EveryonePlaysK ==
    \A t \in TournamentIds :
        LET tr == tournament[t]
        IN  tr.state = "Running" /\ tr.matches_completed = tr.matches_total =>
                \A p \in OpenEntries(t) :
                    entry[t][p].matches_played = tr.matches_per_player

=============================================================================
