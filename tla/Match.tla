------------------------------- MODULE Match --------------------------------
(***************************************************************************)
(* run_match of game.rs: the round count is drawn, then the rounds are     *)
(* played.  The generator's output is arbitrary: a percentage per pass of  *)
(* the counting loop, and an arbitrary stream of them for each call of     *)
(* for_round.                                                              *)
(***************************************************************************)
EXTENDS Strategies

CONSTANTS
    Competitors,            \* the strategies that meet
    ParticipantCounts,      \* sizes of the tournament
    Percents,               \* outcomes of next_percent while counting
    Streams,                \* sequences of percentages, per round and player
    Standard, Compressed    \* RoundConfig::standard() and ::compressed()

RoundConfig == [min_rounds : Byte, max_rounds : Byte, end_probability : 0..100]

ASSUME MatchAssumption ==
    /\ Competitors \subseteq PlayerStrategy
    /\ ParticipantCounts \subseteq Nat
    /\ Percents \subseteq 0..99
    /\ Streams \subseteq Seq(0..99) \ {<< >>}

\* The two configurations keep round * 2 + 1 within a u8.
ASSUME RoundConfigAssumption ==
    \A c \in {Standard, Compressed} :
        c \in RoundConfig /\ c.min_rounds <= c.max_rounds /\ c.max_rounds <= 128

VARIABLES
    phase,                   \* "Counting", "Playing" or "Done"
    strategy_a, strategy_b,
    round_config, round_count,
    history_a, history_b, total_a, total_b,
    streams                  \* history: arguments for_round was called with

vars == <<phase, strategy_a, strategy_b, round_config, round_count,
          history_a, history_b, total_a, total_b, streams>>

ConfigFor(participant_count) ==
    IF participant_count <= 1000 THEN Standard ELSE Compressed

Init ==
    /\ phase = "Counting"
    /\ strategy_a \in Competitors /\ strategy_b \in Competitors
    /\ \E n \in ParticipantCounts : round_config = ConfigFor(n)
    /\ round_count = round_config.min_rounds
    /\ history_a = << >> /\ history_b = << >>
    /\ total_a = 0 /\ total_b = 0
    /\ streams = {}

MayContinue_OneMore == round_count <= round_config.max_rounds

\* The loop condition of determine_round_count.
MayContinue == round_count < round_config.max_rounds

CountRound ==
    /\ phase = "Counting"
    /\ MayContinue
    /\ \E percent \in Percents :
          IF percent < round_config.end_probability
          THEN phase' = "Playing" /\ UNCHANGED round_count
          ELSE round_count' = round_count + 1 /\ UNCHANGED phase
    /\ UNCHANGED <<strategy_a, strategy_b, round_config, history_a, history_b,
                   total_a, total_b, streams>>

CountEnds ==
    /\ phase = "Counting"
    /\ ~MayContinue
    /\ phase' = "Playing"
    /\ UNCHANGED <<strategy_a, strategy_b, round_config, round_count, history_a,
                   history_b, total_a, total_b, streams>>

Round == Len(history_a)

StreamsOf_Consecutive(round) == <<round, round + 1>>

\* The u8 arguments of for_round for the two players.
StreamsOf(round) == <<(round * 2) % 256, (round * 2 + 1) % 256>>

SeenByB_CurrentMove(move_a) == Append(history_a, move_a)

\* What b knows of a when it moves: the moves of earlier rounds.
SeenByB(move_a) == history_a

PlayRound ==
    /\ phase = "Playing"
    /\ Round < round_count
    /\ \E draws_a, draws_b \in Streams :
          LET move_a == ExecutePlayerStrategy(strategy_a, history_b, history_a,
                                              Round, draws_a)
              move_b == ExecutePlayerStrategy(strategy_b, SeenByB(move_a), history_b,
                                              Round, draws_b)
          IN  /\ total_a' = total_a + Payoff(move_a, move_b)[1]
              /\ total_b' = total_b + Payoff(move_a, move_b)[2]
              /\ history_a' = Append(history_a, move_a)
              /\ history_b' = Append(history_b, move_b)
    /\ streams' = streams \cup {StreamsOf(Round)[1], StreamsOf(Round)[2]}
    /\ UNCHANGED <<phase, strategy_a, strategy_b, round_config, round_count>>

Finish ==
    /\ phase = "Playing"
    /\ Round = round_count
    /\ phase' = "Done"
    /\ UNCHANGED <<strategy_a, strategy_b, round_config, round_count, history_a,
                   history_b, total_a, total_b, streams>>

Next == CountRound \/ CountEnds \/ PlayRound \/ Finish

Spec == Init /\ [][Next]_vars

-----------------------------------------------------------------------------
\* The match from the seat of a and from the seat of b.
Seats ==
    {[base |-> strategy_a.base, my |-> history_a, opp |-> history_b,
      gap |-> total_b - total_a],
     [base |-> strategy_b.base, my |-> history_b, opp |-> history_a,
      gap |-> total_a - total_b]}

\* The state has its types, and the number of rounds stays in the interval of
\* its configuration.
TypeOK ==
    /\ phase \in {"Counting", "Playing", "Done"}
    /\ strategy_a \in Competitors /\ strategy_b \in Competitors
    /\ round_config \in {Standard, Compressed}
    /\ round_count \in round_config.min_rounds..round_config.max_rounds
    /\ history_a \in Seq(Moves) /\ history_b \in Seq(Moves)
    /\ total_a \in Nat /\ total_b \in Nat
    /\ streams \subseteq Byte

\* Only the number of defections separates two totals: after any number of
\* rounds the scores differ by five for each defection one side has more.
GapCountsDefections ==
    total_a - total_b = 5 * (Defections(history_a) - Defections(history_b))

\* Tit for tat never beats its opponent and loses at most one defection to it,
\* from either seat: it is behind by five after a round in which the opponent
\* defected, and level otherwise.  This needs both moves of a round to be made
\* before either is known.
TitForTatKeepsUp ==
    \A s \in Seats : s.base = "TitForTat" =>
        s.gap = IF LastMove(s.opp) = "Defect" THEN 5 ELSE 0

Nice == {"TitForTat", "AlwaysCooperate", "GrimTrigger", "Pavlov", "TitForTwoTats",
         "Gradual"}

\* The nice strategies are never the first to defect: a defection of theirs
\* follows one of the opponent in an earlier round.
NiceNeverFirst ==
    \A s \in Seats : s.base \in Nice =>
        \A i \in DOMAIN s.my : s.my[i] = "Defect" =>
            \E j \in 1..(i - 1) : s.opp[j] = "Defect"

\* Gradual retaliates N(N+1)/2 times for N defections, never more: the bound is
\* over what the opponent did before the last round.
GradualForgives ==
    \A s \in Seats : s.base = "Gradual" =>
        \A i \in DOMAIN s.my :
            LET theirs == Defections(SubSeq(s.opp, 1, i - 1))
            IN  2 * Defections(SubSeq(s.my, 1, i)) <= theirs * (theirs + 1)

\* The program of vm.rs's parity test for a builtin plays as it does, on the history
\* of the match seen from either seat.
PlaysAsBuiltin(base) ==
    \A s \in Seats :
        ExecuteBytecode(ParityProgram[base],
            [opp |-> s.opp, my |-> s.my, round |-> Len(s.my), draws |-> <<0>>])
          = ExecuteStrategy(base, s.opp, s.my, <<0>>)

\* Parity as the tests of vm.rs state it for every program.  It does not hold:
\* Pavlov's jump for a bad outcome lands behind the MY_LAST it aims at, on a NOT
\* with an empty stack, so the program cooperates where Pavlov defects.  The test
\* only lets equals meet, and two Pavlovs never have a bad outcome.
ProgramsMatchBuiltins == \A base \in DOMAIN ParityProgram : PlaysAsBuiltin(base)

\* Parity of the other six programs, on histories against every opponent, which the
\* tests, where a program only meets itself, do not produce.
OtherProgramsMatch ==
    \A base \in DOMAIN ParityProgram \ {"Pavlov"} : PlaysAsBuiltin(base)

\* Every player draws from a generator of his own in every round: no argument of
\* for_round is used twice in a match.
StreamsIndependent == Cardinality(streams) = 2 * Round

=============================================================================
