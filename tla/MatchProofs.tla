---------------------------- MODULE MatchProofs -----------------------------
(***************************************************************************)
(* Proofs about Match: what a match of any length between any two players  *)
(* promises.                                                               *)
(***************************************************************************)
EXTENDS Match, SeededRng, BytecodeProofs

(***************************************************************************)
(* Histories                                                               *)
(***************************************************************************)
LEMMA AppendDefection ==
    ASSUME NEW h \in Seq(Moves), NEW v \in Moves
    PROVE  /\ Append(h, v) \in Seq(Moves) /\ Len(Append(h, v)) = Len(h) + 1
           /\ DOMAIN Append(h, v) = DOMAIN h \cup {Len(h) + 1}
           /\ \A i \in DOMAIN h : Append(h, v)[i] = h[i]
           /\ Append(h, v)[Len(h) + 1] = v
           /\ LastMove(Append(h, v)) = v
           /\ Len(h) + 1 \notin DOMAIN h
<1>1. Append(h, v) \in Seq(Moves) /\ Len(Append(h, v)) = Len(h) + 1 /\ Len(h) \in Nat
  OBVIOUS
<1>2. DOMAIN h = 1..Len(h) /\ DOMAIN Append(h, v) = 1..(Len(h) + 1)
  BY <1>1
<1>3. DOMAIN Append(h, v) = DOMAIN h \cup {Len(h) + 1} /\ Len(h) + 1 \notin DOMAIN h
  BY <1>1, <1>2
<1>4. (\A i \in DOMAIN h : Append(h, v)[i] = h[i]) /\ Append(h, v)[Len(h) + 1] = v
  BY <1>1, <1>2
<1>5. Append(h, v) # << >>
  BY <1>1
<1>6. LastMove(Append(h, v)) = v
  BY <1>1, <1>4, <1>5 DEF LastMove
<1> QED
  BY <1>1, <1>3, <1>4, <1>6

DefectionsIn(h) == {i \in DOMAIN h : h[i] = "Defect"}

LEMMA DefectionsFinite ==
    ASSUME NEW h \in Seq(Moves)
    PROVE  IsFiniteSet(DefectionsIn(h)) /\ Defections(h) \in Nat
<1>1. DOMAIN h = 1..Len(h) /\ Len(h) \in Nat
  OBVIOUS
<1>2. IsFiniteSet(DOMAIN h)
  BY <1>1, FS_Interval
<1>3. IsFiniteSet(DefectionsIn(h))
  BY <1>2, FS_Subset DEF DefectionsIn
<1> QED
  BY <1>3, FS_CardinalityType DEF Defections, DefectionsIn

\* One move more is one defection more, or none.
LEMMA DefectionsAppend ==
    ASSUME NEW h \in Seq(Moves), NEW v \in Moves
    PROVE  Defections(Append(h, v)) = Defections(h) + MoveToU8(v)
<1> DEFINE g == Append(h, v)
           n == Len(h) + 1
<1>1. /\ DOMAIN g = DOMAIN h \cup {n} /\ n \notin DOMAIN h
      /\ \A i \in DOMAIN h : g[i] = h[i]
      /\ g[n] = v
  BY AppendDefection
<1>2. IsFiniteSet(DefectionsIn(h)) /\ Defections(h) \in Nat
  BY DefectionsFinite
<1> HIDE DEF g, n
<1>3. CASE v = "Defect"
  <2>1. DefectionsIn(g) = DefectionsIn(h) \cup {n} /\ n \notin DefectionsIn(h)
    BY <1>1, <1>3 DEF DefectionsIn
  <2>2. Cardinality(DefectionsIn(g)) = Cardinality(DefectionsIn(h)) + 1
    BY <1>2, <2>1, FS_AddElement
  <2> QED
    BY <1>3, <2>2 DEF Defections, DefectionsIn, MoveToU8, g
<1>4. CASE v # "Defect"
  <2>1. DefectionsIn(g) = DefectionsIn(h)
    BY <1>1, <1>4 DEF DefectionsIn
  <2>2. Defections(g) = Defections(h)
    BY <2>1 DEF Defections, DefectionsIn
  <2>3. MoveToU8(v) = 0
    BY <1>4 DEF MoveToU8
  <2> QED
    BY <1>2, <2>2, <2>3 DEF g
<1> QED
  BY <1>3, <1>4

LEMMA DefectionsEmpty == Defections(<< >>) = 0 /\ LastMove(<< >>) = "Cooperate"
<1>1. DefectionsIn(<< >>) = {}
  BY DEF DefectionsIn
<1> QED
  BY <1>1, FS_EmptySet DEF Defections, DefectionsIn, LastMove

\* Somebody who has defected has done so in some round.
LEMMA DefectionsWitness ==
    ASSUME NEW h \in Seq(Moves), Defections(h) # 0
    PROVE  \E j \in 1..Len(h) : h[j] = "Defect"
<1>1. DefectionsIn(h) # {}
  BY FS_EmptySet DEF Defections, DefectionsIn
<1>2. DOMAIN h = 1..Len(h)
  OBVIOUS
<1> QED
  BY <1>1, <1>2 DEF DefectionsIn

LEMMA LastMoveIs ==
    ASSUME NEW h \in Seq(Moves)
    PROVE  /\ LastMove(h) \in Moves
           /\ h # << >> => Len(h) \in 1..Len(h) /\ LastMove(h) = h[Len(h)]
           /\ LastMove(h) = "Defect" => h # << >>
BY DEF LastMove, Moves

-----------------------------------------------------------------------------
(***************************************************************************)
(* Moves                                                                   *)
(***************************************************************************)
\* Payoff: the two points differ by five for a defection on one side only.
LEMMA PayoffGap ==
    ASSUME NEW a \in Moves, NEW b \in Moves
    PROVE  /\ Payoff(a, b)[1] \in Nat /\ Payoff(a, b)[2] \in Nat
           /\ Payoff(a, b)[1] - Payoff(a, b)[2] = 5 * (MoveToU8(a) - MoveToU8(b))
<1>1. CASE a = "Cooperate" /\ b = "Cooperate"
  BY <1>1 DEF Payoff, MoveToU8
<1>2. CASE a = "Cooperate" /\ b = "Defect"
  BY <1>2 DEF Payoff, MoveToU8
<1>3. CASE a = "Defect" /\ b = "Cooperate"
  BY <1>3 DEF Payoff, MoveToU8
<1>4. CASE a = "Defect" /\ b = "Defect"
  BY <1>4 DEF Payoff, MoveToU8
<1> QED
  BY <1>1, <1>2, <1>3, <1>4 DEF Moves

LEMMA DefectIfIsMove == ASSUME NEW test PROVE DefectIf(test) \in Moves
BY DEF DefectIf, Moves

\* Every strategy makes a move, whatever it observes.
LEMMA MoveIsMove ==
    ASSUME NEW s \in PlayerStrategy, NEW opp \in Seq(Moves), NEW my \in Seq(Moves),
           NEW round, NEW draws
    PROVE  ExecutePlayerStrategy(s, opp, my, round, draws) \in Moves
<1>1. CASE s.base = "Custom"
  BY <1>1 DEF ExecutePlayerStrategy, ExecuteBytecode, Moves
<1>2. CASE s.base # "Custom"
  <2>1. ExecutePlayerStrategy(s, opp, my, round, draws)
          = ExecuteStrategy(s.base, opp, my, draws)
    BY <1>2 DEF ExecutePlayerStrategy
  <2>2. s.base \in StrategyBase
    BY <1>2 DEF PlayerStrategy
  <2>3. LastMove(opp) \in Moves /\ LastMove(my) \in Moves
    BY LastMoveIs
  <2>4. \A test : DefectIf(test) \in Moves
    BY DefectIfIsMove
  <2>5. ExecutePavlov(opp, my) \in Moves
    BY <2>3, <2>4 DEF ExecutePavlov, Moves
  <2>6. ExecuteTitForTwoTats(opp) \in Moves
    BY DefectIfIsMove DEF ExecuteTitForTwoTats
  <2>7. ExecuteGradual(opp, my) \in Moves
    BY DefectIfIsMove DEF ExecuteGradual
  <2>8. \A base \in StrategyBase : ExecuteStrategy(base, opp, my, draws) \in Moves
    <3>1. "Defect" \in Moves /\ "Cooperate" \in Moves
      BY DEF Moves
    <3>2. DefectIf(\E i \in DOMAIN opp : opp[i] = "Defect") \in Moves
          /\ DefectIf(draws[1] >= 50) \in Moves
      BY DefectIfIsMove
    <3> DEFINE Played(base) == ExecuteStrategy(base, opp, my, draws)
    <3>3. Played("TitForTat") \in Moves
      BY <2>3 DEF ExecuteStrategy
    <3>4. Played("SuspiciousTitForTat") \in Moves
      BY <2>3, <3>1 DEF ExecuteStrategy
    <3>5. Played("AlwaysDefect") \in Moves
      BY <3>1 DEF ExecuteStrategy
    <3>6. Played("AlwaysCooperate") \in Moves
      BY <3>1 DEF ExecuteStrategy
    <3>7. Played("GrimTrigger") \in Moves
      BY <3>2 DEF ExecuteStrategy
    <3>8. Played("Random") \in Moves
      BY <3>2 DEF ExecuteStrategy
    <3>9. Played("Pavlov") \in Moves
      BY <2>5 DEF ExecuteStrategy
    <3>10. Played("TitForTwoTats") \in Moves
      BY <2>6 DEF ExecuteStrategy
    <3>11. Played("Gradual") \in Moves
      BY <2>7 DEF ExecuteStrategy
    <3> HIDE DEF Played
    <3>12. \A base \in StrategyBase : Played(base) \in Moves
      BY <3>3, <3>4, <3>5, <3>6, <3>7, <3>8, <3>9, <3>10, <3>11 DEF StrategyBase
    <3> QED
      BY <3>12 DEF Played
  <2> QED
    BY <2>1, <2>2, <2>8
<1> QED
  BY <1>1, <1>2

-----------------------------------------------------------------------------
(***************************************************************************)
(* Types, rounds and streams                                               *)
(***************************************************************************)
\* The histories grow together, up to the number of rounds that was drawn, and
\* the calls of for_round so far had the first 2 * Round numbers as arguments.
RoundInv ==
    /\ TypeOK
    /\ Len(history_b) = Round
    /\ Round <= round_count
    /\ streams = 0..(2 * Round - 1)

\* What a round does with the moves it sees.
RoundPlayed(draws_a, draws_b, move_a, move_b) ==
    /\ move_a \in Moves /\ move_b \in Moves
    /\ move_a = ExecutePlayerStrategy(strategy_a, history_b, history_a, Round, draws_a)
    /\ move_b = ExecutePlayerStrategy(strategy_b, history_a, history_b, Round, draws_b)
    /\ total_a' = total_a + Payoff(move_a, move_b)[1]
    /\ total_b' = total_b + Payoff(move_a, move_b)[2]
    /\ history_a' = Append(history_a, move_a)
    /\ history_b' = Append(history_b, move_b)

LEMMA PlayRoundPlays ==
    ASSUME RoundInv, PlayRound
    PROVE  \E draws_a, draws_b \in Streams : \E move_a, move_b \in Moves :
               RoundPlayed(draws_a, draws_b, move_a, move_b)
<1>1. PICK draws_a \in Streams, draws_b \in Streams :
          LET move_a == ExecutePlayerStrategy(strategy_a, history_b, history_a,
                                              Round, draws_a)
              move_b == ExecutePlayerStrategy(strategy_b, SeenByB(move_a), history_b,
                                              Round, draws_b)
          IN  /\ total_a' = total_a + Payoff(move_a, move_b)[1]
              /\ total_b' = total_b + Payoff(move_a, move_b)[2]
              /\ history_a' = Append(history_a, move_a)
              /\ history_b' = Append(history_b, move_b)
  BY DEF PlayRound
<1> DEFINE move_a == ExecutePlayerStrategy(strategy_a, history_b, history_a, Round, draws_a)
           move_b == ExecutePlayerStrategy(strategy_b, history_a, history_b, Round, draws_b)
<1>2. /\ strategy_a \in PlayerStrategy /\ strategy_b \in PlayerStrategy
      /\ history_a \in Seq(Moves) /\ history_b \in Seq(Moves)
  BY MatchAssumption DEF RoundInv, TypeOK
<1>3. move_a \in Moves /\ move_b \in Moves
  BY <1>2, MoveIsMove
<1>4. /\ total_a' = total_a + Payoff(move_a, move_b)[1]
      /\ total_b' = total_b + Payoff(move_a, move_b)[2]
      /\ history_a' = Append(history_a, move_a)
      /\ history_b' = Append(history_b, move_b)
  BY <1>1 DEF SeenByB
<1>5. RoundPlayed(draws_a, draws_b, move_a, move_b)
  BY <1>3, <1>4 DEF RoundPlayed
<1> QED
  BY <1>3, <1>5

LEMMA ConfigBounds ==
    ASSUME round_config \in {Standard, Compressed}
    PROVE  /\ round_config.min_rounds \in Nat /\ round_config.max_rounds \in Nat
           /\ round_config.min_rounds <= round_config.max_rounds
           /\ round_config.max_rounds <= 128
<1>1. /\ round_config \in RoundConfig
      /\ round_config.min_rounds <= round_config.max_rounds
      /\ round_config.max_rounds <= 128
  BY RoundConfigAssumption
<1> QED
  BY <1>1 DEF RoundConfig, Byte

LEMMA RoundInit == Init => RoundInv
<1> SUFFICES ASSUME Init PROVE RoundInv
  OBVIOUS
<1>1. round_config \in {Standard, Compressed}
  BY DEF Init, ConfigFor
<1>2. /\ round_config.min_rounds \in Nat /\ round_config.max_rounds \in Nat
      /\ round_config.min_rounds <= round_config.max_rounds
  BY <1>1, ConfigBounds
<1>3. history_a = << >> /\ history_b = << >> /\ Round = 0 /\ << >> \in Seq(Moves)
  BY DEF Init, Round
<1>4. TypeOK
  BY <1>1, <1>2, <1>3 DEF Init, TypeOK
<1>5. streams = 0..(2 * Round - 1)
  BY <1>3 DEF Init
<1>6. Len(history_b) = Round /\ Round <= round_count
  BY <1>2, <1>3 DEF Init
<1> QED
  BY <1>4, <1>5, <1>6 DEF RoundInv

\* The arguments of for_round in the next round are the next two numbers: there
\* are at most 128 rounds, so neither wraps around.
LEMMA NextStreams ==
    ASSUME RoundInv, Round < round_count
    PROVE  /\ StreamsOf(Round)[1] = 2 * Round /\ StreamsOf(Round)[2] = 2 * Round + 1
           /\ Round \in 0..127
<1>1. Round \in Nat /\ round_count \in Nat /\ round_count <= 128
  <2>1. /\ round_config.max_rounds \in Nat /\ round_config.max_rounds <= 128
        /\ round_config.min_rounds \in Nat
    BY ConfigBounds DEF RoundInv, TypeOK
  <2>2. Round \in Nat
    BY DEF RoundInv, TypeOK, Round
  <2>3. round_count \in round_config.min_rounds..round_config.max_rounds
    BY DEF RoundInv, TypeOK
  <2> QED
    BY <2>1, <2>2, <2>3
<1>2. Round \in 0..127
  BY <1>1
<1>3. (Round * 2) % 256 = 2 * Round /\ (Round * 2 + 1) % 256 = 2 * Round + 1
  BY <1>2
<1> QED
  BY <1>2, <1>3 DEF StreamsOf

LEMMA RoundStep == RoundInv /\ [Next]_vars => RoundInv'
<1> SUFFICES ASSUME RoundInv, [Next]_vars PROVE RoundInv'
  OBVIOUS
<1>0. /\ round_config.min_rounds \in Nat /\ round_config.max_rounds \in Nat
      /\ round_count \in Nat
  <2>1. round_config.min_rounds \in Nat /\ round_config.max_rounds \in Nat
    BY ConfigBounds DEF RoundInv, TypeOK
  <2>2. round_count \in round_config.min_rounds..round_config.max_rounds
    BY DEF RoundInv, TypeOK
  <2> QED
    BY <2>1, <2>2
<1>1. CASE CountRound
  <2>1. UNCHANGED <<strategy_a, strategy_b, round_config, history_a, history_b,
                    total_a, total_b, streams>>
    BY <1>1 DEF CountRound
  <2>2. phase' \in {"Counting", "Playing", "Done"}
    BY <1>1 DEF CountRound, RoundInv, TypeOK
  <2>3. /\ round_count' \in round_config.min_rounds..round_config.max_rounds
        /\ round_count' >= round_count
    BY <1>0, <1>1 DEF CountRound, MayContinue, RoundInv, TypeOK
  <2>4. Round \in Nat /\ Round <= round_count'
    BY <1>0, <2>3 DEF RoundInv, TypeOK, Round
  <2> QED
    BY <2>1, <2>2, <2>3, <2>4 DEF RoundInv, TypeOK, Round
<1>2. CASE CountEnds
  BY <1>2 DEF CountEnds, RoundInv, TypeOK, Round
<1>3. CASE PlayRound
  <2>1. PICK draws_a \in Streams, draws_b \in Streams, move_a \in Moves, move_b \in Moves :
            RoundPlayed(draws_a, draws_b, move_a, move_b)
    BY <1>3, PlayRoundPlays
  <2>2. /\ UNCHANGED <<phase, strategy_a, strategy_b, round_config, round_count>>
        /\ Round < round_count
        /\ streams' = streams \cup {StreamsOf(Round)[1], StreamsOf(Round)[2]}
    BY <1>3 DEF PlayRound
  <2>3. history_a \in Seq(Moves) /\ history_b \in Seq(Moves)
    BY DEF RoundInv, TypeOK
  <2>4. /\ history_a' \in Seq(Moves) /\ history_b' \in Seq(Moves)
        /\ Len(history_a') = Len(history_a) + 1 /\ Len(history_b') = Len(history_b) + 1
    BY <2>1, <2>3, AppendDefection DEF RoundPlayed
  <2>5. total_a' \in Nat /\ total_b' \in Nat
    <3>1. Payoff(move_a, move_b)[1] \in Nat /\ Payoff(move_a, move_b)[2] \in Nat
      BY PayoffGap
    <3>2. total_a \in Nat /\ total_b \in Nat
      BY DEF RoundInv, TypeOK
    <3>3. /\ total_a' = total_a + Payoff(move_a, move_b)[1]
          /\ total_b' = total_b + Payoff(move_a, move_b)[2]
      BY <2>1 DEF RoundPlayed
    <3> QED
      BY <3>1, <3>2, <3>3
  <2>6. streams' = 0..(2 * Round + 1) /\ streams' \subseteq Byte /\ Round \in Nat
    <3>1. /\ StreamsOf(Round)[1] = 2 * Round /\ StreamsOf(Round)[2] = 2 * Round + 1
          /\ Round \in 0..127
      BY <2>2, NextStreams
    <3>2. streams' = 0..(2 * Round - 1) \cup {2 * Round, 2 * Round + 1}
      BY <2>2, <3>1 DEF RoundInv
    <3>3. streams' = 0..(2 * Round + 1)
      BY <3>1, <3>2
    <3>4. 0..(2 * Round + 1) \subseteq Byte
      BY <3>1 DEF Byte
    <3> QED
      BY <3>1, <3>3, <3>4
  <2>7. Round' = Round + 1 /\ Len(history_b') = Round'
    BY <2>4 DEF RoundInv, Round
  <2>8. Round' <= round_count'
    BY <1>0, <2>2, <2>6, <2>7
  <2>9. streams' = 0..(2 * Round' - 1)
    BY <2>6, <2>7
  <2>10. TypeOK'
    BY <2>2, <2>4, <2>5, <2>6 DEF RoundInv, TypeOK
  <2> QED
    BY <2>7, <2>8, <2>9, <2>10 DEF RoundInv
<1>4. CASE Finish
  BY <1>4 DEF Finish, RoundInv, TypeOK, Round
<1>5. CASE UNCHANGED vars
  BY <1>5 DEF vars, RoundInv, TypeOK, Round
<1> QED
  BY <1>1, <1>2, <1>3, <1>4, <1>5 DEF Next

-----------------------------------------------------------------------------
(***************************************************************************)
(* A round from one seat                                                   *)
(***************************************************************************)
KeepsUp(base, opp, gap) ==
    base = "TitForTat" => gap = IF LastMove(opp) = "Defect" THEN 5 ELSE 0

NeverFirst(base, my, opp) ==
    base \in Nice => \A i \in DOMAIN my : my[i] = "Defect" =>
                         \E j \in 1..(i - 1) : opp[j] = "Defect"

Bounded(my, opp, i) ==
    LET theirs == Defections(SubSeq(opp, 1, i - 1))
    IN  2 * Defections(SubSeq(my, 1, i)) <= theirs * (theirs + 1)

Forgives(base, my, opp) == base = "Gradual" => \A i \in DOMAIN my : Bounded(my, opp, i)

LEMMA KeepsUpRound ==
    ASSUME NEW s \in PlayerStrategy, NEW my \in Seq(Moves), NEW opp \in Seq(Moves),
           NEW round, NEW draws, NEW y \in Moves, NEW gap \in Int,
           KeepsUp(s.base, opp, gap)
    PROVE  LET x == ExecutePlayerStrategy(s, opp, my, round, draws)
           IN  KeepsUp(s.base, Append(opp, y), gap + 5 * (MoveToU8(y) - MoveToU8(x)))
<1> DEFINE x == ExecutePlayerStrategy(s, opp, my, round, draws)
<1> SUFFICES ASSUME s.base = "TitForTat"
             PROVE  gap + 5 * (MoveToU8(y) - MoveToU8(x))
                        = IF LastMove(Append(opp, y)) = "Defect" THEN 5 ELSE 0
  BY DEF KeepsUp
<1>1. x = LastMove(opp)
  BY DEF ExecutePlayerStrategy, ExecuteStrategy
<1>2. gap = IF x = "Defect" THEN 5 ELSE 0
  BY <1>1 DEF KeepsUp
<1>3. LastMove(Append(opp, y)) = y
  BY AppendDefection
<1> HIDE DEF x
<1> QED
  BY <1>2, <1>3 DEF MoveToU8

\* When a nice strategy defects, its opponent has defected before.
LEMMA NiceMove ==
    ASSUME NEW s \in PlayerStrategy, NEW my \in Seq(Moves), NEW opp \in Seq(Moves),
           NEW round, NEW draws, Len(my) = Len(opp), s.base \in Nice,
           NeverFirst(s.base, my, opp),
           ExecutePlayerStrategy(s, opp, my, round, draws) = "Defect"
    PROVE  \E j \in 1..Len(my) : opp[j] = "Defect"
<1> DEFINE x == ExecuteStrategy(s.base, opp, my, draws)
<1>1. x = "Defect"
  BY DEF ExecutePlayerStrategy, Nice
<1>2. DOMAIN opp = 1..Len(my) /\ DOMAIN my = 1..Len(my) /\ Len(my) \in Nat
  OBVIOUS
<1>3. ASSUME LastMove(opp) = "Defect" PROVE \E j \in 1..Len(my) : opp[j] = "Defect"
  BY <1>3, LastMoveIs
<1>4. CASE s.base = "TitForTat"
  BY <1>1, <1>3, <1>4 DEF ExecuteStrategy
<1>5. CASE s.base = "AlwaysCooperate"
  BY <1>1, <1>5 DEF ExecuteStrategy
<1>6. CASE s.base = "GrimTrigger"
  <2>1. x = DefectIf(\E i \in DOMAIN opp : opp[i] = "Defect")
    BY <1>6 DEF ExecuteStrategy
  <2> QED
    BY <1>1, <1>2, <2>1 DEF DefectIf
<1>7. CASE s.base = "Pavlov"
  <2>1. ExecutePavlov(opp, my) = "Defect"
    BY <1>1, <1>7 DEF ExecuteStrategy
  <2>2. my # << >> /\ (LastMove(my) = "Defect" \/ LastMove(opp) = "Defect")
    <3>1. LastMove(my) \in Moves /\ LastMove(opp) \in Moves
      BY LastMoveIs
    <3>2. my # << >>
      BY <2>1 DEF ExecutePavlov
    <3>3. LastMove(my) = "Cooperate" /\ LastMove(opp) = "Cooperate"
              => Payoff(LastMove(my), LastMove(opp))[1] = 3
      BY DEF Payoff
    <3> QED
      BY <2>1, <3>1, <3>2, <3>3 DEF ExecutePavlov, Moves
  <2>3. CASE LastMove(my) = "Defect"
    <3>1. Len(my) \in DOMAIN my /\ my[Len(my)] = "Defect"
      BY <1>2, <2>2, <2>3, LastMoveIs
    <3>2. \E j \in 1..(Len(my) - 1) : opp[j] = "Defect"
      BY <3>1 DEF NeverFirst
    <3> QED
      BY <1>2, <3>2
  <2> QED
    BY <1>3, <2>2, <2>3
<1>8. CASE s.base = "TitForTwoTats"
  <2>1. ExecuteTitForTwoTats(opp) = "Defect"
    BY <1>1, <1>8 DEF ExecuteStrategy
  <2>2. Len(opp) >= 2 /\ opp[Len(opp)] = "Defect"
    BY <2>1 DEF ExecuteTitForTwoTats, DefectIf
  <2> QED
    BY <1>2, <2>2
<1>9. CASE s.base = "Gradual"
  <2>1. ExecuteGradual(opp, my) = "Defect"
    BY <1>1, <1>9 DEF ExecuteStrategy
  <2>2. Defections(my) \in Nat /\ Defections(opp) \in Nat
    BY DefectionsFinite
  <2>3. Defections(my) < (Defections(opp) * (Defections(opp) + 1)) \div 2
    BY <2>1 DEF ExecuteGradual, DefectIf
  <2>4. Defections(opp) # 0
    BY <2>2, <2>3
  <2> QED
    BY <2>4, DefectionsWitness
<1> QED
  BY <1>4, <1>5, <1>6, <1>7, <1>8, <1>9 DEF Nice

LEMMA NeverFirstRound ==
    ASSUME NEW s \in PlayerStrategy, NEW my \in Seq(Moves), NEW opp \in Seq(Moves),
           NEW round, NEW draws, NEW y \in Moves, Len(my) = Len(opp),
           NeverFirst(s.base, my, opp)
    PROVE  LET x == ExecutePlayerStrategy(s, opp, my, round, draws)
           IN  NeverFirst(s.base, Append(my, x), Append(opp, y))
<1> DEFINE x == ExecutePlayerStrategy(s, opp, my, round, draws)
<1>1. x \in Moves
  BY MoveIsMove
<1>2. s.base \in Nice /\ x = "Defect" => \E j \in 1..Len(my) : opp[j] = "Defect"
  BY NiceMove
<1> HIDE DEF x
<1> SUFFICES ASSUME s.base \in Nice, NEW i \in DOMAIN Append(my, x),
                    Append(my, x)[i] = "Defect"
             PROVE  \E j \in 1..(i - 1) : Append(opp, y)[j] = "Defect"
  BY DEF NeverFirst, x
<1>3. /\ i \in DOMAIN my \cup {Len(my) + 1}
      /\ \A k \in DOMAIN my : Append(my, x)[k] = my[k]
      /\ Append(my, x)[Len(my) + 1] = x
  BY <1>1, AppendDefection
<1>4. \A k \in DOMAIN opp : Append(opp, y)[k] = opp[k]
  BY AppendDefection
<1>5. DOMAIN opp = 1..Len(my) /\ DOMAIN my = 1..Len(my) /\ Len(my) \in Nat
  OBVIOUS
<1>6. \E j \in 1..(i - 1) : opp[j] = "Defect"
  <2>1. CASE i \in DOMAIN my
    BY <1>3, <2>1 DEF NeverFirst
  <2>2. CASE i = Len(my) + 1
    BY <1>2, <1>3, <1>5, <2>2
  <2> QED
    BY <1>3, <2>1, <2>2
<1>7. i - 1 <= Len(my) /\ i \in Nat
  BY <1>3, <1>5
<1> QED
  BY <1>4, <1>5, <1>6, <1>7

\* A longer history has the same beginnings.
LEMMA BeginningsStay ==
    ASSUME NEW h \in Seq(Moves), NEW v \in Moves, NEW i \in 0..Len(h)
    PROVE  SubSeq(Append(h, v), 1, i) = SubSeq(h, 1, i)
<1> DEFINE g == Append(h, v)
<1>1. g \in Seq(Moves) /\ Len(g) = Len(h) + 1 /\ Len(h) \in Nat /\ i \in Nat /\ i <= Len(h)
  OBVIOUS
<1>2. \A k \in 1..Len(h) : g[k] = h[k]
  OBVIOUS
<1> HIDE DEF g
<1>3. /\ SubSeq(g, 1, i) \in Seq(Moves) /\ Len(SubSeq(g, 1, i)) = i
      /\ \A k \in 1..i : SubSeq(g, 1, i)[k] = g[k]
  BY <1>1
<1>4. /\ SubSeq(h, 1, i) \in Seq(Moves) /\ Len(SubSeq(h, 1, i)) = i
      /\ \A k \in 1..i : SubSeq(h, 1, i)[k] = h[k]
  BY <1>1
<1>5. \A k \in 1..i : SubSeq(g, 1, i)[k] = SubSeq(h, 1, i)[k]
  BY <1>1, <1>2, <1>3, <1>4
<1>6. SubSeq(g, 1, i) = SubSeq(h, 1, i)
  BY <1>3, <1>4, <1>5
<1> QED
  BY <1>6 DEF g

LEMMA WholeHistory == ASSUME NEW h \in Seq(Moves) PROVE SubSeq(h, 1, Len(h)) = h
<1>1. /\ SubSeq(h, 1, Len(h)) \in Seq(Moves) /\ Len(SubSeq(h, 1, Len(h))) = Len(h)
      /\ \A k \in 1..Len(h) : SubSeq(h, 1, Len(h))[k] = h[k]
  OBVIOUS
<1> QED
  BY <1>1

LEMMA TriangleGrows ==
    ASSUME NEW n \in Nat, NEW d \in {0, 1}
    PROVE  n * (n + 1) <= (n + d) * (n + d + 1)
OBVIOUS

\* What was allowed before the last round is still allowed.
LEMMA StillBounded ==
    ASSUME NEW my \in Seq(Moves), NEW opp \in Seq(Moves), Len(my) = Len(opp),
           \A i \in DOMAIN my : Bounded(my, opp, i)
    PROVE  2 * Defections(my) <= Defections(opp) * (Defections(opp) + 1)
<1>1. Defections(my) \in Nat /\ Defections(opp) \in Nat
  BY DefectionsFinite
<1>2. CASE my = << >>
  <2>1. Defections(my) = 0
    BY <1>2, DefectionsEmpty
  <2> QED
    BY <1>1, <2>1
<1>3. CASE my # << >>
  <2> DEFINE n == Len(my)
             before == SubSeq(opp, 1, n - 1)
             last == opp[n]
  <2>1. n \in Nat /\ n > 0 /\ n \in DOMAIN my
    BY <1>3
  <2>2. before \in Seq(Moves) /\ last \in Moves
    BY <2>1
  <2>3. opp = Append(before, last)
    <3>1. /\ Len(before) = n - 1
          /\ \A k \in 1..(n - 1) : before[k] = opp[k]
      BY <2>1
    <3>2. /\ Append(before, last) \in Seq(Moves) /\ Len(Append(before, last)) = n
          /\ \A k \in 1..(n - 1) : Append(before, last)[k] = before[k]
          /\ Append(before, last)[n] = last
      <4> HIDE DEF before, last
      <4> QED
        BY <2>1, <2>2, <3>1
    <3>3. \A k \in 1..n : Append(before, last)[k] = opp[k]
      <4> HIDE DEF before
      <4> QED
        BY <2>1, <3>1, <3>2
    <3> HIDE DEF before, last
    <3> QED
      BY <3>2, <3>3
  <2>4. Defections(opp) = Defections(before) + MoveToU8(last)
    <3> HIDE DEF before, last
    <3> QED
      BY <2>2, <2>3, DefectionsAppend
  <2>5. Bounded(my, opp, n) /\ SubSeq(my, 1, n) = my
    BY <2>1, WholeHistory
  <2>6. 2 * Defections(my) <= Defections(before) * (Defections(before) + 1)
    BY <2>5 DEF Bounded
  <2>7. Defections(before) \in Nat /\ MoveToU8(last) \in {0, 1}
    BY <2>2, DefectionsFinite DEF MoveToU8
  <2> HIDE DEF before, last
  <2> DEFINE p == Defections(before) * (Defections(before) + 1)
             q == Defections(opp) * (Defections(opp) + 1)
  <2>8. p <= q
    BY <2>4, <2>7, TriangleGrows
  <2>9. p \in Nat /\ q \in Nat
    BY <1>1, <2>7
  <2> HIDE DEF p, q
  <2>10. 2 * Defections(my) <= q
    <3>1. 2 * Defections(my) <= p
      BY <2>6 DEF p
    <3> QED
      BY <1>1, <2>8, <2>9, <3>1
  <2> QED
    BY <2>10 DEF q
<1> QED
  BY <1>2, <1>3

LEMMA ForgivesRound ==
    ASSUME NEW s \in PlayerStrategy, NEW my \in Seq(Moves), NEW opp \in Seq(Moves),
           NEW round, NEW draws, NEW y \in Moves, Len(my) = Len(opp),
           Forgives(s.base, my, opp)
    PROVE  LET x == ExecutePlayerStrategy(s, opp, my, round, draws)
           IN  Forgives(s.base, Append(my, x), Append(opp, y))
<1> DEFINE x == ExecutePlayerStrategy(s, opp, my, round, draws)
           n == Len(my) + 1
<1> SUFFICES ASSUME s.base = "Gradual", NEW i \in DOMAIN Append(my, x)
             PROVE  Bounded(Append(my, x), Append(opp, y), i)
  BY DEF Forgives
<1>1. x \in Moves
  BY MoveIsMove
<1>2. x = ExecuteGradual(opp, my)
  BY DEF ExecutePlayerStrategy, ExecuteStrategy
<1>3. \A k \in DOMAIN my : Bounded(my, opp, k)
  BY DEF Forgives
<1> HIDE DEF x
<1>4. i \in DOMAIN my \cup {n}
  BY <1>1, AppendDefection
<1>5. DOMAIN my = 1..Len(my) /\ Len(my) \in Nat
  OBVIOUS
<1>6. CASE i \in DOMAIN my
  <2>1. i \in 0..Len(my) /\ i - 1 \in 0..Len(opp)
    BY <1>5, <1>6
  <2>2. /\ SubSeq(Append(my, x), 1, i) = SubSeq(my, 1, i)
        /\ SubSeq(Append(opp, y), 1, i - 1) = SubSeq(opp, 1, i - 1)
    BY <1>1, <2>1, BeginningsStay
  <2>3. Bounded(my, opp, i)
    BY <1>3, <1>6
  <2> QED
    BY <2>2, <2>3 DEF Bounded
<1>7. CASE i = n
  <2> DEFINE d == Defections(my)
             t == Defections(opp)
             q == t * (t + 1)
  <2>1. d \in Nat /\ t \in Nat
    BY DefectionsFinite
  <2>2. q \in Nat
    BY <2>1
  <2>3. SubSeq(Append(opp, y), 1, n - 1) = opp
    <3>1. n - 1 = Len(opp) /\ Len(opp) \in 0..Len(opp)
      BY <1>5
    <3> QED
      BY <3>1, BeginningsStay, WholeHistory
  <2>4. SubSeq(Append(my, x), 1, n) = Append(my, x)
    <3>1. Append(my, x) \in Seq(Moves) /\ Len(Append(my, x)) = n
      BY <1>1, AppendDefection
    <3> QED
      BY <3>1, WholeHistory
  <2>5. Defections(Append(my, x)) = d + MoveToU8(x)
    BY <1>1, DefectionsAppend
  <2>6. 2 * d <= q
    BY <1>3, StillBounded
  <2>7. x = DefectIf(d < q \div 2)
    BY <1>2 DEF ExecuteGradual
  <2> HIDE DEF d, q, t, n
  <2>8. 2 * (d + MoveToU8(x)) <= q
    <3>1. CASE d < q \div 2
      <4>1. MoveToU8(x) = 1
        BY <2>7, <3>1 DEF DefectIf, MoveToU8
      <4>2. 2 * (d + 1) <= q
        BY <2>1, <2>2, <3>1
      <4> QED
        BY <4>1, <4>2
    <3>2. CASE ~(d < q \div 2)
      <4>1. MoveToU8(x) = 0
        BY <2>7, <3>2 DEF DefectIf, MoveToU8
      <4> QED
        BY <2>1, <2>6, <4>1
    <3> QED
      BY <3>1, <3>2
  <2> QED
    BY <1>7, <2>3, <2>4, <2>5, <2>8 DEF Bounded, d, t, q
<1> QED
  BY <1>4, <1>6, <1>7

-----------------------------------------------------------------------------
(***************************************************************************)
(* The whole match                                                         *)
(***************************************************************************)
\* The promises to both seats, and the difference of their totals.
SeatsInv ==
    /\ KeepsUp(strategy_a.base, history_b, total_b - total_a)
    /\ KeepsUp(strategy_b.base, history_a, total_a - total_b)
    /\ NeverFirst(strategy_a.base, history_a, history_b)
    /\ NeverFirst(strategy_b.base, history_b, history_a)
    /\ Forgives(strategy_a.base, history_a, history_b)
    /\ Forgives(strategy_b.base, history_b, history_a)
    /\ GapCountsDefections

MatchInv == RoundInv /\ SeatsInv

LEMMA SeatsInit == Init => SeatsInv
<1> SUFFICES ASSUME Init PROVE SeatsInv
  OBVIOUS
<1>1. history_a = << >> /\ history_b = << >> /\ total_a = 0 /\ total_b = 0
  BY DEF Init
<1>2. Defections(<< >>) = 0 /\ LastMove(<< >>) = "Cooperate" /\ DOMAIN << >> = {}
  BY DefectionsEmpty
<1>3. GapCountsDefections
  BY <1>1, <1>2 DEF GapCountsDefections
<1>4. \A base : KeepsUp(base, << >>, 0)
  BY <1>2 DEF KeepsUp
<1>5. \A base : NeverFirst(base, << >>, << >>) /\ Forgives(base, << >>, << >>)
  BY <1>2 DEF NeverFirst, Forgives
<1> QED
  BY <1>1, <1>3, <1>4, <1>5 DEF SeatsInv

LEMMA GapGrows ==
    ASSUME NEW ta \in Int, NEW tb \in Int, NEW pa \in Int, NEW pb \in Int,
           NEW da \in Int, NEW db \in Int, pa - pb = 5 * (da - db)
    PROVE  /\ (ta + pa) - (tb + pb) = ta - tb + 5 * (da - db)
           /\ (tb + pb) - (ta + pa) = tb - ta + 5 * (db - da)
OBVIOUS

LEMMA GapAdds ==
    ASSUME NEW gap \in Int, NEW ca \in Int, NEW cb \in Int, NEW da \in Int, NEW db \in Int,
           gap = 5 * (ca - cb)
    PROVE  gap + 5 * (da - db) = 5 * ((ca + da) - (cb + db))
OBVIOUS

LEMMA SeatsPlayRound == ASSUME MatchInv, PlayRound PROVE SeatsInv'
<1>1. PICK draws_a \in Streams, draws_b \in Streams, move_a \in Moves, move_b \in Moves :
          RoundPlayed(draws_a, draws_b, move_a, move_b)
  BY PlayRoundPlays DEF MatchInv
<1>2. /\ strategy_a' = strategy_a /\ strategy_b' = strategy_b
      /\ strategy_a \in PlayerStrategy /\ strategy_b \in PlayerStrategy
  BY MatchAssumption DEF PlayRound, MatchInv, RoundInv, TypeOK
<1>3. /\ history_a \in Seq(Moves) /\ history_b \in Seq(Moves)
      /\ Len(history_a) = Len(history_b)
      /\ total_a \in Nat /\ total_b \in Nat
  BY DEF MatchInv, RoundInv, TypeOK, Round
<1>4. /\ move_a = ExecutePlayerStrategy(strategy_a, history_b, history_a, Round, draws_a)
      /\ move_b = ExecutePlayerStrategy(strategy_b, history_a, history_b, Round, draws_b)
      /\ history_a' = Append(history_a, move_a) /\ history_b' = Append(history_b, move_b)
      /\ total_a' = total_a + Payoff(move_a, move_b)[1]
      /\ total_b' = total_b + Payoff(move_a, move_b)[2]
  BY <1>1 DEF RoundPlayed
<1> DEFINE da == MoveToU8(move_a)
           db == MoveToU8(move_b)
<1>5. /\ Payoff(move_a, move_b)[1] \in Nat /\ Payoff(move_a, move_b)[2] \in Nat
      /\ Payoff(move_a, move_b)[1] - Payoff(move_a, move_b)[2] = 5 * (da - db)
  BY PayoffGap
<1>6. da \in Int /\ db \in Int
  BY DEF MoveToU8
<1> HIDE DEF da, db
<1>7. /\ total_a' - total_b' = total_a - total_b + 5 * (da - db)
      /\ total_b' - total_a' = total_b - total_a + 5 * (db - da)
  <2> DEFINE pa == Payoff(move_a, move_b)[1]
             pb == Payoff(move_a, move_b)[2]
  <2>1. /\ total_a \in Int /\ total_b \in Int /\ pa \in Int /\ pb \in Int
        /\ pa - pb = 5 * (da - db)
        /\ total_a' = total_a + pa /\ total_b' = total_b + pb
    BY <1>3, <1>4, <1>5
  <2> HIDE DEF pa, pb
  <2>2. /\ (total_a + pa) - (total_b + pb) = total_a - total_b + 5 * (da - db)
        /\ (total_b + pb) - (total_a + pa) = total_b - total_a + 5 * (db - da)
    BY <1>6, <2>1, GapGrows
  <2> QED
    BY <2>1, <2>2
<1>8. GapCountsDefections'
  <2>1. /\ Defections(history_a') = Defections(history_a) + da
        /\ Defections(history_b') = Defections(history_b) + db
    BY <1>3, <1>4, DefectionsAppend DEF da, db
  <2>2. Defections(history_a) \in Nat /\ Defections(history_b) \in Nat
    BY <1>3, DefectionsFinite
  <2>3. total_a - total_b = 5 * (Defections(history_a) - Defections(history_b))
    BY DEF MatchInv, SeatsInv, GapCountsDefections
  <2>4. total_a' - total_b' = 5 * (Defections(history_a') - Defections(history_b'))
    <3> DEFINE gap == total_a - total_b
               ca == Defections(history_a)
               cb == Defections(history_b)
    <3>1. gap \in Int /\ ca \in Int /\ cb \in Int
      BY <1>3, <2>2
    <3>2. gap = 5 * (ca - cb)
      BY <2>3
    <3> HIDE DEF gap, ca, cb
    <3>3. gap + 5 * (da - db) = 5 * ((ca + da) - (cb + db))
      BY <1>6, <3>1, <3>2, GapAdds
    <3> QED
      BY <1>7, <2>1, <3>3 DEF gap, ca, cb
  <2> QED
    BY <2>4 DEF GapCountsDefections
<1>9. KeepsUp(strategy_a.base, history_b, total_b - total_a)'
  <2>1. total_b - total_a \in Int /\ KeepsUp(strategy_a.base, history_b, total_b - total_a)
    BY <1>3 DEF MatchInv, SeatsInv
  <2>2. KeepsUp(strategy_a.base, history_b', total_b - total_a + 5 * (db - da))
    BY <1>2, <1>3, <1>4, <2>1, KeepsUpRound DEF da, db
  <2>3. KeepsUp(strategy_a'.base, history_b', total_b' - total_a')
    BY <1>2, <1>7, <2>2
  <2> QED
    BY <2>3 DEF KeepsUp
<1>10. KeepsUp(strategy_b.base, history_a, total_a - total_b)'
  <2>1. total_a - total_b \in Int /\ KeepsUp(strategy_b.base, history_a, total_a - total_b)
    BY <1>3 DEF MatchInv, SeatsInv
  <2>2. KeepsUp(strategy_b.base, history_a', total_a - total_b + 5 * (da - db))
    BY <1>2, <1>3, <1>4, <2>1, KeepsUpRound DEF da, db
  <2>3. KeepsUp(strategy_b'.base, history_a', total_a' - total_b')
    BY <1>2, <1>7, <2>2
  <2> QED
    BY <2>3 DEF KeepsUp
<1>11. NeverFirst(strategy_a.base, history_a, history_b)'
  <2>1. NeverFirst(strategy_a.base, history_a', history_b')
    BY <1>2, <1>3, <1>4, NeverFirstRound DEF MatchInv, SeatsInv
  <2> QED
    BY <1>2, <2>1 DEF NeverFirst
<1>12. NeverFirst(strategy_b.base, history_b, history_a)'
  <2>1. NeverFirst(strategy_b.base, history_b', history_a')
    BY <1>2, <1>3, <1>4, NeverFirstRound DEF MatchInv, SeatsInv
  <2> QED
    BY <1>2, <2>1 DEF NeverFirst
<1>13. Forgives(strategy_a.base, history_a, history_b)'
  <2>1. Forgives(strategy_a.base, history_a', history_b')
    BY <1>2, <1>3, <1>4, ForgivesRound DEF MatchInv, SeatsInv
  <2> QED
    BY <1>2, <2>1 DEF Forgives, Bounded
<1>14. Forgives(strategy_b.base, history_b, history_a)'
  <2>1. Forgives(strategy_b.base, history_b', history_a')
    BY <1>2, <1>3, <1>4, ForgivesRound DEF MatchInv, SeatsInv
  <2> QED
    BY <1>2, <2>1 DEF Forgives, Bounded
<1> QED
  BY <1>8, <1>9, <1>10, <1>11, <1>12, <1>13, <1>14 DEF SeatsInv

LEMMA MatchStep == MatchInv /\ [Next]_vars => MatchInv'
<1> SUFFICES ASSUME MatchInv, [Next]_vars PROVE MatchInv'
  OBVIOUS
<1>1. RoundInv'
  BY RoundStep DEF MatchInv
<1>2. CASE PlayRound
  BY <1>1, <1>2, SeatsPlayRound DEF MatchInv
<1>3. CASE ~PlayRound
  <2>1. UNCHANGED <<strategy_a, strategy_b, history_a, history_b, total_a, total_b>>
    BY <1>3 DEF Next, CountRound, CountEnds, Finish, vars
  <2>2. SeatsInv'
    BY <2>1 DEF MatchInv, SeatsInv, KeepsUp, NeverFirst, Forgives, Bounded,
                GapCountsDefections
  <2> QED
    BY <1>1, <2>2 DEF MatchInv
<1> QED
  BY <1>2, <1>3

LEMMA MatchInit == Init => MatchInv
BY RoundInit, SeatsInit DEF MatchInv

LEMMA MatchAlways == Spec => []MatchInv
  BY MatchInit, MatchStep, PTL DEF Spec

LEMMA SeatsPromise ==
    SeatsInv => TitForTatKeepsUp /\ NiceNeverFirst /\ GradualForgives
<1> SUFFICES ASSUME SeatsInv PROVE TitForTatKeepsUp /\ NiceNeverFirst /\ GradualForgives
  OBVIOUS
<1>1. \A s \in Seats : /\ KeepsUp(s.base, s.opp, s.gap)
                       /\ NeverFirst(s.base, s.my, s.opp)
                       /\ Forgives(s.base, s.my, s.opp)
  BY DEF SeatsInv, Seats
<1>2. TitForTatKeepsUp
  BY <1>1 DEF TitForTatKeepsUp, KeepsUp
<1>3. NiceNeverFirst
  BY <1>1 DEF NiceNeverFirst, NeverFirst
<1>4. GradualForgives
  BY <1>1 DEF GradualForgives, Forgives, Bounded
<1> QED
  BY <1>2, <1>3, <1>4

LEMMA DistinctStreams == RoundInv => StreamsIndependent
<1> SUFFICES ASSUME RoundInv PROVE StreamsIndependent
  OBVIOUS
<1>1. Round \in Nat /\ streams = 0..(2 * Round - 1)
  BY DEF RoundInv, TypeOK, Round
<1>2. 0 \in Int /\ 2 * Round - 1 \in Int
  BY <1>1
<1>3. Cardinality(0..(2 * Round - 1))
        = IF 0 > 2 * Round - 1 THEN 0 ELSE (2 * Round - 1) - 0 + 1
  BY <1>2, FS_Interval
<1>4. Cardinality(0..(2 * Round - 1)) = 2 * Round
  BY <1>1, <1>3
<1> QED
  BY <1>1, <1>4 DEF StreamsIndependent

\* game.rs, run_match: between any two strategies, custom programs included, every
\* move is a move, the totals are numbers and the number of rounds lies between
\* min_rounds and max_rounds of the configuration for the tournament's size.
THEOREM MatchStaysTyped == Spec => []TypeOK
<1>1. MatchInv => TypeOK
  BY DEF MatchInv, RoundInv
<1> QED
  BY <1>1, MatchAlways, PTL

\* game.rs, run_match: the totals of any match differ by five for each defection
\* one side has more, whoever plays and however long.
THEOREM GapIsDefections == Spec => []GapCountsDefections
<1>1. MatchInv => GapCountsDefections
  BY DEF MatchInv, SeatsInv
<1> QED
  BY <1>1, MatchAlways, PTL

\* strategy.rs, TitForTat in run_match: level with any opponent, or behind by
\* exactly the last defection, after every round and from either seat.
THEOREM TitForTatIsNeverAhead == Spec => []TitForTatKeepsUp
<1>1. MatchInv => TitForTatKeepsUp
  BY SeatsPromise DEF MatchInv
<1> QED
  BY <1>1, MatchAlways, PTL

\* strategy.rs: TitForTat, AlwaysCooperate, GrimTrigger, Pavlov, TitForTwoTats and
\* Gradual never defect first, against any opponent.
THEOREM NiceStaysNice == Spec => []NiceNeverFirst
<1>1. MatchInv => NiceNeverFirst
  BY SeatsPromise DEF MatchInv
<1> QED
  BY <1>1, MatchAlways, PTL

\* strategy.rs, execute_gradual: N defections are answered by at most N(N+1)/2,
\* in every round of every match.
THEOREM GradualIsBounded == Spec => []GradualForgives
<1>1. MatchInv => GradualForgives
  BY SeatsPromise DEF MatchInv
<1> QED
  BY <1>1, MatchAlways, PTL

\* game.rs, run_match: for_round is never called twice with the same argument in
\* a match: the u8 arguments do not wrap around for any configuration of at most
\* 128 rounds, so no two draws of a match share a stream.
THEOREM StreamsStayIndependent == Spec => []StreamsIndependent
<1>1. MatchInv => StreamsIndependent
  BY DistinctStreams DEF MatchInv
<1> QED
  BY <1>1, MatchAlways, PTL

\* Both seats see histories of the same length, of less than 256 rounds.
LEMMA ProgramsAgree == RoundInv => OtherProgramsMatch
<1> SUFFICES ASSUME RoundInv PROVE OtherProgramsMatch
  OBVIOUS
<1>1. /\ history_a \in Seq(Moves) /\ history_b \in Seq(Moves)
      /\ Len(history_b) = Len(history_a) /\ Len(history_a) <= 128
  BY ConfigBounds DEF RoundInv, TypeOK, Round
<1> SUFFICES ASSUME NEW s \in Seats, NEW base \in DOMAIN ParityProgram \ {"Pavlov"}
             PROVE  LET e == [opp |-> s.opp, my |-> s.my, round |-> Len(s.my),
                              draws |-> <<0>>]
                    IN  ExecuteBytecode(ParityProgram[base], e)
                          = ExecuteStrategy(base, s.opp, s.my, <<0>>)
  BY DEF OtherProgramsMatch, PlaysAsBuiltin
<1> DEFINE e == [opp |-> s.opp, my |-> s.my, round |-> Len(s.my), draws |-> <<0>>]
<1>2. /\ s.opp \in Seq(Moves) /\ s.my \in Seq(Moves)
      /\ Len(s.my) = Len(s.opp) /\ Len(s.my) <= 128
  BY <1>1 DEF Seats
<1>3. <<0>> \in Seq(0..99) \ {<< >>} /\ Len(s.my) \in Byte
  <2>1. <<0>> \in Seq(0..99)
    OBVIOUS
  <2>2. Len(<<0>>) = 1 /\ Len(<< >>) = 0
    OBVIOUS
  <2>3. <<0>> # << >>
    BY ONLY <2>2
  <2>4. Len(s.my) \in Byte
    <3>1. \A q \in Seq(Moves) : Len(q) \in Nat
      OBVIOUS
    <3>2. Len(s.my) \in Nat /\ Len(s.my) <= 128
      BY <1>2, <3>1
    <3>3. \A n \in Nat : n <= 128 => n \in Byte
      BY DEF Byte
    <3> QED BY ONLY <3>2, <3>3
  <2> QED BY <2>1, <2>3, <2>4
<1>4. e.opp = s.opp /\ e.my = s.my /\ e.round = Len(s.my) /\ e.draws = <<0>>
  OBVIOUS
<1>5. e \in Observed
  BY <1>2, <1>3 DEF Observed
<1> HIDE DEF e
<1>6. Seen(e)
  BY <1>2, <1>4, <1>5 DEF Seen
<1>7. ExecuteBytecode(ParityProgram[base], e)
        = ExecuteStrategy(base, e.opp, e.my, e.draws)
  BY <1>6, ParityProgramsPlayAsBuiltins
<1> QED
  BY <1>4, <1>7 DEF e

\* vm.rs, parity tests: at every point of every match the program that the tests
\* give for a builtin other than Pavlov would make the builtin's next move.
THEOREM ProgramsPlayAsBuiltins == Spec => []OtherProgramsMatch
<1>1. MatchInv => OtherProgramsMatch
  BY ProgramsAgree DEF MatchInv
<1> QED
  BY <1>1, MatchAlways, PTL

-----------------------------------------------------------------------------
(***************************************************************************)
(* The generator the players draw from                                     *)
(***************************************************************************)
\* Two words that differ in a bit and agree after x ^ (x >> k) also differ k
\* bits further up, which cannot go on.
LEMMA ShrAscent ==
    ASSUME NEW x \in Word, NEW y \in Word, NEW k \in Nat,
           Xor(x, Shr(x, k)) = Xor(y, Shr(y, k)),
           NEW b \in Bits, (b \in x) # (b \in y)
    PROVE  b + k \in Bits /\ (b + k \in x) # (b + k \in y)
<1>1. (b \in Xor(x, Shr(x, k))) = (b \in Xor(y, Shr(y, k)))
  OBVIOUS
<1>2. (b \in Shr(x, k)) = (b + k \in x) /\ (b \in Shr(y, k)) = (b + k \in y)
  BY DEF Shr
<1>3. (b + k \in x) # (b + k \in y)
  BY <1>1, <1>2 DEF Xor
<1>4. b + k \in Bits
  BY <1>3 DEF Word
<1> QED BY <1>3, <1>4

\* The same for x ^ (x << k), downwards.
LEMMA ShlDescent ==
    ASSUME NEW x \in Word, NEW y \in Word, NEW k \in Nat,
           Xor(x, Shl(x, k)) = Xor(y, Shl(y, k)),
           NEW b \in Bits, (b \in x) # (b \in y)
    PROVE  b - k \in Bits /\ (b - k \in x) # (b - k \in y)
<1>1. (b \in Xor(x, Shl(x, k))) = (b \in Xor(y, Shl(y, k)))
  OBVIOUS
<1>2. (b \in Shl(x, k)) = (b - k \in x) /\ (b \in Shl(y, k)) = (b - k \in y)
  BY DEF Shl
<1>3. (b - k \in x) # (b - k \in y)
  BY <1>1, <1>2 DEF Xor
<1>4. b - k \in Bits
  BY <1>3 DEF Word
<1> QED BY <1>3, <1>4

LEMMA ShrInjective ==
    ASSUME NEW x \in Word, NEW y \in Word, NEW k \in {12, 27},
           Xor(x, Shr(x, k)) = Xor(y, Shr(y, k))
    PROVE  x = y
<1>1. SUFFICES ASSUME NEW b \in Bits, (b \in x) # (b \in y) PROVE FALSE
  BY DEF Word
<1>2. k \in Nat /\ k >= 12
  OBVIOUS
<1> DEFINE Differ(c) == c \in Bits /\ (c \in x) # (c \in y)
<1>3. \A c \in Int : Differ(c) => Differ(c + k)
  BY <1>2, ShrAscent
<1>4. Differ(b) /\ b \in Int
  BY <1>1 DEF Bits
<1> HIDE DEF Differ
<1>5. Differ(b + k) /\ b + k \in Int
  BY <1>2, <1>3, <1>4
<1>6. Differ(b + k + k) /\ b + k + k \in Int
  BY <1>2, <1>3, <1>5
<1>7. Differ(b + k + k + k) /\ b + k + k + k \in Int
  BY <1>2, <1>3, <1>6
<1>8. Differ(b + k + k + k + k) /\ b + k + k + k + k \in Int
  BY <1>2, <1>3, <1>7
<1>9. Differ(b + k + k + k + k + k) /\ b + k + k + k + k + k \in Int
  BY <1>2, <1>3, <1>8
<1>10. Differ(b + k + k + k + k + k + k) /\ b + k + k + k + k + k + k \in Int
  BY <1>2, <1>3, <1>9
<1>11. b + k + k + k + k + k + k \in Bits
  BY <1>10 DEF Differ
<1> QED BY <1>2, <1>4, <1>11 DEF Bits, Differ

LEMMA ShlInjective ==
    ASSUME NEW x \in Word, NEW y \in Word,
           Xor(x, Shl(x, 25)) = Xor(y, Shl(y, 25))
    PROVE  x = y
<1>1. SUFFICES ASSUME NEW b \in Bits, (b \in x) # (b \in y) PROVE FALSE
  BY DEF Word
<1> DEFINE Differ(c) == c \in Bits /\ (c \in x) # (c \in y)
<1>2. \A c \in Int : Differ(c) => Differ(c - 25)
  BY ShlDescent
<1>3. Differ(b) /\ b \in Int
  BY <1>1 DEF Bits
<1> HIDE DEF Differ
<1>4. Differ(b - 25) /\ b - 25 \in Int
  BY <1>2, <1>3
<1>5. Differ(b - 25 - 25) /\ b - 25 - 25 \in Int
  BY <1>2, <1>4
<1>6. Differ(b - 25 - 25 - 25)
  BY <1>2, <1>5
<1>7. b - 25 - 25 - 25 \in Bits /\ b \in Bits
  BY <1>3, <1>6 DEF Differ
<1> QED BY <1>7 DEF Bits

LEMMA WordXor ==
    ASSUME NEW x \in Word, NEW k \in Nat
    PROVE  Xor(x, Shr(x, k)) \in Word /\ Xor(x, Shl(x, k)) \in Word
BY DEF Xor, Shr, Shl, Word

\* random.rs, next_u64: no two states of the generator lead to the same one, so
\* its 2^64 states are permuted and a stream never merges with another.
THEOREM NextStateInjective ==
    \A x, y \in Word : NextState(x) = NextState(y) => x = y
<1> SUFFICES ASSUME NEW x \in Word, NEW y \in Word, NextState(x) = NextState(y)
             PROVE  x = y
  OBVIOUS
<1> DEFINE x1 == Xor(x, Shr(x, 12))
           y1 == Xor(y, Shr(y, 12))
           x2 == Xor(x1, Shl(x1, 25))
           y2 == Xor(y1, Shl(y1, 25))
<1>1. x1 \in Word /\ y1 \in Word
  BY WordXor
<1> HIDE DEF x1, y1
<1>2. x2 \in Word /\ y2 \in Word
  BY <1>1, WordXor
<1>3. Xor(x2, Shr(x2, 27)) = Xor(y2, Shr(y2, 27))
  BY DEF NextState, x1, y1
<1> HIDE DEF x2, y2
<1>4. x2 = y2
  BY <1>2, <1>3, ShrInjective
<1>5. x1 = y1
  BY <1>1, <1>4, ShlInjective DEF x2, y2
<1> QED BY <1>5, ShrInjective DEF x1, y1

\* A generator that is not at zero, where xorshift is stuck and every draw is
\* zero, never gets there: only the seed can put it at zero.
THEOREM StateNeverZero ==
    \A x \in Word : x # Zero => NextState(x) # Zero
<1>1. Zero \in Word /\ NextState(Zero) = Zero
  BY DEF Zero, Word, NextState, Xor, Shr, Shl
<1> QED BY <1>1, NextStateInjective

\* game.rs draws each player's randomness of a round from for_round: different
\* words mixed in give different generator states, whatever the match's state.
THEOREM RoundsDiffer ==
    \A s, v, w \in Word : ForRound(s, v) = ForRound(s, w) => v = w
<1> SUFFICES ASSUME NEW s \in Word, NEW v \in Word, NEW w \in Word,
                    ForRound(s, v) = ForRound(s, w)
             PROVE  v = w
  OBVIOUS
<1>1. Xor(s, v) \in Word /\ Xor(s, w) \in Word
  BY DEF Xor, Word
<1>2. Xor(s, v) = Xor(s, w)
  BY <1>1, NextStateInjective DEF ForRound
<1> QED BY <1>2 DEF Xor

=============================================================================
