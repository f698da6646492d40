----------------------------- MODULE Strategies -----------------------------
(***************************************************************************)
(* strategy.rs: the nine builtin strategies as functions of the two        *)
(* histories and of the first percentage drawn from the round's stream,    *)
(* and the dispatch between them and custom programs.  A PlayerStrategy is *)
(* [base, bytecode]; the bytecode of a builtin is empty.                   *)
(***************************************************************************)
EXTENDS Bytecode

StrategyBase ==
    {"TitForTat", "AlwaysDefect", "AlwaysCooperate", "GrimTrigger", "Pavlov",
     "SuspiciousTitForTat", "Random", "TitForTwoTats", "Gradual"}

PlayerStrategy == [base : StrategyBase \cup {"Custom"}, bytecode : Seq(Byte)]

DefectIf(test) == IF test THEN "Defect" ELSE "Cooperate"

ExecutePavlov(opp, my) ==
    LET score == Payoff(LastMove(my), LastMove(opp))[1]
    IN  IF my = << >> THEN "Cooperate"
        ELSE IF score >= 3 THEN LastMove(my)
        ELSE DefectIf(LastMove(my) = "Cooperate")

ExecuteTitForTwoTats(opp) ==
    DefectIf(/\ Len(opp) >= 2
             /\ opp[Len(opp) - 1] = "Defect" /\ opp[Len(opp)] = "Defect")

ExecuteGradual_Eager(opp, my) ==
    LET theirs == Defections(opp)
    IN  DefectIf(Defections(my) <= (theirs * (theirs + 1)) \div 2)

ExecuteGradual_NotHalved(opp, my) ==
    LET theirs == Defections(opp)
    IN  DefectIf(Defections(my) < theirs * (theirs + 1))

ExecuteGradual(opp, my) ==
    LET theirs == Defections(opp)
    IN  DefectIf(Defections(my) < (theirs * (theirs + 1)) \div 2)

ExecuteStrategy(base, opp, my, draws) ==
    CASE base = "TitForTat"           -> LastMove(opp)
      [] base = "AlwaysDefect"        -> "Defect"
      [] base = "AlwaysCooperate"     -> "Cooperate"
      [] base = "GrimTrigger"         -> DefectIf(\E i \in DOMAIN opp : opp[i] = "Defect")
      [] base = "Pavlov"              -> ExecutePavlov(opp, my)
      [] base = "SuspiciousTitForTat" -> IF opp = << >> THEN "Defect" ELSE LastMove(opp)
      [] base = "Random"              -> DefectIf(draws[1] >= 50)
      [] base = "TitForTwoTats"       -> ExecuteTitForTwoTats(opp)
      [] base = "Gradual"             -> ExecuteGradual(opp, my)

ExecutePlayerStrategy(s, opp, my, round, draws) ==
    IF s.base = "Custom"
    THEN ExecuteBytecode(s.bytecode,
                         [opp |-> opp, my |-> my, round |-> round, draws |-> draws])
    ELSE ExecuteStrategy(s.base, opp, my, draws)

-----------------------------------------------------------------------------
\* The programs of the parity tests in vm.rs, by the builtin they reproduce.
ParityProgram ==
    [AlwaysCooperate     |-> <<op.COOP>>,
     AlwaysDefect        |-> <<op.DEFECT>>,
     TitForTat           |-> <<op.OPP_LAST, op.RETURN>>,
     GrimTrigger         |-> <<op.OPP_DEFECTS, op.PUSH, 0, op.GT, op.JMP_FWD_IF, 1,
                               op.COOP, op.DEFECT>>,
     SuspiciousTitForTat |-> <<op.ROUND, op.PUSH, 0, op.EQ, op.JMP_FWD_IF, 2,
                               op.OPP_LAST, op.RETURN, op.DEFECT>>,
     TitForTwoTats       |-> <<op.ROUND, op.PUSH, 2, op.LT, op.JMP_FWD_IF, 8,
                               op.PUSH, 0, op.OPP_N, op.PUSH, 1, op.OPP_N, op.AND,
                               op.RETURN, op.COOP>>,
     Pavlov              |-> <<op.ROUND, op.PUSH, 0, op.EQ, op.JMP_FWD_IF, 9,
                               op.SCORE_LAST, op.PUSH, 3, op.LT, op.JMP_FWD_IF, 3,
                               op.MY_LAST, op.RETURN, op.MY_LAST, op.NOT, op.RETURN,
                               op.COOP>>]

=============================================================================
