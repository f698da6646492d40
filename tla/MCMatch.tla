------------------------------ MODULE MCMatch -------------------------------
(***************************************************************************)
(* Matches for TLC: every builtin and three custom programs against each   *)
(* other, in short matches.                                                *)
(***************************************************************************)
EXTENDS Match

BuiltinPlayers == {[base |-> b, bytecode |-> << >>] : b \in StrategyBase}

\* Defect when the first draw exceeds the second; a program without a terminal,
\* which only a replay runs; defect every other round.
CustomPrograms ==
    {<<op.RAND, op.RAND, op.GT, op.RETURN>>, <<op.OPP_LAST, op.JMP_FWD, 0>>,
     <<op.MY_LAST, op.NOT, op.RETURN>>}

MCCompetitors ==
    BuiltinPlayers \cup {[base |-> "Custom", bytecode |-> c] : c \in CustomPrograms}

MCStandard == [min_rounds |-> 4, max_rounds |-> 6, end_probability |-> 5]
MCCompressed == [min_rounds |-> 2, max_rounds |-> 5, end_probability |-> 7]

MCStreams == {<<49, 50>>, <<50, 49>>}

=============================================================================
