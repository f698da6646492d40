------------------------------ MODULE Bytecode ------------------------------
(***************************************************************************)
(* The interpreter of vm.rs: one instruction at a time, and a whole        *)
(* execution.  A program is a sequence of bytes, code[pc + 1] is the byte  *)
(* at offset pc.  The environment env of an execution is what the program  *)
(* can observe: the histories opp and my, the round, and draws, the        *)
(* percentages its random stream yields (repeated when used up).           *)
(***************************************************************************)
EXTENDS Integers, Sequences, FiniteSets, FiniteSetsExt

MAX_BYTECODE_LEN == 64
MAX_FUEL == 128
STACK_SIZE == 8

Byte == 0..255

op == [COOP |-> 0, PUSH |-> 1, OPP_LAST |-> 2, MY_LAST |-> 3, OPP_N |-> 4,
       MY_N |-> 5, OPP_DEFECTS |-> 6, MY_DEFECTS |-> 7, ROUND |-> 8, RAND |-> 9,
       ADD |-> 10, SUB |-> 11, MUL |-> 12, GT |-> 13, LT |-> 14, EQ |-> 15,
       NOT |-> 16, AND |-> 17, OR |-> 18, DUP |-> 19, JMP_FWD |-> 20,
       JMP_FWD_IF |-> 21, DEFECT |-> 22, SCORE_LAST |-> 23, RETURN |-> 24]

Known == 0..24
Terminals == {op.COOP, op.DEFECT, op.RETURN}
Jumps == {op.JMP_FWD, op.JMP_FWD_IF}
Immediates == {op.PUSH} \cup Jumps
Binary == {op.ADD, op.SUB, op.MUL, op.GT, op.LT, op.EQ, op.AND, op.OR}
Unary == {op.RETURN, op.OPP_N, op.MY_N, op.NOT, op.DUP, op.JMP_FWD_IF}

-----------------------------------------------------------------------------
Moves == {"Cooperate", "Defect"}

Payoff_Consolation(a, b) ==
    CASE a = b      -> IF a = "Cooperate" THEN <<3, 3>> ELSE <<1, 1>>
      [] a = "Defect" /\ b # a -> <<5, 1>>
      [] b = "Defect" /\ b # a -> <<1, 5>>

Payoff(a, b) ==
    CASE a = "Cooperate" /\ b = "Cooperate" -> <<3, 3>>
      [] a = "Cooperate" /\ b = "Defect"    -> <<0, 5>>
      [] a = "Defect"    /\ b = "Cooperate" -> <<5, 0>>
      [] a = "Defect"    /\ b = "Defect"    -> <<1, 1>>

\* The last move of a history, Cooperate if there is none.
LastMove(history) == IF history = << >> THEN "Cooperate" ELSE history[Len(history)]

Defections(history) == Cardinality({i \in DOMAIN history : history[i] = "Defect"})

MoveToU8(move) == IF move = "Defect" THEN 1 ELSE 0

HistoryNAgo_OffByOne(history, n) ==
    IF n >= Len(history) THEN 0 ELSE MoveToU8(history[n + 1])

HistoryNAgo(history, n) ==
    IF n >= Len(history) THEN 0 ELSE MoveToU8(history[Len(history) - n])

Bool(test) == IF test THEN 1 ELSE 0

-----------------------------------------------------------------------------
(***************************************************************************)
(* A machine is [pc, stack, fuel, drawn, halt]; halt is "running", the     *)
(* move returned, or the reason for which execute_inner returns None; the  *)
(* other registers are not read after that.                                *)
(***************************************************************************)
Failures ==
    {"FellOff", "OutOfFuel", "UnknownOpcode", "Underflow", "Truncated", "Overflow"}

Machine ==
    [pc : Nat, stack : Seq(Byte), fuel : Nat, drawn : Nat,
     halt : {"running"} \cup Moves \cup Failures]

Start == [pc |-> 0, stack |-> << >>, fuel |-> 0, drawn |-> 0, halt |-> "running"]

Pops(o) == IF o \in Binary THEN 2 ELSE IF o \in Unary THEN 1 ELSE 0

Pushes(o) ==
    IF o = op.DUP THEN 2 ELSE IF o \in Terminals \cup Jumps THEN 0 ELSE 1

Draw(env, m) == env.draws[(m.drawn % Len(env.draws)) + 1]

Saturated_Not(x) == x

\* u8 arithmetic saturates at both ends.
Saturated(x) == Max({0, Min({x, 255})})

\* The binary instructions.
Arithmetic(o, a, b) ==
    CASE o = op.ADD -> Saturated(a + b)
      [] o = op.SUB -> Saturated(a - b)
      [] o = op.MUL -> Saturated(a * b)
      [] o = op.GT  -> Bool(a > b)
      [] o = op.LT  -> Bool(a < b)
      [] o = op.EQ  -> Bool(a = b)
      [] o = op.AND -> Bool(a # 0 /\ b # 0)
      [] o = op.OR  -> Bool(a # 0 \/ b # 0)

\* The value an instruction pushes, from the top of the stack where it pops.
Value(code, env, m) ==
    LET o     == code[m.pc + 1]
        depth == Len(m.stack)
        top   == m.stack[depth]
    IN  CASE o = op.PUSH        -> code[m.pc + 2]
          [] o = op.OPP_LAST    -> MoveToU8(LastMove(env.opp))
          [] o = op.MY_LAST     -> MoveToU8(LastMove(env.my))
          [] o = op.OPP_N       -> HistoryNAgo(env.opp, top)
          [] o = op.MY_N        -> HistoryNAgo(env.my, top)
          [] o = op.OPP_DEFECTS -> Min({Defections(env.opp), 255})
          [] o = op.MY_DEFECTS  -> Min({Defections(env.my), 255})
          [] o = op.ROUND       -> env.round
          [] o = op.RAND        -> Draw(env, m)
          [] o \in Binary       -> Arithmetic(o, m.stack[depth - 1], top)
          [] o = op.NOT         -> Bool(top = 0)
          [] o = op.DUP         -> top
          [] o = op.SCORE_LAST  ->
                IF env.my = << >> THEN 3 ELSE Payoff(LastMove(env.my), LastMove(env.opp))[1]

\* The first check of the instruction at m.pc that fails, in the code's order.
Failure(code, m) ==
    LET o     == code[m.pc + 1]
        depth == Len(m.stack)
    IN  IF m.fuel + 1 > MAX_FUEL THEN "OutOfFuel"
        ELSE IF o \notin Known THEN "UnknownOpcode"
        ELSE IF depth < Pops(o) THEN "Underflow"
        ELSE IF o \in Immediates /\ m.pc + 1 >= Len(code) THEN "Truncated"
        ELSE IF depth - Pops(o) + Pushes(o) > STACK_SIZE THEN "Overflow"
        ELSE "none"

\* Does the instruction at m.pc jump?
Taken(code, m) ==
    \/ code[m.pc + 1] = op.JMP_FWD
    \/ code[m.pc + 1] = op.JMP_FWD_IF /\ m.stack[Len(m.stack)] # 0

NextPc_FromOpcode(code, m) ==
    IF Taken(code, m) THEN m.pc + code[m.pc + 2]
    ELSE IF code[m.pc + 1] \in Immediates THEN m.pc + 2 ELSE m.pc + 1

NextPc(code, m) ==
    IF Taken(code, m) THEN m.pc + 2 + code[m.pc + 2]
    ELSE IF code[m.pc + 1] \in Immediates THEN m.pc + 2 ELSE m.pc + 1

\* What a terminal instruction returns.
Returned(code, m) ==
    CASE code[m.pc + 1] = op.COOP   -> "Cooperate"
      [] code[m.pc + 1] = op.DEFECT -> "Defect"
      [] code[m.pc + 1] = op.RETURN ->
            IF m.stack[Len(m.stack)] = 0 THEN "Cooperate" ELSE "Defect"

\* An instruction that neither fails nor returns.
Continued(code, env, m) ==
    LET o    == code[m.pc + 1]
        kept == SubSeq(m.stack, 1, Len(m.stack) - Pops(o))
    IN  [m EXCEPT !.pc    = NextPc(code, m),
                  !.stack = kept \o [i \in 1..Pushes(o) |-> Value(code, env, m)],
                  !.fuel  = @ + 1,
                  !.drawn = IF o = op.RAND THEN @ + 1 ELSE @]

\* One pass of the loop of execute_inner.
Step(code, env, m) ==
    IF m.pc >= Len(code) THEN [m EXCEPT !.halt = "FellOff"]
    ELSE IF Failure(code, m) # "none" THEN [m EXCEPT !.halt = Failure(code, m)]
    ELSE IF code[m.pc + 1] \in Terminals THEN [m EXCEPT !.halt = Returned(code, m)]
    ELSE Continued(code, env, m)

ExecuteInner(code, env) ==
    LET run[m \in Machine] == IF m.halt = "running" THEN run[Step(code, env, m)] ELSE m
    IN  run[Start].halt

\* Any runtime error is a Cooperate.
ExecuteBytecode(code, env) ==
    LET result == ExecuteInner(code, env)
    IN  IF result \in Moves THEN result ELSE "Cooperate"

=============================================================================
