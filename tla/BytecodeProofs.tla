-------------------------- MODULE BytecodeProofs ---------------------------
(***************************************************************************)
(* Proofs about the interpreter of vm.rs: every pass of its loop keeps the *)
(* types of the registers, the loop of every program ends, and the         *)
(* programs of the parity tests compute what the builtins of strategy.rs   *)
(* do.                                                                     *)
(***************************************************************************)
EXTENDS Strategies, FiniteSetTheorems, WellFoundedInduction, TLAPS


\* Every instruction that continues moves forward, jumps included.
LEMMA NextPcForward ==
    ASSUME NEW c \in Seq(Byte), NEW m, m.pc \in Nat, m.pc < Len(c),
           Failure(c, m) = "none"
    PROVE  NextPc(c, m) \in Nat /\ NextPc(c, m) >= m.pc + 1
<1>1. c[m.pc + 1] \in Immediates => m.pc + 1 < Len(c)
  <2>1. c[m.pc + 1] \in Immediates /\ m.pc + 1 >= Len(c) => Failure(c, m) # "none"
    BY DEF Failure
  <2> QED BY <2>1
<1>2. c[m.pc + 1] \in Immediates => c[m.pc + 2] \in Nat
  <2>1. \A i \in 1..Len(c) : c[i] \in Byte
    OBVIOUS
  <2>2. m.pc + 1 < Len(c) => m.pc + 2 \in 1..Len(c)
    OBVIOUS
  <2>3. m.pc + 1 < Len(c) => c[m.pc + 2] \in Byte
    BY <2>1, <2>2
  <2>4. Byte \subseteq Nat
    BY DEF Byte
  <2> QED BY <1>1, <2>3, <2>4
<1>3. Taken(c, m) => c[m.pc + 1] \in Immediates
  BY DEF Taken, Immediates, Jumps
<1>4. CASE Taken(c, m)
  BY <1>2, <1>3, <1>4 DEF NextPc
<1>5. CASE ~Taken(c, m)
  BY <1>5 DEF NextPc
<1> QED BY <1>4, <1>5

\* Fuel is only refused when all of it was used.
LEMMA OutOfFuelOnlyAtLimit ==
    ASSUME NEW c, NEW m, m.fuel \in Nat, Failure(c, m) = "OutOfFuel"
    PROVE  m.fuel >= MAX_FUEL
BY DEF Failure, MAX_FUEL

LEMMA DefectionsCount == ASSUME NEW h \in Seq(Moves) PROVE Defections(h) \in Nat
<1>1. DOMAIN h = 1..Len(h) /\ Len(h) \in Nat
  OBVIOUS
<1>2. IsFiniteSet(1..Len(h))
  BY <1>1, FS_Interval
<1>3. IsFiniteSet({i \in DOMAIN h : h[i] = "Defect"})
  BY <1>1, <1>2, FS_Subset
<1> QED
  BY <1>3, FS_CardinalityType DEF Defections

LEMMA MinIsByte == ASSUME NEW x \in Nat PROVE Min({x, 255}) \in Byte
<1>1. Min({x, 255}) = IF x <= 255 THEN x ELSE 255
  BY DEF Min
<1> QED
  BY <1>1 DEF Byte

\* u8 arithmetic saturates.
LEMMA SaturatedIsByte == ASSUME NEW x \in Int PROVE Saturated(x) \in Byte
<1>1. Min({x, 255}) = IF x <= 255 THEN x ELSE 255
  BY DEF Min
<1> DEFINE y == IF x <= 255 THEN x ELSE 255
<1>2. y \in Int /\ y <= 255
  OBVIOUS
<1> HIDE DEF y
<1>3. Max({0, y}) = IF y >= 0 THEN y ELSE 0
  BY <1>2 DEF Max
<1>4. Saturated(x) = Max({0, y})
  BY <1>1 DEF Saturated, y
<1> QED
  BY <1>2, <1>3, <1>4 DEF Byte

LEMMA ArithmeticIsByte ==
    ASSUME NEW o \in Binary, NEW a \in Byte, NEW b \in Byte
    PROVE  Arithmetic(o, a, b) \in Byte
<1>1. a \in Int /\ b \in Int /\ 0 \in Byte /\ 1 \in Byte
  BY DEF Byte
<1>2. a + b \in Int /\ a - b \in Int /\ a * b \in Int
  BY <1>1
<1>3. /\ Saturated(a + b) \in Byte /\ Saturated(a - b) \in Byte
      /\ Saturated(a * b) \in Byte
  BY <1>2, SaturatedIsByte
<1>4. \A test : Bool(test) \in Byte
  BY <1>1 DEF Bool
<1> QED
  BY <1>3, <1>4 DEF Arithmetic, Binary, op

LEMMA LastMoveIsMove == ASSUME NEW h \in Seq(Moves) PROVE LastMove(h) \in Moves
BY DEF LastMove, Moves

LEMMA HistoryIsByte ==
    ASSUME NEW h, NEW n PROVE HistoryNAgo(h, n) \in Byte
BY DEF HistoryNAgo, MoveToU8, Byte

Observed == [opp : Seq(Moves), my : Seq(Moves), round : Byte, draws : Seq(0..99) \ {<< >>}]

\* The stack holds what the instruction pops.
LEMMA StackHoldsPopped ==
    ASSUME NEW c \in Seq(Byte), NEW m, m.pc \in Nat, m.pc < Len(c),
           m.stack \in Seq(Byte), Failure(c, m) = "none"
    PROVE  /\ c[m.pc + 1] \in Known
           /\ Pops(c[m.pc + 1]) \in 0..Len(m.stack)
           /\ Len(m.stack) - Pops(c[m.pc + 1]) + Pushes(c[m.pc + 1]) <= STACK_SIZE
           /\ c[m.pc + 1] \in Immediates => c[m.pc + 2] \in Byte
<1> DEFINE o == c[m.pc + 1]
<1>1. /\ o \in Known /\ ~(Len(m.stack) < Pops(o))
      /\ ~(o \in Immediates /\ m.pc + 1 >= Len(c))
      /\ ~(Len(m.stack) - Pops(o) + Pushes(o) > STACK_SIZE)
  BY DEF Failure
<1>2. Len(m.stack) \in Nat /\ Len(c) \in Nat
  OBVIOUS
<1>3. Pops(o) \in {0, 1, 2} /\ Pushes(o) \in {0, 1, 2}
  BY DEF Pops, Pushes
<1>4. o \in Immediates => m.pc + 2 \in 1..Len(c)
  BY <1>1, <1>2
<1>5. o \in Immediates => c[m.pc + 2] \in Byte
  BY <1>4
<1> QED
  BY <1>1, <1>2, <1>3, <1>5 DEF STACK_SIZE

\* The numbers of the instructions.
LEMMA OpCodes ==
    /\ op.COOP = 0 /\ op.PUSH = 1 /\ op.OPP_LAST = 2 /\ op.MY_LAST = 3 /\ op.OPP_N = 4
    /\ op.MY_N = 5 /\ op.OPP_DEFECTS = 6 /\ op.MY_DEFECTS = 7 /\ op.ROUND = 8
    /\ op.RAND = 9 /\ op.ADD = 10 /\ op.SUB = 11 /\ op.MUL = 12 /\ op.GT = 13
    /\ op.LT = 14 /\ op.EQ = 15 /\ op.NOT = 16 /\ op.AND = 17 /\ op.OR = 18
    /\ op.DUP = 19 /\ op.JMP_FWD = 20 /\ op.JMP_FWD_IF = 21 /\ op.DEFECT = 22
    /\ op.SCORE_LAST = 23 /\ op.RETURN = 24
BY DEF op

LEMMA BinaryCodes == Binary = {10, 11, 12, 13, 14, 15, 17, 18}
BY OpCodes DEF Binary

LEMMA PayoffIsByte ==
    ASSUME NEW a \in Moves, NEW b \in Moves PROVE Payoff(a, b)[1] \in Byte
<1>1. a \in {"Cooperate", "Defect"} /\ b \in {"Cooperate", "Defect"}
  BY DEF Moves
<1>2. Payoff(a, b) \in {<<3, 3>>, <<0, 5>>, <<5, 0>>, <<1, 1>>}
  BY <1>1 DEF Payoff
<1> QED
  BY <1>2 DEF Byte

\* What Value is, instruction by instruction.
ValueByInstruction(c, e, m) ==
    LET o     == c[m.pc + 1]
        depth == Len(m.stack)
        top   == m.stack[depth]
        V     == Value(c, e, m)
    IN  /\ o = op.PUSH => V = c[m.pc + 2]
        /\ o = op.OPP_LAST => V = MoveToU8(LastMove(e.opp))
        /\ o = op.MY_LAST => V = MoveToU8(LastMove(e.my))
        /\ o = op.OPP_N => V = HistoryNAgo(e.opp, top)
        /\ o = op.MY_N => V = HistoryNAgo(e.my, top)
        /\ o = op.OPP_DEFECTS => V = Min({Defections(e.opp), 255})
        /\ o = op.MY_DEFECTS => V = Min({Defections(e.my), 255})
        /\ o = op.ROUND => V = e.round
        /\ o = op.RAND => V = Draw(e, m)
        /\ o = op.NOT => V = Bool(top = 0)
        /\ o = op.DUP => V = top
        /\ o = op.SCORE_LAST => V = IF e.my = << >> THEN 3
                                 ELSE Payoff(LastMove(e.my), LastMove(e.opp))[1]
        /\ o \in Binary => V = Arithmetic(o, m.stack[depth - 1], top)

LEMMA ValueOf == ASSUME NEW c, NEW e, NEW m PROVE ValueByInstruction(c, e, m)
<1> DEFINE o == c[m.pc + 1]
           depth == Len(m.stack)
           top == m.stack[depth]
           V == Value(c, e, m)
<1>1. ASSUME o = op.PUSH PROVE V = c[m.pc + 2]
  BY <1>1, OpCodes, BinaryCodes DEF Value
<1>2. ASSUME o = op.OPP_LAST PROVE V = MoveToU8(LastMove(e.opp))
  BY <1>2, OpCodes, BinaryCodes DEF Value
<1>3. ASSUME o = op.MY_LAST PROVE V = MoveToU8(LastMove(e.my))
  BY <1>3, OpCodes, BinaryCodes DEF Value
<1>4. ASSUME o = op.OPP_N PROVE V = HistoryNAgo(e.opp, top)
  BY <1>4, OpCodes, BinaryCodes DEF Value
<1>5. ASSUME o = op.MY_N PROVE V = HistoryNAgo(e.my, top)
  BY <1>5, OpCodes, BinaryCodes DEF Value
<1>6. ASSUME o = op.OPP_DEFECTS PROVE V = Min({Defections(e.opp), 255})
  BY <1>6, OpCodes, BinaryCodes DEF Value
<1>7. ASSUME o = op.MY_DEFECTS PROVE V = Min({Defections(e.my), 255})
  BY <1>7, OpCodes, BinaryCodes DEF Value
<1>8. ASSUME o = op.ROUND PROVE V = e.round
  BY <1>8, OpCodes, BinaryCodes DEF Value
<1>9. ASSUME o = op.RAND PROVE V = Draw(e, m)
  BY <1>9, OpCodes, BinaryCodes DEF Value
<1>10. ASSUME o = op.NOT PROVE V = Bool(top = 0)
  BY <1>10, OpCodes, BinaryCodes DEF Value
<1>11. ASSUME o = op.DUP PROVE V = top
  BY <1>11, OpCodes, BinaryCodes DEF Value
<1>12. ASSUME o = op.SCORE_LAST PROVE V = IF e.my = << >> THEN 3
                                        ELSE Payoff(LastMove(e.my), LastMove(e.opp))[1]
  BY <1>12, OpCodes, BinaryCodes DEF Value
<1>13. ASSUME o \in Binary PROVE V = Arithmetic(o, m.stack[depth - 1], top)
  <2>1. o \notin {op.PUSH, op.OPP_LAST, op.MY_LAST, op.OPP_N, op.MY_N, op.OPP_DEFECTS,
                  op.MY_DEFECTS, op.ROUND, op.RAND, op.NOT, op.DUP, op.SCORE_LAST}
    BY <1>13, OpCodes, BinaryCodes
  <2> QED
    BY <1>13, <2>1, Zenon DEF Value
<1> HIDE DEF o, V, top, depth
<1> QED
  BY <1>1, <1>2, <1>3, <1>4, <1>5, <1>6, <1>7, <1>8, <1>9, <1>10, <1>11, <1>12, <1>13
     DEF o, V, top, depth, ValueByInstruction

\* Every instruction that pushes pushes a u8.
LEMMA ValueIsByte ==
    ASSUME NEW c \in Seq(Byte), NEW e \in Observed, NEW m, m.pc \in Nat, m.pc < Len(c),
           m.stack \in Seq(Byte), m.drawn \in Nat, Failure(c, m) = "none",
           c[m.pc + 1] \notin Terminals \cup Jumps
    PROVE  Value(c, e, m) \in Byte
<1> DEFINE o == c[m.pc + 1]
           depth == Len(m.stack)
           top == m.stack[depth]
<1>1. /\ o \in Known /\ Pops(o) \in 0..depth
      /\ o \in Immediates => c[m.pc + 2] \in Byte
  BY StackHoldsPopped
<1>2. depth \in Nat /\ \A i \in 1..depth : m.stack[i] \in Byte
  OBVIOUS
<1>3. o \in Unary \cup Binary => top \in Byte
  <2>1. o \in Unary \cup Binary => Pops(o) >= 1
    BY DEF Pops
  <2>2. o \in Unary \cup Binary => depth \in 1..depth
    BY <1>1, <1>2, <2>1
  <2> QED
    BY <1>2, <2>2
<1>4. o \in Binary => m.stack[depth - 1] \in Byte
  <2>1. o \in Binary => Pops(o) = 2
    BY DEF Pops
  <2>2. o \in Binary => depth - 1 \in 1..depth
    BY <1>1, <1>2, <2>1
  <2> QED
    BY <1>2, <2>2
<1>5. o \in Binary => Arithmetic(o, m.stack[depth - 1], top) \in Byte
  BY <1>3, <1>4, ArithmeticIsByte
<1>6. e.opp \in Seq(Moves) /\ e.my \in Seq(Moves) /\ e.round \in Byte
  BY DEF Observed
<1>7. /\ Min({Defections(e.opp), 255}) \in Byte
      /\ Min({Defections(e.my), 255}) \in Byte
  BY <1>6, DefectionsCount, MinIsByte
<1>8. \A h, n : HistoryNAgo(h, n) \in Byte
  BY HistoryIsByte
<1>9. Draw(e, m) \in Byte
  <2>1. e.draws \in Seq(0..99) /\ e.draws # << >>
    BY DEF Observed
  <2>2. Len(e.draws) \in Nat \ {0}
    BY <2>1
  <2>3. (m.drawn % Len(e.draws)) + 1 \in 1..Len(e.draws)
    BY <2>2
  <2> DEFINE k == (m.drawn % Len(e.draws)) + 1
  <2>4. \A S : \A q \in Seq(S) : \A j \in 1..Len(q) : q[j] \in S
    OBVIOUS
  <2>5. e.draws[k] \in 0..99
    BY <2>1, <2>3, <2>4
  <2>6. Draw(e, m) = e.draws[k]
    BY Zenon DEF Draw
  <2>7. 0..99 \subseteq Byte
    BY DEF Byte
  <2> HIDE DEF k
  <2> QED
    BY ONLY <2>5, <2>6, <2>7, Zenon
<1>10. (\A v : MoveToU8(v) \in Byte) /\ (\A test : Bool(test) \in Byte) /\ 3 \in Byte
  BY DEF MoveToU8, Bool, Byte
<1>11. Payoff(LastMove(e.my), LastMove(e.opp))[1] \in Byte
  <2>1. LastMove(e.my) \in Moves /\ LastMove(e.opp) \in Moves
    BY <1>6, LastMoveIsMove
  <2> QED
    BY <2>1, PayoffIsByte
<1>12. o \in {op.OPP_N, op.MY_N, op.NOT, op.DUP} => o \in Unary
  BY DEF Unary
<1>13. o \in {op.PUSH, op.OPP_LAST, op.MY_LAST, op.OPP_N, op.MY_N, op.OPP_DEFECTS,
              op.MY_DEFECTS, op.ROUND, op.RAND, op.NOT, op.DUP, op.SCORE_LAST} \cup Binary
  BY <1>1 DEF Known, Terminals, Jumps, Binary, op
<1> DEFINE V == Value(c, e, m)
<1>14. ValueByInstruction(c, e, m)
  BY ValueOf
<1>15. o = op.PUSH => o \in Immediates
  BY DEF Immediates
<1>16. o \in {op.PUSH, op.OPP_LAST, op.MY_LAST, op.OPP_N, op.MY_N} => V \in Byte
  BY <1>1, <1>8, <1>10, <1>14, <1>15 DEF ValueByInstruction
<1>17. o \in {op.OPP_DEFECTS, op.MY_DEFECTS, op.ROUND, op.RAND} => V \in Byte
  BY <1>6, <1>7, <1>9, <1>14 DEF ValueByInstruction
<1>18. o \in Binary \cup {op.NOT, op.DUP, op.SCORE_LAST} => V \in Byte
  BY <1>3, <1>5, <1>10, <1>11, <1>12, <1>14 DEF ValueByInstruction
<1> QED
  BY <1>13, <1>16, <1>17, <1>18

\* The stack an instruction leaves behind.
LEMMA ContinuedStack ==
    ASSUME NEW c \in Seq(Byte), NEW e \in Observed, NEW m, m.pc \in Nat, m.pc < Len(c),
           m.stack \in Seq(Byte), m.drawn \in Nat, Failure(c, m) = "none",
           c[m.pc + 1] \notin Terminals
    PROVE  LET o     == c[m.pc + 1]
               stack == SubSeq(m.stack, 1, Len(m.stack) - Pops(o))
                            \o [i \in 1..Pushes(o) |-> Value(c, e, m)]
           IN  stack \in Seq(Byte) /\ Len(stack) <= STACK_SIZE
<1> DEFINE o == c[m.pc + 1]
           n == Len(m.stack) - Pops(o)
           kept == SubSeq(m.stack, 1, n)
           pushed == [i \in 1..Pushes(o) |-> Value(c, e, m)]
<1>1. /\ Pops(o) \in 0..Len(m.stack)
      /\ Len(m.stack) - Pops(o) + Pushes(o) <= STACK_SIZE
  BY StackHoldsPopped
<1>2. n \in 0..Len(m.stack)
  BY <1>1
<1>3. kept \in Seq(Byte) /\ Len(kept) = n
  <2> HIDE DEF n
  <2> QED
    BY <1>2
<1>4. Pushes(o) \in Nat
  BY DEF Pushes
<1>5. pushed \in Seq(Byte)
  <2>1. CASE o \in Jumps
    <3>0. o # op.DUP
      <4>1. op.DUP \notin Jumps
        BY OpCodes DEF Jumps
      <4> QED
        BY <2>1, <4>1
    <3>1. Pushes(o) = 0
      BY ONLY <2>1, <3>0 DEF Pushes
    <3>2. \A i \in 1..0 : Value(c, e, m) \in Byte
      OBVIOUS
    <3> QED
      BY <3>1, <3>2
  <2>2. CASE o \notin Jumps
    <3>1. Value(c, e, m) \in Byte
      BY <2>2, ValueIsByte
    <3> QED
      BY <1>4, <3>1
  <2> QED
    BY <2>1, <2>2
<1>6. Len(pushed) = Pushes(o)
  BY <1>4, <1>5
<1> HIDE DEF kept, pushed, n
<1>7. kept \o pushed \in Seq(Byte)
  BY ONLY <1>3, <1>5
<1>8. Len(kept \o pushed) = n + Pushes(o)
  BY ONLY <1>3, <1>5, <1>6
<1> QED
  BY <1>1, <1>7, <1>8 DEF kept, pushed, n

LEMMA FailureIsNamed ==
    ASSUME NEW c, NEW m PROVE Failure(c, m) \in Failures \cup {"none"}
BY DEF Failure, Failures

\* What a pass of the loop does to the registers: they keep their types, and the
\* loop only goes on for fuel.
StepPromise(c, e, m) ==
    LET n == Step(c, e, m)
    IN  /\ n \in Machine
        /\ Len(m.stack) <= STACK_SIZE => Len(n.stack) <= STACK_SIZE
        /\ m.fuel <= MAX_FUEL => n.fuel <= MAX_FUEL
        /\ n.halt = "running" => n.fuel = m.fuel + 1 /\ m.fuel < MAX_FUEL

LEMMA StepTyped ==
    ASSUME NEW c \in Seq(Byte), NEW e \in Observed, NEW m \in Machine,
           m.halt = "running"
    PROVE  StepPromise(c, e, m)
<1> DEFINE Halted(h) == [m EXCEPT !.halt = h]
           n == Step(c, e, m)
<1>1. /\ m.pc \in Nat /\ m.stack \in Seq(Byte) /\ m.fuel \in Nat /\ m.drawn \in Nat
      /\ Len(c) \in Nat
      /\ m = [pc |-> m.pc, stack |-> m.stack, fuel |-> m.fuel, drawn |-> m.drawn,
              halt |-> m.halt]
  BY DEF Machine
<1>2. ASSUME NEW h \in Moves \cup Failures, n = Halted(h) PROVE StepPromise(c, e, m)
  <2>1. n = [pc |-> m.pc, stack |-> m.stack, fuel |-> m.fuel, drawn |-> m.drawn,
             halt |-> h]
    BY <1>1, <1>2
  <2>2. h # "running"
    BY DEF Moves, Failures
  <2> HIDE DEF n
  <2>3. n \in Machine
    BY <1>1, <2>1 DEF Machine
  <2> QED
    BY <1>1, <2>1, <2>2, <2>3 DEF StepPromise, n
<1>3. CASE m.pc >= Len(c)
  <2>1. n = Halted("FellOff") /\ "FellOff" \in Failures
    BY <1>3 DEF Step, Failures
  <2> QED
    BY <1>2, <2>1
<1>4. CASE m.pc < Len(c) /\ Failure(c, m) # "none"
  <2>1. n = Halted(Failure(c, m))
    BY <1>1, <1>4 DEF Step
  <2>2. Failure(c, m) \in Failures
    BY <1>4, FailureIsNamed
  <2> QED
    BY <1>2, <2>1, <2>2
<1>5. CASE m.pc < Len(c) /\ Failure(c, m) = "none" /\ c[m.pc + 1] \in Terminals
  <2>1. n = Halted(Returned(c, m))
    BY <1>1, <1>5 DEF Step
  <2>2. Returned(c, m) \in Moves
    BY <1>5 DEF Returned, Terminals, Moves
  <2> QED
    BY <1>2, <2>1, <2>2
<1>6. CASE m.pc < Len(c) /\ Failure(c, m) = "none" /\ c[m.pc + 1] \notin Terminals
  <2> DEFINE o == c[m.pc + 1]
             stack == SubSeq(m.stack, 1, Len(m.stack) - Pops(o))
                          \o [i \in 1..Pushes(o) |-> Value(c, e, m)]
  <2>1. stack \in Seq(Byte) /\ Len(stack) <= STACK_SIZE
    BY <1>1, <1>6, ContinuedStack
  <2>2. NextPc(c, m) \in Nat
    BY <1>1, <1>6, NextPcForward
  <2>3. m.fuel + 1 <= MAX_FUEL
    <3>1. ~(m.fuel + 1 > MAX_FUEL)
      BY <1>6 DEF Failure
    <3> QED
      BY <1>1, <3>1 DEF MAX_FUEL
  <2>4. n = Continued(c, e, m)
    BY <1>1, <1>6 DEF Step
  <2>5. n = [m EXCEPT !.pc = NextPc(c, m), !.stack = stack, !.fuel = @ + 1,
                      !.drawn = IF o = op.RAND THEN @ + 1 ELSE @]
    BY <2>4 DEF Continued
  <2> HIDE DEF stack, n
  <2>6. n = [pc |-> NextPc(c, m), stack |-> stack, fuel |-> m.fuel + 1,
             drawn |-> IF o = op.RAND THEN m.drawn + 1 ELSE m.drawn,
             halt |-> "running"]
    BY <1>1, <2>5
  <2>7. n \in Machine
    BY <1>1, <2>1, <2>2, <2>6 DEF Machine
  <2>8. Len(n.stack) <= STACK_SIZE /\ n.fuel = m.fuel + 1 /\ n.fuel <= MAX_FUEL
        /\ m.fuel < MAX_FUEL
    BY <1>1, <2>1, <2>3, <2>6 DEF MAX_FUEL
  <2> QED
    BY <2>7, <2>8 DEF StepPromise, n
<1> QED
  BY <1>1, <1>3, <1>4, <1>5, <1>6

-----------------------------------------------------------------------------
(***************************************************************************)
(* The loop                                                                *)
(***************************************************************************)
\* Induction over the numbers, as a property of sets of numbers.
LEMMA NumberInduction ==
    ASSUME NEW S \in SUBSET Nat, 0 \in S, \A x \in S : x + 1 \in S
    PROVE  S = Nat
<1> SUFFICES ASSUME Nat \ S # {} PROVE FALSE
  OBVIOUS
<1>1. PICK x \in Nat \ S : \A y \in Nat \ S : ~(<<y, x>> \in OpToRel(<, Nat))
  BY NatLessThanWellFounded, WFMin
<1>2. x # 0 /\ x - 1 \in Nat
  OBVIOUS
<1>3. x - 1 \in S
  <2>1. SUFFICES ASSUME x - 1 \in Nat \ S PROVE FALSE
    BY <1>2
  <2>2. <<x - 1, x>> \in OpToRel(<, Nat)
    BY <1>2 DEF OpToRel
  <2> QED
    BY <1>1, <2>1, <2>2
<1> QED
  BY <1>2, <1>3

\* g is the function ExecuteInner defines: it maps a machine to the one with
\* which the loop ends.
IsRun(g, c, e) ==
    g = [m \in Machine |-> IF m.halt = "running" THEN g[Step(c, e, m)] ELSE m]

\* g is that function for machines with at most k units of fuel left.
IsRunFor(g, c, e, k) ==
    \A m \in Machine :
        m.halt # "running" \/ m.fuel + k >= MAX_FUEL =>
            g[m] = IF m.halt = "running" THEN g[Step(c, e, m)] ELSE m

\* The loop is well defined, by induction on the fuel that is left.
LEMMA RunExists ==
    ASSUME NEW c \in Seq(Byte), NEW e \in Observed
    PROVE  \E g : IsRun(g, c, e)
<1> DEFINE Ended(g) == g \in [Machine -> Machine] /\ \A m \in Machine :
                           m.halt # "running" => g[m] = m
           Found(k) == \E g : Ended(g) /\ IsRunFor(g, c, e, k)
           G == {k \in Nat : Found(k)}
           St(m) == Step(c, e, m)
           Through(g) == [m \in Machine |-> IF m.halt = "running" THEN g[St(m)] ELSE m]
<1>1. \A m \in Machine : m.fuel \in Nat /\ m.pc \in Nat
  BY DEF Machine
<1>2. ASSUME NEW m \in Machine, m.halt = "running"
      PROVE  /\ St(m) \in Machine
             /\ St(m).halt = "running" => St(m).fuel = m.fuel + 1 /\ m.fuel < MAX_FUEL
  BY <1>2, StepTyped DEF StepPromise
<1>3. ASSUME NEW g, Ended(g) PROVE Ended(Through(g))
  BY <1>2, <1>3
<1> HIDE DEF St
<1>4. 0 \in G
  <2> DEFINE id == [m \in Machine |-> m]
             g == Through(id)
  <2>1. Ended(g)
    BY <1>2
  <2>2. ASSUME NEW m \in Machine, m.halt # "running" \/ m.fuel + 0 >= MAX_FUEL
        PROVE  g[m] = IF m.halt = "running" THEN g[St(m)] ELSE m
    <3>1. CASE m.halt = "running"
      <4>1. St(m) \in Machine /\ St(m).halt # "running"
        BY <1>1, <1>2, <2>2, <3>1 DEF MAX_FUEL
      <4> QED BY <3>1, <4>1
    <3>2. CASE m.halt # "running"
      BY <3>2
    <3> QED BY <3>1, <3>2
  <2> HIDE DEF g
  <2>3. IsRunFor(g, c, e, 0)
    BY <2>2 DEF IsRunFor, St
  <2> QED BY <2>1, <2>3
<1>5. ASSUME NEW k \in G PROVE k + 1 \in G
  <2>1. PICK g : Ended(g) /\ IsRunFor(g, c, e, k)
    BY <1>5
  <2> DEFINE f == Through(g)
  <2>2. Ended(f)
    BY <1>3, <2>1
  <2>3. ASSUME NEW m \in Machine, m.halt # "running" \/ m.fuel + (k + 1) >= MAX_FUEL
        PROVE  f[m] = IF m.halt = "running" THEN f[St(m)] ELSE m
    <3>1. CASE m.halt = "running"
      <4>1. St(m) \in Machine
        BY <1>2, <3>1
      <4>2. St(m).halt # "running" \/ St(m).fuel + k >= MAX_FUEL
        BY <1>1, <1>2, <2>3, <3>1, SMTT(40) DEF MAX_FUEL
      <4>3. f[m] = g[St(m)]
        BY <3>1
      <4>4. f[St(m)] = IF St(m).halt = "running" THEN g[St(St(m))] ELSE St(m)
        BY <4>1
      <4>5. g[St(m)] = IF St(m).halt = "running" THEN g[St(St(m))] ELSE St(m)
        BY <2>1, <4>1, <4>2 DEF IsRunFor, St
      <4> QED BY <3>1, <4>3, <4>4, <4>5
    <3>2. CASE m.halt # "running"
      BY <3>2
    <3> QED BY <3>1, <3>2
  <2> HIDE DEF f
  <2>4. IsRunFor(f, c, e, k + 1)
    BY <2>3 DEF IsRunFor, St
  <2> QED BY <1>5, <2>2, <2>4
<1>6. Found(MAX_FUEL)
  <2>1. G \in SUBSET Nat
    OBVIOUS
  <2>2. G = Nat
    <3> HIDE DEF G
    <3> QED BY <1>4, <1>5, <2>1, NumberInduction
  <2> HIDE DEF Found
  <2> QED BY <2>2 DEF MAX_FUEL
<1>7. PICK g : Ended(g) /\ IsRunFor(g, c, e, MAX_FUEL)
  BY <1>6
<1>8. \A m \in Machine : m.fuel + MAX_FUEL >= MAX_FUEL
  BY <1>1 DEF MAX_FUEL
<1>9. \A m \in Machine : g[m] = IF m.halt = "running" THEN g[Step(c, e, m)] ELSE m
  BY <1>7, <1>8 DEF IsRunFor
<1> QED
  BY <1>7, <1>9 DEF IsRun

\* There is only one way in which the loop ends, and it does end.
LEMMA RunEnds ==
    ASSUME NEW c \in Seq(Byte), NEW e \in Observed, NEW g, IsRun(g, c, e)
    PROVE  \A m \in Machine : g[m] \in Machine /\ g[m].halt # "running"
<1> DEFINE Settled(m) == g[m] \in Machine /\ g[m].halt # "running"
           G == {k \in Nat : \A m \in Machine :
                     m.halt # "running" \/ m.fuel + k >= MAX_FUEL => Settled(m)}
<1>1. \A m \in Machine : m.fuel \in Nat
  BY DEF Machine
<1>2. ASSUME NEW m \in Machine, m.halt = "running"
      PROVE  /\ Step(c, e, m) \in Machine
             /\ Step(c, e, m).halt = "running" =>
                    Step(c, e, m).fuel = m.fuel + 1 /\ m.fuel < MAX_FUEL
             /\ g[m] = g[Step(c, e, m)]
  <2>1. g[m] = g[Step(c, e, m)]
    BY <1>2 DEF IsRun
  <2> QED BY <1>2, <2>1, StepTyped DEF StepPromise
<1>3. ASSUME NEW m \in Machine, m.halt # "running" PROVE Settled(m)
  BY <1>3 DEF IsRun
<1> HIDE DEF Settled
<1>4. ASSUME NEW m \in Machine, m.halt = "running", Settled(Step(c, e, m))
      PROVE  Settled(m)
  BY <1>2, <1>4 DEF Settled
<1>5. 0 \in G
  <2> SUFFICES ASSUME NEW m \in Machine, m.halt = "running", m.fuel + 0 >= MAX_FUEL
               PROVE  Settled(m)
    BY <1>3
  <2>1. Step(c, e, m) \in Machine /\ Step(c, e, m).halt # "running"
    BY <1>1, <1>2 DEF MAX_FUEL
  <2> QED BY <1>3, <1>4, <2>1
<1>6. ASSUME NEW k \in G PROVE k + 1 \in G
  <2> SUFFICES ASSUME NEW m \in Machine, m.halt = "running", m.fuel + (k + 1) >= MAX_FUEL
               PROVE  Settled(m)
    BY <1>3
  <2>1. Step(c, e, m) \in Machine
    BY <1>2
  <2>2. Step(c, e, m).halt # "running" \/ Step(c, e, m).fuel + k >= MAX_FUEL
    BY <1>1, <1>2, SMTT(40) DEF MAX_FUEL
  <2>3. Settled(Step(c, e, m))
    BY <1>6, <2>1, <2>2
  <2> QED BY <1>4, <2>3
<1>7. \A m \in Machine : Settled(m)
  <2>1. G \in SUBSET Nat
    OBVIOUS
  <2>2. G = Nat
    <3> HIDE DEF G
    <3> QED BY <1>5, <1>6, <2>1, NumberInduction
  <2>3. MAX_FUEL \in G
    BY <2>2 DEF MAX_FUEL
  <2>4. \A m \in Machine : m.fuel + MAX_FUEL >= MAX_FUEL
    BY <1>1 DEF MAX_FUEL
  <2> QED BY <2>3, <2>4
<1> QED BY <1>7 DEF Settled

\* Whatever the loop is for a program, it ends a run from m with the outcome h.
Ends(c, e, m, h) == \A g : IsRun(g, c, e) => g[m].halt = h

LEMMA ExecuteInnerEnds ==
    ASSUME NEW c \in Seq(Byte), NEW e \in Observed, NEW h, Ends(c, e, Start, h)
    PROVE  ExecuteInner(c, e) = h
<1> DEFINE run == CHOOSE g : IsRun(g, c, e)
<1>1. IsRun(run, c, e)
  BY RunExists
<1>2. ExecuteInner(c, e) = run[Start].halt
  BY DEF ExecuteInner, IsRun
<1> QED BY <1>1, <1>2 DEF Ends

LEMMA StepEnds ==
    ASSUME NEW c, NEW e, NEW m \in Machine, m.halt = "running", NEW h,
           Ends(c, e, Step(c, e, m), h)
    PROVE  Ends(c, e, m, h)
<1> SUFFICES ASSUME NEW g, IsRun(g, c, e) PROVE g[m].halt = h
  BY DEF Ends
<1>1. g[m] = g[Step(c, e, m)]
  BY DEF IsRun
<1> QED BY <1>1 DEF Ends

LEMMA HaltEnds ==
    ASSUME NEW c, NEW e, NEW m \in Machine, m.halt # "running"
    PROVE  Ends(c, e, m, m.halt)
<1> SUFFICES ASSUME NEW g, IsRun(g, c, e) PROVE g[m].halt = m.halt
  BY DEF Ends
<1>1. g[m] = m
  BY DEF IsRun
<1> QED BY <1>1


LEMMA StartTyped == Start \in Machine
<1>1. << >> \in Seq(Byte)
  OBVIOUS
<1> QED BY <1>1 DEF Start, Machine

\* vm.rs: whatever bytes execute_inner is given, the fuel bounds its loop: it
\* returns a move or gives up for one of the reasons that make it return None.
THEOREM EveryExecutionEnds ==
    ASSUME NEW c \in Seq(Byte), NEW e \in Observed
    PROVE  ExecuteInner(c, e) \in Moves \cup Failures
<1> DEFINE run == CHOOSE g : IsRun(g, c, e)
<1>1. IsRun(run, c, e)
  BY RunExists
<1>2. ExecuteInner(c, e) = run[Start].halt
  BY DEF ExecuteInner, IsRun
<1>3. run[Start] \in Machine /\ run[Start].halt # "running"
  BY <1>1, RunEnds, StartTyped
<1> HIDE DEF run
<1> QED BY <1>2, <1>3 DEF Machine

-----------------------------------------------------------------------------
(***************************************************************************)
(* Instruction by instruction.  A running machine is At(pc, stack, fuel),  *)
(* and each rule takes the end of a run back by one instruction.           *)
(***************************************************************************)
At(pc, s, f) ==
    [pc |-> pc, stack |-> s, fuel |-> f, drawn |-> 0, halt |-> "running"]

LEMMA AtFields ==
    ASSUME NEW pc, NEW s, NEW f
    PROVE  /\ At(pc, s, f).pc = pc /\ At(pc, s, f).stack = s /\ At(pc, s, f).fuel = f
           /\ At(pc, s, f).halt = "running" /\ At(pc, s, f).drawn = 0
BY DEF At

LEMMA AtIsMachine ==
    ASSUME NEW pc \in Nat, NEW s \in Seq(Byte), NEW f \in Nat
    PROVE  At(pc, s, f) \in Machine
BY DEF At, Machine

LEMMA HaltedIsMachine ==
    ASSUME NEW m \in Machine, NEW h \in Moves \cup Failures
    PROVE  [m EXCEPT !.halt = h] \in Machine /\ [m EXCEPT !.halt = h].halt = h
BY DEF Machine

LEMMA TerminalCodes == op.COOP = 0 /\ op.DEFECT = 22 /\ op.RETURN = 24
BY OpCodes

\* What the instructions of the parity programs pop and push.
LEMMA StackEffect ==
    /\ \A o \in {0, 1, 2, 3, 6, 8, 22, 23} : Pops(o) = 0
    /\ \A o \in {4, 16, 21, 24} : Pops(o) = 1
    /\ \A o \in {13, 14, 15, 17} : Pops(o) = 2
    /\ \A o \in {1, 2, 3, 4, 6, 8, 13, 14, 15, 16, 17, 23} : Pushes(o) = 1
    /\ \A o \in {0, 21, 22, 24} : Pushes(o) = 0
    /\ Terminals = {0, 22, 24} /\ Immediates = {1, 20, 21}
<1>1. Terminals = {0, 22, 24} /\ Jumps = {20, 21} /\ Immediates = {1, 20, 21}
  BY OpCodes DEF Terminals, Jumps, Immediates
<1>2. Unary = {24, 4, 5, 16, 19, 21}
  BY OpCodes DEF Unary
<1>3. op.DUP = 19
  BY OpCodes
<1> QED
  BY <1>1, <1>2, <1>3, BinaryCodes DEF Pops, Pushes

\* The instruction o at pc can be executed with the stack s.
Executable(c, pc, s, f, o) ==
    /\ c \in Seq(Byte) /\ pc \in Nat /\ pc < Len(c) /\ c[pc + 1] = o
    /\ s \in Seq(Byte) /\ Len(s) <= 4
    /\ f \in Nat /\ f < 100
    /\ Pops(o) <= Len(s)
    /\ o \in Known /\ (o \in Immediates => pc + 1 < Len(c))

LEMMA ExecutableIsSound ==
    ASSUME NEW c, NEW pc, NEW s, NEW f, NEW o, Executable(c, pc, s, f, o)
    PROVE  Failure(c, At(pc, s, f)) = "none"
<1>1. /\ At(pc, s, f).pc = pc /\ At(pc, s, f).stack = s /\ At(pc, s, f).fuel = f
      /\ Len(s) \in Nat /\ Len(c) \in Nat
  BY AtFields, AtIsMachine DEF Executable
<1>2. Pops(o) \in {0, 1, 2} /\ Pushes(o) \in {0, 1, 2}
  BY DEF Pops, Pushes
<1> QED
  BY <1>1, <1>2 DEF Executable, Failure, MAX_FUEL, STACK_SIZE

\* An instruction that does not return.
LEMMA ContinueRule ==
    ASSUME NEW c, NEW e, NEW pc, NEW s, NEW f, NEW o, Executable(c, pc, s, f, o),
           o \notin Terminals, o # op.RAND, NEW h,
           LET m == At(pc, s, f)
           IN  Ends(c, e, At(NextPc(c, m),
                             SubSeq(s, 1, Len(s) - Pops(o))
                                 \o [i \in 1..Pushes(o) |-> Value(c, e, m)],
                             f + 1), h)
    PROVE  Ends(c, e, At(pc, s, f), h)
<1> DEFINE m == At(pc, s, f)
           new == SubSeq(s, 1, Len(s) - Pops(o)) \o [i \in 1..Pushes(o) |-> Value(c, e, m)]
<1>1. /\ m \in Machine /\ m.pc = pc /\ m.stack = s /\ m.fuel = f
      /\ m.halt = "running" /\ m.drawn = 0
      /\ Len(c) \in Nat /\ pc \in Nat /\ pc < Len(c) /\ c[pc + 1] = o
  BY AtFields, AtIsMachine DEF Executable
<1>2. Failure(c, m) = "none"
  BY ExecutableIsSound
<1>3. Step(c, e, m) = Continued(c, e, m)
  BY <1>1, <1>2 DEF Step
<1>4. Continued(c, e, m) = [m EXCEPT !.pc = NextPc(c, m), !.stack = new, !.fuel = @ + 1,
                                     !.drawn = IF o = op.RAND THEN @ + 1 ELSE @]
  BY <1>1 DEF Continued
<1>5. Continued(c, e, m) = At(NextPc(c, m), new, f + 1)
  <2> DEFINE q == NextPc(c, m)
  <2> HIDE DEF q, new
  <2>1. Continued(c, e, m) = [m EXCEPT !.pc = q, !.stack = new, !.fuel = @ + 1,
                                       !.drawn = IF o = op.RAND THEN @ + 1 ELSE @]
    BY <1>4 DEF q
  <2>2. Continued(c, e, m) = [m EXCEPT !.pc = q, !.stack = new, !.fuel = f + 1,
                                       !.drawn = 0]
    BY <1>1, <2>1
  <2>3. m = [pc |-> pc, stack |-> s, fuel |-> f, drawn |-> 0, halt |-> "running"]
    BY DEF At
  <2> HIDE DEF m
  <2> DEFINE n == Continued(c, e, m)
  <2> HIDE DEF n
  <2>4. f + 1 \in Nat
    BY DEF Executable
  <2>5. n = [pc |-> q, stack |-> new, fuel |-> f + 1, drawn |-> 0, halt |-> "running"]
    BY <2>2, <2>3, <2>4 DEF n
  <2> QED BY <2>5 DEF q, n, At
<1>6. Ends(c, e, Step(c, e, m), h)
  BY <1>3, <1>5
<1> HIDE DEF m
<1> QED BY <1>1, <1>6, StepEnds DEF m

\* The stack after an instruction that pushes one value, and after none.
LEMMA PushOne ==
    ASSUME NEW t \in Seq(Byte), NEW v
    PROVE  t \o [i \in 1..1 |-> v] = Append(t, v)
<1>1. [i \in 1..1 |-> v] = <<v>>
  OBVIOUS
<1> QED BY <1>1

LEMMA PushNone ==
    ASSUME NEW t \in Seq(Byte), NEW v
    PROVE  t \o [i \in 1..0 |-> v] = t
<1>1. [i \in 1..0 |-> v] = << >>
  OBVIOUS
<1> QED BY <1>1

LEMMA PopStack ==
    ASSUME NEW t \in Seq(Byte), NEW a \in Byte, NEW b \in Byte
    PROVE  /\ SubSeq(t, 1, Len(t) - 0) = t
           /\ SubSeq(Append(t, a), 1, Len(Append(t, a)) - 1) = t
           /\ SubSeq(Append(Append(t, a), b), 1, Len(Append(Append(t, a), b)) - 2) = t
           /\ Append(t, a) \in Seq(Byte) /\ Len(Append(t, a)) = Len(t) + 1
           /\ Append(t, a)[Len(t) + 1] = a
           /\ Append(Append(t, a), b) \in Seq(Byte)
           /\ Len(Append(Append(t, a), b)) = Len(t) + 2
           /\ Append(Append(t, a), b)[Len(t) + 2] = b
           /\ Append(Append(t, a), b)[Len(t) + 1] = a
<1>1. SubSeq(t, 1, Len(t) - 0) = t
  OBVIOUS
<1>2. /\ Append(t, a) \in Seq(Byte) /\ Len(Append(t, a)) = Len(t) + 1
      /\ Append(t, a)[Len(t) + 1] = a /\ \A i \in 1..Len(t) : Append(t, a)[i] = t[i]
  OBVIOUS
<1> DEFINE u == Append(t, a)
<1> HIDE DEF u
<1>3. /\ Append(u, b) \in Seq(Byte) /\ Len(Append(u, b)) = Len(t) + 2
      /\ Append(u, b)[Len(t) + 2] = b /\ \A i \in 1..Len(u) : Append(u, b)[i] = u[i]
  BY <1>2 DEF u
<1>4. SubSeq(u, 1, Len(u) - 1) = t
  BY <1>2 DEF u
<1> DEFINE w == Append(u, b)
<1> HIDE DEF w
<1>5. SubSeq(w, 1, Len(w) - 2) = t
  BY <1>2, <1>3 DEF u, w
<1>6. Append(u, b)[Len(t) + 1] = a
  BY <1>2, <1>3 DEF u
<1> QED BY <1>1, <1>2, <1>3, <1>4, <1>5, <1>6 DEF u, w

\* A program at an instruction o, with room on the stack and fuel left.
Here(c, pc, t, f, o) ==
    /\ c \in Seq(Byte) /\ pc \in Nat /\ pc < Len(c) /\ c[pc + 1] = o
    /\ t \in Seq(Byte) /\ Len(t) <= 2
    /\ f \in Nat /\ f < 100

\* An instruction that leaves t of the stack and pushes one value.
LEMMA ValueRule ==
    ASSUME NEW c, NEW e, NEW pc, NEW s, NEW f, NEW o, Executable(c, pc, s, f, o),
           o \in {1, 2, 3, 4, 6, 8, 13, 14, 15, 16, 17, 23},
           NEW t \in Seq(Byte), SubSeq(s, 1, Len(s) - Pops(o)) = t, NEW h,
           LET m == At(pc, s, f)
           IN  Ends(c, e, At(IF o = 1 THEN pc + 2 ELSE pc + 1,
                             Append(t, Value(c, e, m)), f + 1), h)
    PROVE  Ends(c, e, At(pc, s, f), h)
<1> DEFINE m == At(pc, s, f)
           v == Value(c, e, m)
<1>1. o \notin Terminals /\ Pushes(o) = 1 /\ (o \in Immediates <=> o = 1)
  BY StackEffect, SMTT(40)
<1>2. o # op.RAND /\ o # op.JMP_FWD /\ o # op.JMP_FWD_IF
  <2>1. op.RAND = 9 /\ op.JMP_FWD = 20 /\ op.JMP_FWD_IF = 21
    BY OpCodes
  <2>2. o # 9 /\ o # 20 /\ o # 21
    OBVIOUS
  <2> QED BY ONLY <2>1, <2>2
<1>3. m.pc = pc /\ c[m.pc + 1] = o
  <2>1. c[pc + 1] = o
    BY DEF Executable
  <2>2. m.pc = pc
    BY ONLY AtFields
  <2> QED BY ONLY <2>1, <2>2
<1>4. NextPc(c, m) = IF o = 1 THEN pc + 2 ELSE pc + 1
  BY <1>1, <1>2, <1>3 DEF NextPc, Taken
<1>5. SubSeq(s, 1, Len(s) - Pops(o)) \o [i \in 1..Pushes(o) |-> v] = Append(t, v)
  BY <1>1, PushOne
<1> HIDE DEF v
<1>6. Ends(c, e, At(NextPc(c, m), Append(t, v), f + 1), h)
  BY <1>4 DEF v
<1> QED
  BY <1>1, <1>2, <1>5, <1>6, ContinueRule DEF v

\* What the instructions without operands observe.
Observation(e, o) ==
    CASE o = 2  -> MoveToU8(LastMove(e.opp))
      [] o = 3  -> MoveToU8(LastMove(e.my))
      [] o = 6  -> Min({Defections(e.opp), 255})
      [] o = 8  -> e.round
      [] o = 23 -> IF e.my = << >> THEN 3
                   ELSE Payoff(LastMove(e.my), LastMove(e.opp))[1]

LEMMA ObserveRule ==
    ASSUME NEW c, NEW e, NEW pc, NEW s, NEW f, NEW o, Here(c, pc, s, f, o),
           o \in {2, 3, 6, 8, 23}, NEW h,
           Ends(c, e, At(pc + 1, Append(s, Observation(e, o)), f + 1), h)
    PROVE  Ends(c, e, At(pc, s, f), h)
<1> DEFINE m == At(pc, s, f)
<1>1. /\ Pops(o) = 0 /\ o \notin Immediates /\ o \in Known
  BY StackEffect DEF Known
<1>2. Executable(c, pc, s, f, o)
  BY <1>1 DEF Here, Executable
<1>3. SubSeq(s, 1, Len(s) - Pops(o)) = s /\ s \in Seq(Byte)
  BY <1>1 DEF Here
<1>4. m.pc = pc /\ m.stack = s /\ c[m.pc + 1] = o
  <2>1. c[pc + 1] = o
    BY DEF Here
  <2>2. m.pc = pc /\ m.stack = s
    BY ONLY AtFields
  <2> QED BY ONLY <2>1, <2>2
<1>5. Value(c, e, m) = Observation(e, o)
  <2>1. ValueByInstruction(c, e, m)
    BY ValueOf
  <2> HIDE DEF m
  <2> QED
    BY <1>4, <2>1, OpCodes, SMTT(40) DEF ValueByInstruction, Observation
<1>6. o # 1
  OBVIOUS
<1> QED
  BY <1>2, <1>3, <1>5, <1>6, ValueRule

LEMMA PushRule ==
    ASSUME NEW c, NEW e, NEW pc, NEW s, NEW f, Here(c, pc, s, f, 1), pc + 1 < Len(c), NEW h,
           Ends(c, e, At(pc + 2, Append(s, c[pc + 2]), f + 1), h)
    PROVE  Ends(c, e, At(pc, s, f), h)
<1> DEFINE m == At(pc, s, f)
<1>1. Pops(1) = 0 /\ 1 \in Known
  BY StackEffect DEF Known
<1>2. Executable(c, pc, s, f, 1)
  BY <1>1 DEF Here, Executable
<1>3. SubSeq(s, 1, Len(s) - Pops(1)) = s /\ s \in Seq(Byte)
  BY <1>1 DEF Here
<1>4. m.pc = pc /\ m.stack = s /\ c[m.pc + 1] = 1
  <2>1. c[pc + 1] = 1
    BY DEF Here
  <2>2. m.pc = pc /\ m.stack = s
    BY ONLY AtFields
  <2> QED BY ONLY <2>1, <2>2
<1>5. Value(c, e, m) = c[pc + 2]
  <2>1. ValueByInstruction(c, e, m)
    BY ValueOf
  <2> HIDE DEF m
  <2> QED
    BY <1>4, <2>1, OpCodes DEF ValueByInstruction
<1> QED
  BY <1>2, <1>3, <1>5, ValueRule

LEMMA OppNRule ==
    ASSUME NEW c, NEW e, NEW pc, NEW t, NEW f, Here(c, pc, t, f, 4), NEW a \in Byte, NEW h,
           Ends(c, e, At(pc + 1, Append(t, HistoryNAgo(e.opp, a)), f + 1), h)
    PROVE  Ends(c, e, At(pc, Append(t, a), f), h)
<1> DEFINE s == Append(t, a)
           m == At(pc, s, f)
<1>1. Pops(4) = 1 /\ 4 \in Known /\ 4 \notin Immediates
  BY StackEffect DEF Known
<1>2. /\ s \in Seq(Byte) /\ Len(s) = Len(t) + 1 /\ Len(t) \in Nat /\ s[Len(t) + 1] = a
      /\ SubSeq(s, 1, Len(s) - 1) = t /\ t \in Seq(Byte)
  BY PopStack DEF Here
<1> HIDE DEF s
<1>3. Executable(c, pc, s, f, 4)
  BY <1>1, <1>2 DEF Here, Executable
<1>4. m.pc = pc /\ m.stack = s /\ c[m.pc + 1] = 4
  <2>1. c[pc + 1] = 4
    BY DEF Here
  <2>2. m.pc = pc /\ m.stack = s
    BY ONLY AtFields
  <2> QED BY ONLY <2>1, <2>2
<1>5. Value(c, e, m) = HistoryNAgo(e.opp, a)
  <2>1. ValueByInstruction(c, e, m)
    BY ValueOf
  <2> HIDE DEF m
  <2> QED
    BY <1>2, <1>4, <2>1, OpCodes DEF ValueByInstruction
<1>6. SubSeq(s, 1, Len(s) - Pops(4)) = t /\ 4 # 1
  BY <1>1, <1>2
<1> HIDE DEF m
<1>7. Ends(c, e, At(pc + 1, Append(t, Value(c, e, m)), f + 1), h)
  BY <1>5
<1>8. ASSUME NEW o, o = 4 PROVE Ends(c, e, At(pc, s, f), h)
  <2>1. Ends(c, e, At(IF o = 1 THEN pc + 2 ELSE pc + 1,
                      Append(t, Value(c, e, At(pc, s, f))), f + 1), h)
    BY <1>6, <1>7, <1>8 DEF m
  <2>2. o \in {1, 2, 3, 4, 6, 8, 13, 14, 15, 16, 17, 23}
    BY <1>8
  <2> QED
    BY <1>2, <1>3, <1>6, <1>8, <2>1, <2>2, ValueRule
<1> QED BY <1>8 DEF s

LEMMA BinaryRule ==
    ASSUME NEW c, NEW e, NEW pc, NEW t, NEW f, NEW o, Here(c, pc, t, f, o),
           o \in {13, 14, 15, 17}, NEW a \in Byte, NEW b \in Byte, NEW h,
           Ends(c, e, At(pc + 1, Append(t, Arithmetic(o, a, b)), f + 1), h)
    PROVE  Ends(c, e, At(pc, Append(Append(t, a), b), f), h)
<1> DEFINE s == Append(Append(t, a), b)
           m == At(pc, s, f)
<1>1. Pops(o) = 2 /\ o \in Known /\ o \notin Immediates /\ o \in Binary
  BY StackEffect, BinaryCodes DEF Known
<1>2. /\ s \in Seq(Byte) /\ Len(s) = Len(t) + 2 /\ Len(t) \in Nat
      /\ s[Len(t) + 1] = a /\ s[Len(t) + 2] = b
      /\ SubSeq(s, 1, Len(s) - 2) = t /\ t \in Seq(Byte)
  BY PopStack DEF Here
<1> HIDE DEF s
<1>3. Executable(c, pc, s, f, o)
  BY <1>1, <1>2 DEF Here, Executable
<1>4. m.pc = pc /\ m.stack = s /\ c[m.pc + 1] = o
  <2>1. c[pc + 1] = o
    BY DEF Here
  <2>2. m.pc = pc /\ m.stack = s
    BY ONLY AtFields
  <2> QED BY ONLY <2>1, <2>2
<1>5. Value(c, e, m) = Arithmetic(o, a, b)
  <2>1. Value(c, e, m) = Arithmetic(o, s[Len(s) - 1], s[Len(s)])
    <3>1. ValueByInstruction(c, e, m)
      BY ValueOf
    <3> HIDE DEF m
    <3> QED
      BY <1>1, <1>4, <3>1 DEF ValueByInstruction
  <2>2. Len(s) - 1 = Len(t) + 1
    BY <1>2
  <2> QED BY <1>2, <2>1, <2>2
<1>6. SubSeq(s, 1, Len(s) - Pops(o)) = t /\ o # 1
  BY <1>1, <1>2
<1> HIDE DEF m
<1>7. Ends(c, e, At(pc + 1, Append(t, Value(c, e, m)), f + 1), h)
  BY <1>5
<1> QED
  BY <1>2, <1>3, <1>6, <1>7, ValueRule DEF m, s

LEMMA JumpRule ==
    ASSUME NEW c, NEW e, NEW pc, NEW t, NEW f, Here(c, pc, t, f, 21), pc + 1 < Len(c),
           NEW a \in Byte, NEW h,
           Ends(c, e, At(IF a # 0 THEN pc + 2 + c[pc + 2] ELSE pc + 2, t, f + 1), h)
    PROVE  Ends(c, e, At(pc, Append(t, a), f), h)
<1> DEFINE s == Append(t, a)
           m == At(pc, s, f)
<1>1. /\ Pops(21) = 1 /\ Pushes(21) = 0 /\ 21 \in Known /\ 21 \in Immediates
      /\ 21 \notin Terminals
  BY StackEffect DEF Known
<1>2. /\ s \in Seq(Byte) /\ Len(s) = Len(t) + 1 /\ Len(t) \in Nat /\ s[Len(t) + 1] = a
      /\ SubSeq(s, 1, Len(s) - 1) = t /\ t \in Seq(Byte)
  BY PopStack DEF Here
<1> HIDE DEF s
<1>3. Executable(c, pc, s, f, 21)
  BY <1>1, <1>2 DEF Here, Executable
<1>4. m.pc = pc /\ m.stack = s /\ c[m.pc + 1] = 21
  <2>1. c[pc + 1] = 21
    BY DEF Here
  <2>2. m.pc = pc /\ m.stack = s
    BY ONLY AtFields
  <2> QED BY ONLY <2>1, <2>2
<1>5. op.RAND = 9 /\ op.JMP_FWD = 20 /\ op.JMP_FWD_IF = 21
  BY OpCodes
<1>6. NextPc(c, m) = IF a # 0 THEN pc + 2 + c[pc + 2] ELSE pc + 2
  <2> HIDE DEF m
  <2>1. Taken(c, m) <=> a # 0
    BY <1>2, <1>4, <1>5 DEF Taken
  <2> QED BY <1>1, <1>4, <2>1 DEF NextPc
<1>7. SubSeq(s, 1, Len(s) - Pops(21)) \o [i \in 1..Pushes(21) |-> Value(c, e, m)] = t
  <2> DEFINE v == Value(c, e, m)
  <2> HIDE DEF v
  <2>1. t \o [i \in 1..0 |-> v] = t
    BY <1>2, PushNone
  <2>2. SubSeq(s, 1, Len(s) - Pops(21)) = t
    BY <1>1, <1>2
  <2> QED BY <1>1, <2>1, <2>2 DEF v
<1>8. 21 # op.RAND
  BY <1>5
<1>9. Ends(c, e, At(NextPc(c, m),
                    SubSeq(s, 1, Len(s) - Pops(21))
                        \o [i \in 1..Pushes(21) |-> Value(c, e, m)], f + 1), h)
  BY <1>6, <1>7
<1>10. Ends(c, e, At(pc, s, f), h)
  BY <1>1, <1>3, <1>8, <1>9, ContinueRule
<1> QED BY <1>10 DEF s

\* The move a terminal instruction returns; only RETURN looks at the stack.
LEMMA TerminalRule ==
    ASSUME NEW c, NEW e, NEW pc, NEW s, NEW f, NEW o, Executable(c, pc, s, f, o),
           o \in Terminals
    PROVE  Ends(c, e, At(pc, s, f), Returned(c, At(pc, s, f)))
<1> DEFINE m == At(pc, s, f)
           r == Returned(c, m)
<1>1. /\ m \in Machine /\ m.pc = pc /\ m.halt = "running"
      /\ Len(c) \in Nat /\ pc \in Nat /\ pc < Len(c) /\ c[pc + 1] = o
  BY AtFields, AtIsMachine DEF Executable
<1>2. Failure(c, m) = "none"
  BY ExecutableIsSound
<1> HIDE DEF m
<1>3. r \in Moves
  BY <1>1 DEF Returned, Terminals, Moves
<1>4. Step(c, e, m) = [m EXCEPT !.halt = r]
  BY <1>1, <1>2 DEF Step
<1> HIDE DEF r
<1> DEFINE n == [m EXCEPT !.halt = r]
<1>5. n \in Machine /\ n.halt = r /\ r # "running"
  <2>1. r # "running"
    BY <1>3 DEF Moves
  <2> QED BY <1>1, <1>3, <2>1, HaltedIsMachine
<1> HIDE DEF n
<1>6. Ends(c, e, n, r)
  BY <1>5, HaltEnds
<1>7. Ends(c, e, m, r)
  BY <1>1, <1>4, <1>6, StepEnds DEF n
<1> QED BY <1>7 DEF m, r

LEMMA CoopRule ==
    ASSUME NEW c, NEW e, NEW pc, NEW s, NEW f, Here(c, pc, s, f, 0)
    PROVE  Ends(c, e, At(pc, s, f), "Cooperate")
<1>1. Pops(0) = 0 /\ 0 \in Known /\ 0 \notin Immediates /\ 0 \in Terminals
  BY StackEffect DEF Known
<1>2. Executable(c, pc, s, f, 0)
  BY <1>1 DEF Here, Executable
<1>3. At(pc, s, f).pc = pc
  BY AtFields, AtIsMachine DEF Here
<1>4. Returned(c, At(pc, s, f)) = "Cooperate"
  BY <1>3, TerminalCodes DEF Returned, Here
<1> QED BY <1>1, <1>2, <1>4, TerminalRule

LEMMA DefectRule ==
    ASSUME NEW c, NEW e, NEW pc, NEW s, NEW f, Here(c, pc, s, f, 22)
    PROVE  Ends(c, e, At(pc, s, f), "Defect")
<1>1. Pops(22) = 0 /\ 22 \in Known /\ 22 \notin Immediates /\ 22 \in Terminals
  BY StackEffect DEF Known
<1>2. Executable(c, pc, s, f, 22)
  BY <1>1 DEF Here, Executable
<1>3. At(pc, s, f).pc = pc
  BY AtFields, AtIsMachine DEF Here
<1>4. Returned(c, At(pc, s, f)) = "Defect"
  BY <1>3, TerminalCodes DEF Returned, Here
<1> QED BY <1>1, <1>2, <1>4, TerminalRule

LEMMA ReturnRule ==
    ASSUME NEW c, NEW e, NEW pc, NEW t, NEW f, Here(c, pc, t, f, 24), NEW a \in Byte
    PROVE  Ends(c, e, At(pc, Append(t, a), f), DefectIf(a # 0))
<1> DEFINE s == Append(t, a)
           m == At(pc, s, f)
<1>1. Pops(24) = 1 /\ 24 \in Known /\ 24 \notin Immediates /\ 24 \in Terminals
  BY StackEffect DEF Known
<1>2. /\ s \in Seq(Byte) /\ Len(s) = Len(t) + 1 /\ Len(t) \in Nat /\ s[Len(t) + 1] = a
  BY PopStack DEF Here
<1> HIDE DEF s
<1>3. Executable(c, pc, s, f, 24)
  BY <1>1, <1>2 DEF Here, Executable
<1>4. m.pc = pc /\ m.stack = s /\ c[m.pc + 1] = 24
  <2>1. c[pc + 1] = 24
    BY DEF Here
  <2>2. m.pc = pc /\ m.stack = s
    BY ONLY AtFields
  <2> QED BY ONLY <2>1, <2>2
<1>5. Returned(c, m) = DefectIf(a # 0)
  <2> HIDE DEF m
  <2> QED BY <1>2, <1>4, TerminalCodes DEF Returned, DefectIf
<1>6. Ends(c, e, m, DefectIf(a # 0))
  BY <1>1, <1>3, <1>5, TerminalRule
<1> QED BY <1>6 DEF m, s

\* NOT on an empty stack.
LEMMA UnderflowRule ==
    ASSUME NEW c, NEW e, NEW pc, NEW f, Here(c, pc, << >>, f, 16)
    PROVE  Ends(c, e, At(pc, << >>, f), "Underflow")
<1> DEFINE m == At(pc, << >>, f)
           n == [m EXCEPT !.halt = "Underflow"]
<1>1. Pops(16) = 1 /\ 16 \in Known
  BY StackEffect DEF Known
<1>2. /\ m \in Machine /\ m.pc = pc /\ m.stack = << >> /\ m.fuel = f /\ m.halt = "running"
      /\ Len(c) \in Nat /\ pc \in Nat /\ pc < Len(c) /\ c[pc + 1] = 16
      /\ f \in Nat /\ f < 100
  <2>1. /\ Len(c) \in Nat /\ pc \in Nat /\ pc < Len(c) /\ c[pc + 1] = 16
        /\ f \in Nat /\ f < 100 /\ << >> \in Seq(Byte)
    BY DEF Here
  <2>2. m.pc = pc /\ m.stack = << >> /\ m.fuel = f /\ m.halt = "running"
    BY ONLY AtFields
  <2>3. m \in Machine
    BY ONLY <2>1, AtIsMachine
  <2> QED BY <2>1, <2>2, <2>3
<1> HIDE DEF m
<1>7. n \in Machine /\ n.halt = "Underflow"
  <2>1. "Underflow" \in Moves \cup Failures
    BY DEF Failures
  <2> QED BY <1>2, <2>1, HaltedIsMachine
<1>3. Failure(c, m) = "Underflow"
  <2>1. ~(m.fuel + 1 > MAX_FUEL)
    BY <1>2 DEF MAX_FUEL
  <2>2. Len(m.stack) < Pops(16)
    BY <1>1, <1>2
  <2> QED BY <1>1, <1>2, <2>1, <2>2 DEF Failure
<1>4. Step(c, e, m) = n
  BY <1>2, <1>3 DEF Step
<1> HIDE DEF n
<1>5. Ends(c, e, n, "Underflow")
  BY <1>7, HaltEnds
<1>6. Ends(c, e, m, "Underflow")
  BY <1>2, <1>4, <1>5, StepEnds
<1> QED BY <1>6 DEF m

-----------------------------------------------------------------------------
(***************************************************************************)
(* The parity programs                                                     *)
(***************************************************************************)
LEMMA ArithmeticTests ==
    ASSUME NEW a \in Byte, NEW b \in Byte
    PROVE  /\ Arithmetic(13, a, b) # 0 <=> a > b
           /\ Arithmetic(14, a, b) # 0 <=> a < b
           /\ Arithmetic(15, a, b) # 0 <=> a = b
           /\ Arithmetic(17, a, b) # 0 <=> a # 0 /\ b # 0
           /\ Arithmetic(17, a, b) \in Byte
<1>1. /\ op.ADD = 10 /\ op.SUB = 11 /\ op.MUL = 12 /\ op.GT = 13 /\ op.LT = 14
      /\ op.EQ = 15 /\ op.AND = 17 /\ op.OR = 18
  BY OpCodes
<1>2. 0 \in Byte /\ 1 \in Byte
  BY DEF Byte
<1> QED
  BY <1>1, <1>2 DEF Arithmetic, Bool

LEMMA ObservationIsByte ==
    ASSUME NEW e \in Observed, NEW o \in {2, 3, 6, 8, 23}
    PROVE  Observation(e, o) \in Byte
<1>1. e.opp \in Seq(Moves) /\ e.my \in Seq(Moves) /\ e.round \in Byte
  BY DEF Observed
<1>2. LastMove(e.my) \in Moves /\ LastMove(e.opp) \in Moves
  BY <1>1, LastMoveIsMove
<1>3. Payoff(LastMove(e.my), LastMove(e.opp))[1] \in Byte
  BY <1>2, PayoffIsByte
<1>4. Min({Defections(e.opp), 255}) \in Byte
  BY <1>1, DefectionsCount, MinIsByte
<1>5. 3 \in Byte /\ \A v : MoveToU8(v) \in Byte
  BY DEF Byte, MoveToU8
<1> QED
  BY <1>1, <1>3, <1>4, <1>5 DEF Observation

\* The idiom of these programs: observe, compare with a number, jump.
Tests(c, p, o, k, q, j) ==
    /\ c \in Seq(Byte) /\ p \in Nat /\ p + 6 <= Len(c)
    /\ c[p + 1] = o /\ c[p + 2] = 1 /\ c[p + 3] = k /\ c[p + 4] = q
    /\ c[p + 5] = 21 /\ c[p + 6] = j
    /\ o \in {6, 8, 23} /\ k \in Byte /\ q \in {13, 14, 15} /\ j \in Byte

LEMMA TestRule ==
    ASSUME NEW c, NEW e \in Observed, NEW p, NEW o, NEW k, NEW q, NEW j,
           Tests(c, p, o, k, q, j), NEW f \in Nat, f < 50, NEW h,
           Ends(c, e, At(IF Arithmetic(q, Observation(e, o), k) # 0
                         THEN p + 6 + j ELSE p + 6, << >>, f + 4), h)
    PROVE  Ends(c, e, At(p, << >>, f), h)
<1> DEFINE x == Observation(e, o)
           y == Arithmetic(q, x, k)
           Z == << >>
<1>1. /\ c \in Seq(Byte) /\ p \in Nat /\ p + 6 <= Len(c) /\ Len(c) \in Nat
      /\ c[p + 1] = o /\ c[p + 2] = 1 /\ c[p + 3] = k /\ c[p + 4] = q
      /\ c[p + 5] = 21 /\ c[p + 6] = j
      /\ o \in {6, 8, 23} /\ k \in Byte /\ q \in {13, 14, 15} /\ j \in Byte
  BY DEF Tests
<1>2. x \in Byte /\ k \in Byte
  BY <1>1, ObservationIsByte
<1>3. y \in Byte
  <2>1. q \in Binary
    BY <1>1, BinaryCodes
  <2> HIDE DEF x
  <2> QED BY <1>2, <2>1, ArithmeticIsByte
<1>4. Ends(c, e, At(IF y # 0 THEN p + 6 + j ELSE p + 6, Z, f + 4), h)
  OBVIOUS
<1>5. Z \in Seq(Byte) /\ Len(Z) = 0
  OBVIOUS
<1> HIDE DEF x, y, Z
<1>6. Ends(c, e, At(p + 4, Append(Z, y), f + 3), h)
  <2>1. Here(c, p + 4, Z, f + 3, 21) /\ p + 4 + 1 < Len(c) /\ c[p + 4 + 2] = j
    BY <1>1, <1>5, SMTT(40) DEF Here
  <2>2. (IF y # 0 THEN p + 4 + 2 + c[p + 4 + 2] ELSE p + 4 + 2)
          = (IF y # 0 THEN p + 6 + j ELSE p + 6)
    BY <1>1, <2>1 DEF Byte
  <2>3. f + 3 + 1 = f + 4
    OBVIOUS
  <2> QED BY <1>3, <1>4, <2>1, <2>2, <2>3, JumpRule
<1>7. Ends(c, e, At(p + 3, Append(Append(Z, x), k), f + 2), h)
  <2>1. Here(c, p + 3, Z, f + 2, q) /\ q \in {13, 14, 15, 17}
    BY <1>1, <1>5, SMTT(40) DEF Here
  <2>2. Ends(c, e, At(p + 3 + 1, Append(Z, Arithmetic(q, x, k)), f + 2 + 1), h)
    BY <1>1, <1>6 DEF y
  <2> QED BY <1>2, <2>1, <2>2, BinaryRule
<1>8. Ends(c, e, At(p + 1, Append(Z, x), f + 1), h)
  <2>1. Append(Z, x) \in Seq(Byte) /\ Len(Append(Z, x)) = 1
    BY <1>2, <1>5
  <2>2. Here(c, p + 1, Append(Z, x), f + 1, 1) /\ p + 1 + 1 < Len(c)
    BY <1>1, <2>1, SMTT(40) DEF Here
  <2>3. p + 1 + 2 = p + 3 /\ f + 1 + 1 = f + 2
    BY <1>1
  <2> QED BY <1>1, <1>7, <2>2, <2>3, PushRule
<1>9. Ends(c, e, At(p, Z, f), h)
  <2>1. Here(c, p, Z, f, o) /\ o \in {2, 3, 6, 8, 23}
    BY <1>1, <1>5, SMTT(40) DEF Here
  <2> QED BY <1>8, <2>1, ObserveRule DEF x
<1> QED BY <1>9 DEF Z

LEMMA StartIsAt == Start = At(0, << >>, 0)
BY Zenon DEF Start, At

LEMMA ParityCodes ==
    /\ ParityProgram["AlwaysCooperate"] = <<0>>
    /\ ParityProgram["AlwaysDefect"] = <<22>>
    /\ ParityProgram["TitForTat"] = <<2, 24>>
    /\ ParityProgram["GrimTrigger"] = <<6, 1, 0, 13, 21, 1, 0, 22>>
    /\ ParityProgram["SuspiciousTitForTat"] = <<8, 1, 0, 15, 21, 2, 2, 24, 22>>
    /\ ParityProgram["TitForTwoTats"]
           = <<8, 1, 2, 14, 21, 8, 1, 0, 4, 1, 1, 4, 17, 24, 0>>
    /\ ParityProgram["Pavlov"]
           = <<8, 1, 0, 15, 21, 9, 23, 1, 3, 14, 21, 3, 3, 24, 3, 16, 24, 0>>
    /\ DOMAIN ParityProgram = {"AlwaysCooperate", "AlwaysDefect", "TitForTat",
                               "GrimTrigger", "SuspiciousTitForTat", "TitForTwoTats",
                               "Pavlov"}
BY ZenonT(60) DEF ParityProgram, op

LEMMA NothingStacked == << >> \in Seq(Byte) /\ Len(<< >>) = 0
OBVIOUS

LEMMA CooperatorRuns ==
    ASSUME NEW e \in Observed
    PROVE  Ends(<<0>>, e, Start, "Cooperate")
<1>1. Here(<<0>>, 0, << >>, 0, 0)
  BY NothingStacked DEF Here, Byte
<1> QED BY <1>1, CoopRule, StartIsAt

LEMMA DefectorRuns ==
    ASSUME NEW e \in Observed
    PROVE  Ends(<<22>>, e, Start, "Defect")
<1>1. Here(<<22>>, 0, << >>, 0, 22)
  BY NothingStacked DEF Here, Byte
<1> QED BY <1>1, DefectRule, StartIsAt

\* OPP_LAST, RETURN and MY_LAST, RETURN.
ReturnsLast(c, p, e, v) ==
    /\ c \in Seq(Byte) /\ p \in Nat /\ p + 2 <= Len(c) /\ c[p + 2] = 24
    /\ \/ c[p + 1] = 2 /\ v = LastMove(e.opp)
       \/ c[p + 1] = 3 /\ v = LastMove(e.my)

LEMMA LastMoveRuns ==
    ASSUME NEW c, NEW p, NEW e \in Observed, NEW v, ReturnsLast(c, p, e, v),
           NEW f \in Nat, f < 50
    PROVE  Ends(c, e, At(p, << >>, f), v)
<1>0. /\ c \in Seq(Byte) /\ p \in Nat /\ p + 2 <= Len(c) /\ c[p + 2] = 24
      /\ \/ c[p + 1] = 2 /\ v = LastMove(e.opp)
         \/ c[p + 1] = 3 /\ v = LastMove(e.my)
  BY DEF ReturnsLast
<1> DEFINE o == c[p + 1]
           x == Observation(e, o)
           Z == << >>
<1>1. o \in {2, 3} /\ o \in {2, 3, 6, 8, 23} /\ Len(c) \in Nat
  BY <1>0
<1>2. x \in Byte
  BY <1>1, ObservationIsByte
<1>3. x = MoveToU8(v)
  BY <1>0 DEF Observation
<1>4. v \in Moves
  BY <1>0, LastMoveIsMove DEF Observed
<1> HIDE DEF x
<1>5. DefectIf(x # 0) = v
  BY <1>3, <1>4 DEF DefectIf, MoveToU8, Moves
<1>6. Z \in Seq(Byte) /\ Len(Z) = 0
  OBVIOUS
<1> HIDE DEF Z
<1>7. Here(c, p + 1, Z, f + 1, 24) /\ Here(c, p, Z, f, o)
  BY <1>0, <1>1, <1>6, SMTT(40) DEF Here
<1>8. Ends(c, e, At(p + 1, Append(Z, x), f + 1), v)
  BY <1>2, <1>5, <1>7, ReturnRule
<1>9. Ends(c, e, At(p, Z, f), v)
  <2> HIDE DEF o
  <2> QED BY <1>1, <1>7, <1>8, ObserveRule DEF x
<1> QED BY <1>9 DEF Z

LEMMA TitForTatRuns ==
    ASSUME NEW e \in Observed
    PROVE  Ends(<<2, 24>>, e, Start, LastMove(e.opp))
<1> DEFINE c == <<2, 24>>
<1>1. c \in Seq(Byte) /\ Len(c) = 2 /\ c[0 + 1] = 2 /\ c[0 + 2] = 24
  BY DEF Byte
<1> HIDE DEF c
<1>2. Ends(c, e, At(0, << >>, 0), LastMove(e.opp))
  <2>1. ReturnsLast(c, 0, e, LastMove(e.opp))
    BY <1>1 DEF ReturnsLast
  <2> QED BY <2>1, LastMoveRuns
<1> QED BY <1>2, StartIsAt DEF c

LEMMA GrimTriggerRuns ==
    ASSUME NEW e \in Observed
    PROVE  Ends(<<6, 1, 0, 13, 21, 1, 0, 22>>, e, Start,
                DefectIf(Defections(e.opp) # 0))
<1> DEFINE c == <<6, 1, 0, 13, 21, 1, 0, 22>>
           x == Observation(e, 6)
           h == DefectIf(Defections(e.opp) # 0)
<1>1. c \in Seq(Byte) /\ Len(c) = 8 /\ c[7] = 0 /\ c[8] = 22
  BY DEF Byte
<1>2. Tests(c, 0, 6, 0, 13, 1)
  BY DEF Tests, Byte
<1> HIDE DEF c
<1>3. Defections(e.opp) \in Nat
  BY DefectionsCount DEF Observed
<1>4. x = IF Defections(e.opp) <= 255 THEN Defections(e.opp) ELSE 255
  BY <1>3 DEF Observation, Min
<1>5. x \in Byte /\ 0 \in Byte
  BY <1>3, <1>4 DEF Byte
<1>6. Arithmetic(13, x, 0) # 0 <=> Defections(e.opp) # 0
  <2>1. x > 0 <=> Defections(e.opp) # 0
    BY <1>3, <1>4
  <2> HIDE DEF x
  <2> QED BY <1>5, <2>1, ArithmeticTests
<1> HIDE DEF x
<1>7. CASE Defections(e.opp) # 0
  <2>1. Here(c, 7, << >>, 4, 22) /\ h = "Defect"
    BY <1>1, <1>7, NothingStacked DEF Here, DefectIf
  <2>2. Ends(c, e, At(7, << >>, 4), h)
    BY <2>1, DefectRule
  <2> QED BY <1>2, <1>6, <1>7, <2>2, TestRule, StartIsAt DEF x, c
<1>8. CASE Defections(e.opp) = 0
  <2>1. Here(c, 6, << >>, 4, 0) /\ h = "Cooperate"
    BY <1>1, <1>8, NothingStacked DEF Here, DefectIf
  <2>2. Ends(c, e, At(6, << >>, 4), h)
    BY <2>1, CoopRule
  <2> QED BY <1>2, <1>6, <1>8, <2>2, TestRule, StartIsAt DEF x, c
<1> QED BY <1>7, <1>8

LEMMA SuspiciousRuns ==
    ASSUME NEW e \in Observed
    PROVE  Ends(<<8, 1, 0, 15, 21, 2, 2, 24, 22>>, e, Start,
                IF e.round = 0 THEN "Defect" ELSE LastMove(e.opp))
<1> DEFINE c == <<8, 1, 0, 15, 21, 2, 2, 24, 22>>
           x == Observation(e, 8)
           h == IF e.round = 0 THEN "Defect" ELSE LastMove(e.opp)
<1>1. c \in Seq(Byte) /\ Len(c) = 9 /\ c[7] = 2 /\ c[8] = 24 /\ c[9] = 22
  BY DEF Byte
<1>2. Tests(c, 0, 8, 0, 15, 2)
  BY DEF Tests, Byte
<1> HIDE DEF c
<1>3. x = e.round /\ x \in Byte /\ 0 \in Byte
  BY DEF Observation, Byte, Observed
<1>4. Arithmetic(15, x, 0) # 0 <=> e.round = 0
  BY <1>3, ArithmeticTests
<1> HIDE DEF x
<1>5. CASE e.round = 0
  <2>1. Here(c, 8, << >>, 4, 22) /\ h = "Defect"
    BY <1>1, <1>5, NothingStacked DEF Here
  <2>2. Ends(c, e, At(8, << >>, 4), h)
    BY <2>1, DefectRule
  <2> QED BY <1>2, <1>4, <1>5, <2>2, TestRule, StartIsAt DEF x, c
<1>6. CASE e.round # 0
  <2>1. ReturnsLast(c, 6, e, h)
    BY <1>1, <1>6 DEF ReturnsLast
  <2>2. Ends(c, e, At(6, << >>, 4), h)
    BY <2>1, LastMoveRuns
  <2> QED BY <1>2, <1>4, <1>6, <2>2, TestRule, StartIsAt DEF x, c
<1> QED BY <1>5, <1>6

\* The jump of Pavlov's program for the first round and the one for a bad outcome
\* land on the NOT.
LEMMA PavlovRuns ==
    ASSUME NEW e \in Observed, e.round = 0 <=> e.my = << >>
    PROVE  Ends(<<8, 1, 0, 15, 21, 9, 23, 1, 3, 14, 21, 3, 3, 24, 3, 16, 24, 0>>, e, Start,
                IF \/ e.my = << >>
                   \/ Payoff(LastMove(e.my), LastMove(e.opp))[1] < 3
                THEN "Underflow" ELSE LastMove(e.my))
<1> DEFINE c == <<8, 1, 0, 15, 21, 9, 23, 1, 3, 14, 21, 3, 3, 24, 3, 16, 24, 0>>
           x == Observation(e, 8)
           y == Observation(e, 23)
           score == Payoff(LastMove(e.my), LastMove(e.opp))[1]
           h == IF e.my = << >> \/ score < 3 THEN "Underflow" ELSE LastMove(e.my)
<1>1. c \in Seq(Byte) /\ Len(c) = 18 /\ c[13] = 3 /\ c[14] = 24 /\ c[16] = 16
  BY DEF Byte
<1>2. Tests(c, 0, 8, 0, 15, 9) /\ Tests(c, 6, 23, 3, 14, 3)
  BY DEF Tests, Byte
<1> HIDE DEF c
<1>3. x = e.round /\ x \in Byte /\ 0 \in Byte /\ 3 \in Byte
  BY DEF Observation, Byte, Observed
<1>4. Arithmetic(15, x, 0) # 0 <=> e.my = << >>
  BY <1>3, ArithmeticTests
<1>5. y \in Byte
  BY ObservationIsByte
<1>6. y = IF e.my = << >> THEN 3 ELSE score
  BY DEF Observation
<1>7. Arithmetic(14, y, 3) # 0 <=> y < 3
  <2> HIDE DEF y
  <2> QED BY <1>3, <1>5, ArithmeticTests
<1> HIDE DEF x, y, score
<1>8. CASE e.my = << >>
  <2>1. Here(c, 15, << >>, 4, 16) /\ h = "Underflow"
    BY <1>1, <1>8, NothingStacked DEF Here
  <2>2. Ends(c, e, At(15, << >>, 4), h)
    BY <2>1, UnderflowRule
  <2> QED BY <1>2, <1>4, <1>8, <2>2, TestRule, StartIsAt, SMTT(40) DEF x, c, score
<1>9. CASE e.my # << >>
  <2>1. Ends(c, e, At(6, << >>, 4), h)
    <3>1. CASE score < 3
      <4>1. Here(c, 15, << >>, 8, 16) /\ h = "Underflow"
        BY <1>1, <3>1, NothingStacked DEF Here
      <4>2. Ends(c, e, At(15, << >>, 8), h)
        BY <4>1, UnderflowRule
      <4>3. Arithmetic(14, y, 3) # 0
        BY <1>6, <1>7, <1>9, <3>1
      <4> QED BY <1>2, <4>2, <4>3, TestRule DEF y
    <3>2. CASE ~(score < 3)
      <4>1. ReturnsLast(c, 12, e, h)
        BY <1>1, <1>9, <3>2 DEF ReturnsLast
      <4>2. Ends(c, e, At(12, << >>, 8), h)
        BY <4>1, LastMoveRuns
      <4>3. ~(Arithmetic(14, y, 3) # 0)
        BY <1>6, <1>7, <1>9, <3>2
      <4> QED BY <1>2, <4>2, <4>3, TestRule DEF y
    <3> QED BY <3>1, <3>2
  <2> QED BY <1>2, <1>4, <1>9, <2>1, TestRule, StartIsAt, SMTT(40) DEF x, c, score
<1> QED BY <1>8, <1>9

LEMMA TwoTatsRuns ==
    ASSUME NEW e \in Observed
    PROVE  Ends(<<8, 1, 2, 14, 21, 8, 1, 0, 4, 1, 1, 4, 17, 24, 0>>, e, Start,
                IF e.round < 2 THEN "Cooperate"
                ELSE DefectIf(HistoryNAgo(e.opp, 0) # 0 /\ HistoryNAgo(e.opp, 1) # 0))
<1> DEFINE c == <<8, 1, 2, 14, 21, 8, 1, 0, 4, 1, 1, 4, 17, 24, 0>>
           x == Observation(e, 8)
           y == HistoryNAgo(e.opp, 0)
           z == HistoryNAgo(e.opp, 1)
           w == Arithmetic(17, y, z)
           Z == << >>
           h == IF e.round < 2 THEN "Cooperate" ELSE DefectIf(y # 0 /\ z # 0)
<1>1. /\ c \in Seq(Byte) /\ Len(c) = 15
      /\ c[7] = 1 /\ c[8] = 0 /\ c[9] = 4 /\ c[10] = 1 /\ c[11] = 1 /\ c[12] = 4
      /\ c[13] = 17 /\ c[14] = 24 /\ c[15] = 0
  BY DEF Byte
<1>2. Tests(c, 0, 8, 2, 14, 8)
  BY DEF Tests, Byte
<1> HIDE DEF c
<1>3. x = e.round /\ x \in Byte /\ 0 \in Byte /\ 1 \in Byte /\ 2 \in Byte
  BY DEF Observation, Byte, Observed
<1>4. Arithmetic(14, x, 2) # 0 <=> e.round < 2
  BY <1>3, ArithmeticTests
<1>5. y \in Byte /\ z \in Byte
  BY HistoryIsByte
<1>6. w \in Byte /\ (w # 0 <=> y # 0 /\ z # 0)
  <2> HIDE DEF y, z
  <2> QED BY <1>5, ArithmeticTests
<1>7. Z \in Seq(Byte) /\ Len(Z) = 0
  OBVIOUS
<1> HIDE DEF x, y, z, w, Z
<1>8. CASE e.round < 2
  <2>1. Here(c, 14, Z, 4, 0) /\ h = "Cooperate"
    BY <1>1, <1>7, <1>8 DEF Here
  <2>2. Ends(c, e, At(14, Z, 4), h)
    BY <2>1, CoopRule
  <2> QED BY <1>2, <1>4, <1>8, <2>2, TestRule, StartIsAt DEF x, c, Z, y, z
<1>9. CASE ~(e.round < 2)
  <2>1. h = DefectIf(w # 0)
    BY <1>6, <1>9 DEF DefectIf
  <2> HIDE DEF h
  <2>2. Append(Z, y) \in Seq(Byte) /\ Len(Append(Z, y)) = 1
    BY <1>5, <1>7
  <2>3. Ends(c, e, At(13, Append(Z, w), 9), h)
    <3>1. Here(c, 13, Z, 9, 24)
      BY <1>1, <1>7 DEF Here
    <3> QED BY <1>6, <2>1, <3>1, ReturnRule
  <2>4. Ends(c, e, At(12, Append(Append(Z, y), z), 8), h)
    <3>1. Here(c, 12, Z, 8, 17) /\ 17 \in {13, 14, 15, 17}
      BY <1>1, <1>7 DEF Here
    <3>2. Ends(c, e, At(12 + 1, Append(Z, Arithmetic(17, y, z)), 8 + 1), h)
      BY <2>3 DEF w
    <3> QED BY <1>5, <3>1, <3>2, BinaryRule
  <2>5. Ends(c, e, At(11, Append(Append(Z, y), 1), 7), h)
    <3>1. Here(c, 11, Append(Z, y), 7, 4)
      BY <1>1, <2>2 DEF Here
    <3>2. Ends(c, e, At(11 + 1, Append(Append(Z, y), HistoryNAgo(e.opp, 1)), 7 + 1), h)
      BY <2>4 DEF z
    <3> QED BY <1>3, <3>1, <3>2, OppNRule
  <2>6. Ends(c, e, At(9, Append(Z, y), 6), h)
    <3>1. Here(c, 9, Append(Z, y), 6, 1) /\ 9 + 1 < Len(c)
      BY <1>1, <2>2 DEF Here
    <3>2. Ends(c, e, At(9 + 2, Append(Append(Z, y), c[9 + 2]), 6 + 1), h)
      BY <1>1, <2>5
    <3> QED BY <3>1, <3>2, PushRule
  <2>7. Ends(c, e, At(8, Append(Z, 0), 5), h)
    <3>1. Here(c, 8, Z, 5, 4)
      BY <1>1, <1>7 DEF Here
    <3>2. Ends(c, e, At(8 + 1, Append(Z, HistoryNAgo(e.opp, 0)), 5 + 1), h)
      BY <2>6 DEF y
    <3> QED BY <1>3, <3>1, <3>2, OppNRule
  <2>8. Ends(c, e, At(6, Z, 4), h)
    <3>1. Here(c, 6, Z, 4, 1) /\ 6 + 1 < Len(c)
      BY <1>1, <1>7 DEF Here
    <3>2. Ends(c, e, At(6 + 2, Append(Z, c[6 + 2]), 4 + 1), h)
      BY <1>1, <2>7
    <3> QED BY <3>1, <3>2, PushRule
  <2>9. Ends(c, e, At(0, << >>, 0), h)
    BY <1>2, <1>4, <1>9, <2>8, TestRule DEF x, Z
  <2> QED BY <2>9, StartIsAt DEF c, h, y, z
<1> QED BY <1>8, <1>9

\* What the two parties have done so far, as their players see it.
Seen(e) ==
    /\ e \in Observed
    /\ Len(e.my) = Len(e.opp) /\ e.round = Len(e.my)

LEMMA DefectionsMet ==
    ASSUME NEW h \in Seq(Moves)
    PROVE  Defections(h) # 0 <=> \E i \in DOMAIN h : h[i] = "Defect"
<1> DEFINE D == {i \in DOMAIN h : h[i] = "Defect"}
<1>1. DOMAIN h = 1..Len(h) /\ Len(h) \in Nat
  OBVIOUS
<1>2. IsFiniteSet(D)
  <2>1. IsFiniteSet(1..Len(h))
    BY <1>1, FS_Interval
  <2> QED BY <1>1, <2>1, FS_Subset
<1>3. Cardinality(D) = 0 <=> D = {}
  <2> HIDE DEF D
  <2> QED BY <1>2, FS_EmptySet
<1> QED BY <1>3 DEF Defections

\* What the program of a builtin returns, in a match.
ParityOutcome(base, e) ==
    IF base = "Pavlov" /\ e.my # << >> /\ LastMove(e.opp) = "Defect"
    THEN "Cooperate"
    ELSE ExecuteStrategy(base, e.opp, e.my, e.draws)

LEMMA OutcomeIs ==
    ASSUME NEW c \in Seq(Byte), NEW e \in Observed, NEW h, Ends(c, e, Start, h)
    PROVE  ExecuteBytecode(c, e) = IF h \in Moves THEN h ELSE "Cooperate"
BY ExecuteInnerEnds DEF ExecuteBytecode

LEMMA ParityIsBytes == \A base \in DOMAIN ParityProgram : ParityProgram[base] \in Seq(Byte)
<1>1. /\ <<0>> \in Seq(Byte) /\ <<22>> \in Seq(Byte) /\ <<2, 24>> \in Seq(Byte)
      /\ <<6, 1, 0, 13, 21, 1, 0, 22>> \in Seq(Byte)
      /\ <<8, 1, 0, 15, 21, 2, 2, 24, 22>> \in Seq(Byte)
  BY DEF Byte
<1>2. <<8, 1, 2, 14, 21, 8, 1, 0, 4, 1, 1, 4, 17, 24, 0>> \in Seq(Byte)
  BY DEF Byte
<1>3. <<8, 1, 0, 15, 21, 9, 23, 1, 3, 14, 21, 3, 3, 24, 3, 16, 24, 0>> \in Seq(Byte)
  BY DEF Byte
<1> QED BY <1>1, <1>2, <1>3, ParityCodes

LEMMA ParityOutcomes ==
    ASSUME NEW e, Seen(e), NEW base \in DOMAIN ParityProgram
    PROVE  ExecuteBytecode(ParityProgram[base], e) = ParityOutcome(base, e)
<1> DEFINE Plays(b) == ExecuteBytecode(ParityProgram[b], e)
           Native(b) == ExecuteStrategy(b, e.opp, e.my, e.draws)
           n == Len(e.opp)
<1>1. /\ e \in Observed /\ e.opp \in Seq(Moves) /\ e.my \in Seq(Moves) /\ n \in Nat
      /\ Len(e.my) = n /\ e.round = n
  BY DEF Seen, Observed
<1>2. \A b \in DOMAIN ParityProgram : \A h :
          Ends(ParityProgram[b], e, Start, h) => Plays(b) = IF h \in Moves THEN h
                                                            ELSE "Cooperate"
  BY <1>1, ParityIsBytes, OutcomeIs
<1>3. LastMove(e.opp) \in Moves /\ LastMove(e.my) \in Moves
      /\ "Cooperate" \in Moves /\ "Defect" \in Moves /\ "Underflow" \notin Moves
  BY <1>1, LastMoveIsMove DEF Moves
<1>4. \A test : DefectIf(test) \in Moves
  BY <1>3 DEF DefectIf
<1> HIDE DEF Plays
<1>5. CASE base = "AlwaysCooperate"
  <2>1. Plays(base) = "Cooperate"
    BY <1>1, <1>2, <1>3, <1>5, ParityCodes, CooperatorRuns
  <2>2. Native(base) = "Cooperate"
    BY <1>5 DEF ExecuteStrategy
  <2> QED BY <1>5, <2>1, <2>2 DEF ParityOutcome, Plays
<1>6. CASE base = "AlwaysDefect"
  <2>1. Plays(base) = "Defect"
    BY <1>1, <1>2, <1>3, <1>6, ParityCodes, DefectorRuns
  <2>2. Native(base) = "Defect"
    BY <1>6 DEF ExecuteStrategy
  <2> QED BY <1>6, <2>1, <2>2 DEF ParityOutcome, Plays
<1>7. CASE base = "TitForTat"
  <2>1. Plays(base) = LastMove(e.opp)
    BY <1>1, <1>2, <1>3, <1>7, ParityCodes, TitForTatRuns
  <2>2. Native(base) = LastMove(e.opp)
    BY <1>7 DEF ExecuteStrategy
  <2> QED BY <1>7, <2>1, <2>2 DEF ParityOutcome, Plays
<1>8. CASE base = "GrimTrigger"
  <2> DEFINE h == DefectIf(Defections(e.opp) # 0)
  <2>1. h \in Moves
    BY <1>4
  <2>2. Ends(ParityProgram[base], e, Start, h)
    BY <1>1, <1>8, ParityCodes, GrimTriggerRuns
  <2>3. Plays(base) = h
    <3> HIDE DEF h
    <3> QED BY <1>2, <2>1, <2>2
  <2>4. Native(base) = DefectIf(\E i \in DOMAIN e.opp : e.opp[i] = "Defect")
    BY <1>8 DEF ExecuteStrategy
  <2>5. h = DefectIf(\E i \in DOMAIN e.opp : e.opp[i] = "Defect")
    BY <1>1, DefectionsMet DEF DefectIf
  <2> QED BY <1>8, <2>3, <2>4, <2>5 DEF ParityOutcome, Plays
<1>9. CASE base = "SuspiciousTitForTat"
  <2> DEFINE h == IF e.round = 0 THEN "Defect" ELSE LastMove(e.opp)
  <2>1. h \in Moves
    BY <1>3
  <2>2. Ends(ParityProgram[base], e, Start, h)
    BY <1>1, <1>9, ParityCodes, SuspiciousRuns
  <2>3. Plays(base) = h
    <3> HIDE DEF h
    <3> QED BY <1>2, <2>1, <2>2
  <2>4. Native(base) = IF e.opp = << >> THEN "Defect" ELSE LastMove(e.opp)
    BY <1>9 DEF ExecuteStrategy
  <2>5. e.round = 0 <=> e.opp = << >>
    BY <1>1
  <2> QED BY <1>9, <2>3, <2>4, <2>5 DEF ParityOutcome, Plays
<1>10. CASE base = "TitForTwoTats"
  <2> DEFINE test == HistoryNAgo(e.opp, 0) # 0 /\ HistoryNAgo(e.opp, 1) # 0
             h == IF e.round < 2 THEN "Cooperate" ELSE DefectIf(test)
  <2>1. h \in Moves
    BY <1>3, <1>4
  <2>2. Ends(ParityProgram[base], e, Start, h)
    BY <1>1, <1>10, ParityCodes, TwoTatsRuns
  <2>3. Plays(base) = h
    <3> HIDE DEF h
    <3> QED BY <1>2, <2>1, <2>2
  <2>4. Native(base) = ExecuteTitForTwoTats(e.opp)
    BY <1>10 DEF ExecuteStrategy
  <2>5. h = ExecuteTitForTwoTats(e.opp)
    <3>1. CASE n < 2
      BY <1>1, <3>1 DEF ExecuteTitForTwoTats, DefectIf
    <3>2. CASE n >= 2
      <4>1. /\ HistoryNAgo(e.opp, 0) # 0 <=> e.opp[n] = "Defect"
            /\ HistoryNAgo(e.opp, 1) # 0 <=> e.opp[n - 1] = "Defect"
        BY <1>1, <3>2 DEF HistoryNAgo, MoveToU8
      <4> QED BY <1>1, <3>2, <4>1 DEF ExecuteTitForTwoTats, DefectIf
    <3> QED BY <1>1, <3>1, <3>2
  <2> QED BY <1>10, <2>3, <2>4, <2>5 DEF ParityOutcome, Plays
<1>11. CASE base = "Pavlov"
  <2> DEFINE score == Payoff(LastMove(e.my), LastMove(e.opp))[1]
             bad == e.my = << >> \/ score < 3
             h == IF bad THEN "Underflow" ELSE LastMove(e.my)
  <2>1. e.round = 0 <=> e.my = << >>
    BY <1>1
  <2>2. Ends(ParityProgram[base], e, Start, h)
    BY <1>1, <1>11, <2>1, ParityCodes, PavlovRuns
  <2>3. Plays(base) = IF h \in Moves THEN h ELSE "Cooperate"
    <3> HIDE DEF h
    <3> QED BY <1>2, <2>2
  <2>4. Plays(base) = IF bad THEN "Cooperate" ELSE LastMove(e.my)
    <3> HIDE DEF bad
    <3> QED BY <1>3, <2>3
  <2>5. Native(base) = ExecutePavlov(e.opp, e.my)
    BY <1>11 DEF ExecuteStrategy
  <2>6. score < 3 <=> LastMove(e.opp) = "Defect"
    BY <1>3 DEF Payoff, Moves
  <2>7. score \in Nat
    BY <1>3 DEF Payoff, Moves
  <2>8. ExecutePavlov(e.opp, e.my)
          = IF e.my = << >> THEN "Cooperate"
            ELSE IF score >= 3 THEN LastMove(e.my)
            ELSE DefectIf(LastMove(e.my) = "Cooperate")
    BY DEF ExecutePavlov
  <2> HIDE DEF score
  <2> QED BY <1>11, <2>4, <2>5, <2>6, <2>7, <2>8 DEF ParityOutcome, Plays
<1> QED
  BY <1>5, <1>6, <1>7, <1>8, <1>9, <1>10, <1>11, ParityCodes

\* vm.rs, parity tests: in a match of any length, against any opponent, the program
\* of a builtin other than Pavlov plays the builtin's move.
THEOREM ParityProgramsPlayAsBuiltins ==
    ASSUME NEW e, Seen(e), NEW base \in DOMAIN ParityProgram \ {"Pavlov"}
    PROVE  ExecuteBytecode(ParityProgram[base], e)
             = ExecuteStrategy(base, e.opp, e.my, e.draws)
  BY ParityOutcomes DEF ParityOutcome

\* vm.rs, test_parity_pavlov: the program differs from Pavlov exactly where Pavlov,
\* having cooperated, has just met a defection and defects: it stops there with
\* an empty stack and cooperates.
THEOREM PavlovsProgramDiffers ==
    ASSUME NEW e, Seen(e)
    PROVE  ExecuteBytecode(ParityProgram["Pavlov"], e) # ExecuteStrategy("Pavlov", e.opp, e.my, e.draws)
             <=> e.my # << >> /\ LastMove(e.my) = "Cooperate" /\ LastMove(e.opp) = "Defect"
<1> DEFINE met == e.my # << >> /\ LastMove(e.opp) = "Defect"
<1>1. "Pavlov" \in DOMAIN ParityProgram
  BY ParityCodes
<1>2. ExecuteBytecode(ParityProgram["Pavlov"], e)
        = IF met THEN "Cooperate" ELSE ExecuteStrategy("Pavlov", e.opp, e.my, e.draws)
  BY <1>1, ParityOutcomes DEF ParityOutcome
<1>3. ASSUME met
      PROVE  ExecuteStrategy("Pavlov", e.opp, e.my, e.draws)
               = DefectIf(LastMove(e.my) = "Cooperate")
  <2>1. LastMove(e.my) \in Moves
    BY LastMoveIsMove DEF Seen, Observed
  <2>2. Payoff(LastMove(e.my), LastMove(e.opp))[1] < 3
    BY <1>3, <2>1 DEF Payoff, Moves
  <2>3. ExecuteStrategy("Pavlov", e.opp, e.my, e.draws) = ExecutePavlov(e.opp, e.my)
    BY DEF ExecuteStrategy
  <2>4. ~(Payoff(LastMove(e.my), LastMove(e.opp))[1] >= 3)
    <3>1. Payoff(LastMove(e.my), LastMove(e.opp))[1] \in Nat
      BY <1>3, <2>1 DEF Payoff, Moves
    <3> QED BY <2>2, <3>1
  <2> QED BY <1>3, <2>3, <2>4 DEF ExecutePavlov
<1>4. "Defect" # "Cooperate"
  OBVIOUS
<1> QED BY <1>2, <1>3, <1>4 DEF DefectIf

=============================================================================
