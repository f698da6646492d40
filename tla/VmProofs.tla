------------------------------ MODULE VmProofs ------------------------------
(***************************************************************************)
(* Proofs about Vm: a program that passed the length check never runs out  *)
(* of fuel; an accepted program is executed as it was validated and only   *)
(* runs off its end by a jump; the registers of every program keep their   *)
(* types.                                                                  *)
(***************************************************************************)
EXTENDS Vm, BytecodeProofs

\* The machine is a record whose counters are numbers, and it has not executed
\* more instructions than it has advanced bytes.
Forward ==
    /\ machine = [pc |-> machine.pc, stack |-> machine.stack, fuel |-> machine.fuel,
                  drawn |-> machine.drawn, halt |-> machine.halt]
    /\ machine.pc \in Nat /\ machine.fuel \in Nat
    /\ machine.fuel <= machine.pc

\* A program that is being scanned or was accepted is short enough.
ScannedIsShort ==
    /\ scan = [pc |-> scan.pc, has_terminal |-> scan.has_terminal,
               verdict |-> scan.verdict]
    /\ scan.verdict \in {"scanning", "Ok"} => Len(code) <= MAX_BYTECODE_LEN

FuelInv ==
    /\ code \in Seq(Byte)
    /\ Forward
    /\ ScannedIsShort
    /\ FuelSuffices
    /\ scan.verdict \in {"unchecked", "scanning"} => machine.halt = "running"

-----------------------------------------------------------------------------
\* A step keeps Forward.
LEMMA StepForward ==
    ASSUME code \in Seq(Byte), Forward, machine' = Step(code, env, machine)
    PROVE  Forward'
<1> DEFINE m == machine
<1>1. CASE m.pc >= Len(code)
  BY <1>1 DEF Step, Forward
<1>2. CASE m.pc < Len(code) /\ Failure(code, m) # "none"
  BY <1>2 DEF Step, Forward
<1>3. CASE m.pc < Len(code) /\ Failure(code, m) = "none" /\ code[m.pc + 1] \in Terminals
  BY <1>3 DEF Step, Forward
<1>4. CASE m.pc < Len(code) /\ Failure(code, m) = "none" /\ code[m.pc + 1] \notin Terminals
  <2>1. NextPc(code, m) \in Nat /\ NextPc(code, m) >= m.pc + 1
    BY <1>4, NextPcForward DEF Forward
  <2>2. machine' = Continued(code, env, m)
    BY <1>4 DEF Step, Forward
  <2>3. /\ machine' = [pc |-> machine'.pc, stack |-> machine'.stack,
                       fuel |-> machine'.fuel, drawn |-> machine'.drawn,
                       halt |-> machine'.halt]
        /\ machine'.pc = NextPc(code, m) /\ machine'.fuel = m.fuel + 1
    BY <2>2 DEF Continued, Forward
  <2> QED BY <2>1, <2>3 DEF Forward
<1> QED BY <1>1, <1>2, <1>3, <1>4 DEF Forward

\* A step of a short program does not run out of fuel.
LEMMA StepHasFuel ==
    ASSUME code \in Seq(Byte), Forward, Len(code) <= MAX_BYTECODE_LEN,
           machine.halt = "running", machine' = Step(code, env, machine)
    PROVE  machine'.halt # "OutOfFuel"
<1> DEFINE m == machine
<1>1. CASE m.pc >= Len(code)
  BY <1>1 DEF Step, Forward
<1>2. CASE m.pc < Len(code) /\ Failure(code, m) # "none"
  <2>1. machine'.halt = Failure(code, m)
    BY <1>2 DEF Step, Forward
  <2>2. m.fuel < MAX_FUEL
    BY <1>2 DEF Forward, MAX_FUEL, MAX_BYTECODE_LEN
  <2> QED BY <2>1, <2>2, OutOfFuelOnlyAtLimit DEF Forward, MAX_FUEL
<1>3. CASE m.pc < Len(code) /\ Failure(code, m) = "none" /\ code[m.pc + 1] \in Terminals
  <2>1. machine'.halt = Returned(code, m)
    BY <1>3 DEF Step, Forward
  <2>2. Returned(code, m) \in Moves
    BY <1>3 DEF Returned, Terminals, Moves
  <2> QED BY <2>1, <2>2 DEF Moves
<1>4. CASE m.pc < Len(code) /\ Failure(code, m) = "none" /\ code[m.pc + 1] \notin Terminals
  <2>1. machine' = Continued(code, env, m)
    BY <1>4 DEF Step, Forward
  <2> QED BY <2>1 DEF Continued, Forward
<1> QED BY <1>1, <1>2, <1>3, <1>4 DEF Forward

-----------------------------------------------------------------------------
LEMMA FuelInit == Init => FuelInv
<1> SUFFICES ASSUME Init PROVE FuelInv
  OBVIOUS
<1>1. code \in Seq(Byte)
  BY ProgramsAssumption DEF Init
<1>2. Forward /\ machine.halt = "running"
  BY DEF Init, Start, Forward
<1>3. ScannedIsShort /\ scan.verdict = "unchecked"
  BY DEF Init, ScannedIsShort
<1> QED BY <1>1, <1>2, <1>3 DEF FuelInv, FuelSuffices, Accepted

LEMMA FuelStep == FuelInv /\ [Next]_vars => FuelInv'
<1> SUFFICES ASSUME FuelInv, [Next]_vars PROVE FuelInv'
  OBVIOUS
<1>1. CASE CheckLength
  <2>1. UNCHANGED <<code, machine>> /\ scan.verdict = "unchecked"
    BY <1>1 DEF CheckLength
  <2>2. ScannedIsShort' /\ scan'.verdict # "Ok"
    <3>1. code \in Seq(Byte) /\ Len(code) \in Nat
      BY DEF FuelInv
    <3> QED BY <1>1, <3>1 DEF CheckLength, FuelInv, ScannedIsShort, MAX_BYTECODE_LEN
  <2> QED BY <2>1, <2>2 DEF FuelInv, Forward, FuelSuffices, Accepted
<1>2. CASE ScanInstruction
  <2>1. UNCHANGED <<code, machine>> /\ scan.verdict = "scanning"
    BY <1>2 DEF ScanInstruction
  <2>2. scan'.verdict # "Ok"
    BY <1>2 DEF ScanInstruction, FuelInv, ScannedIsShort, Checked
  <2>3. ScannedIsShort'
    BY <1>2, <2>1 DEF ScanInstruction, FuelInv, ScannedIsShort
  <2> QED BY <2>1, <2>2, <2>3 DEF FuelInv, Forward, FuelSuffices, Accepted
<1>3. CASE ScanEnd
  <2>1. UNCHANGED <<code, machine>> /\ scan.verdict = "scanning"
    BY <1>3 DEF ScanEnd
  <2>2. ScannedIsShort' /\ scan'.verdict \notin {"unchecked", "scanning"}
    BY <1>3 DEF ScanEnd, FuelInv, ScannedIsShort, Verdict
  <2> QED BY <2>1, <2>2 DEF FuelInv, Forward, FuelSuffices, Accepted
<1>4. CASE ExecuteInstruction
  <2>1. /\ UNCHANGED <<code, scan>> /\ machine' = Step(code, env, machine)
        /\ machine.halt = "running"
        /\ scan.verdict \notin {"unchecked", "scanning"}
    BY <1>4 DEF ExecuteInstruction, Rejections
  <2>2. Forward'
    BY <2>1, StepForward DEF FuelInv
  <2>3. scan.verdict = "Ok" => machine'.halt # "OutOfFuel"
    BY <2>1, StepHasFuel DEF FuelInv, ScannedIsShort
  <2> QED BY <2>1, <2>2, <2>3 DEF FuelInv, ScannedIsShort, FuelSuffices, Accepted
<1>5. CASE UNCHANGED vars
  BY <1>5 DEF vars, FuelInv, Forward, ScannedIsShort, FuelSuffices, Accepted
<1> QED BY <1>1, <1>2, <1>3, <1>4, <1>5 DEF Next

\* vm.rs: a program validate_bytecode accepts is never stopped by MAX_FUEL, in
\* any round of any match: its move is its own and not the fail-safe for an
\* exhausted limit.
THEOREM FuelNeverExhausted == Spec => []FuelSuffices
<1>1. FuelInv => FuelSuffices
  BY DEF FuelInv
<1> QED BY <1>1, FuelInit, FuelStep, PTL DEF Spec

-----------------------------------------------------------------------------
(***************************************************************************)
(* The validator and the interpreter decode the same instructions          *)
(***************************************************************************)
\* The offset of the instruction behind the one at i.
After(i) == IF code[i + 1] \in Immediates THEN i + 2 ELSE i + 1

\* Every instruction the validator has passed is well formed, and the one
\* behind it is the next it has passed or the one it has come to.
Passed(i) ==
    /\ i \in Nat /\ i < scan.pc
    /\ code[i + 1] \in Known
    /\ code[i + 1] \in Immediates => i + 1 < Len(code) /\ i + 1 \notin starts
    /\ After(i) \in starts \cup {scan.pc}
    /\ code[i + 1] \in Terminals => scan.has_terminal

\* Nothing is executed before the verdict.
Unstarted == machine.pc = 0 /\ machine.halt = "running" /\ landings = {}

\* In a straight line no terminal instruction has been passed.
Straight ==
    landings = {} => \A i \in starts : i < machine.pc => code[i + 1] \notin Terminals

ScanInv ==
    /\ scan.pc \in 0..Len(code)
    /\ 0 \in starts \cup {scan.pc}
    /\ scan.verdict = "unchecked" => starts = {} /\ scan.pc = 0 /\ ~scan.has_terminal
    /\ scan.verdict \in {"scanning", "Ok"} => \A i \in starts : Passed(i)
    /\ scan.verdict \in {"unchecked", "scanning"} => Unstarted
    /\ scan.verdict \in {"scanning", "Ok"} /\ scan.has_terminal =>
           \E i \in starts : code[i + 1] \in Terminals
    /\ Accepted => scan.pc = Len(code) /\ scan.has_terminal
    /\ Accepted => Straight

DecodeInv == FuelInv /\ ScanInv /\ DecodedAsValidated /\ FallsOffByJumping

LEMMA DecodeInit == Init => DecodeInv
<1> SUFFICES ASSUME Init PROVE DecodeInv
  OBVIOUS
<1>1. FuelInv
  BY FuelInit
<1>2. Len(code) \in Nat /\ scan.verdict = "unchecked" /\ ~Accepted
  BY <1>1 DEF FuelInv, Init, Accepted
<1>3. ScanInv
  BY <1>2 DEF ScanInv, Init, Unstarted, Start
<1> QED
  BY <1>1, <1>2, <1>3 DEF DecodeInv, DecodedAsValidated, FallsOffByJumping

\* A verdict of the scan, and no execution yet.
LEMMA ScanKeeps ==
    ASSUME DecodeInv, UNCHANGED <<code, env, machine, landings>>, ScanInv', FuelInv',
           scan.verdict \in {"unchecked", "scanning"}
    PROVE  DecodeInv'
<1>1. Unstarted /\ machine' = machine
  BY DEF DecodeInv, ScanInv
<1>2. machine'.pc = 0 /\ machine'.halt = "running"
  BY <1>1 DEF Unstarted
<1>3. Accepted' => 0 \in (starts \cup {Len(code)})'
  BY DEF ScanInv
<1>4. DecodedAsValidated' /\ FallsOffByJumping'
  BY <1>2, <1>3 DEF DecodedAsValidated, FallsOffByJumping
<1> QED
  BY <1>4 DEF DecodeInv

LEMMA CheckLengthDecode == DecodeInv /\ CheckLength => DecodeInv'
<1> SUFFICES ASSUME DecodeInv, CheckLength PROVE DecodeInv'
  OBVIOUS
<1>1. /\ UNCHANGED <<code, env, machine, starts, landings>>
      /\ scan.verdict = "unchecked"
  BY DEF CheckLength
<1>2. /\ scan'.pc = scan.pc /\ scan'.has_terminal = scan.has_terminal
      /\ scan'.verdict \notin {"unchecked", "Ok"}
  BY DEF CheckLength, DecodeInv, FuelInv, ScannedIsShort
<1>3. starts = {} /\ scan.pc = 0 /\ ~scan.has_terminal /\ Unstarted /\ Len(code) \in Nat
  BY <1>1 DEF DecodeInv, ScanInv, FuelInv
<1>4. ScanInv'
  BY <1>1, <1>2, <1>3 DEF ScanInv, Accepted, Unstarted
<1>5. FuelInv'
  BY FuelStep DEF DecodeInv, Next
<1> QED
  BY <1>1, <1>4, <1>5, ScanKeeps

\* A checked instruction has passed, and the next one is behind it.
LEMMA ScanInstructionPasses ==
    ASSUME DecodeInv, ScanInstruction, Checked(scan.pc) = "scanning"
    PROVE  /\ scan'.pc = After(scan.pc) /\ scan'.pc > scan.pc
           /\ scan'.pc \in 0..Len(code)
           /\ scan'.verdict = "scanning"
           /\ scan'.has_terminal = (scan.has_terminal \/ code[scan.pc + 1] \in Terminals)
           /\ code[scan.pc + 1] \in Known
           /\ code[scan.pc + 1] \in Immediates => scan.pc + 1 < Len(code)
<1>1. /\ scan.pc \in Nat /\ scan.pc < Len(code) /\ Len(code) \in Nat
      /\ scan.verdict = "scanning"
      /\ scan = [pc |-> scan.pc, has_terminal |-> scan.has_terminal,
                 verdict |-> scan.verdict]
  BY DEF DecodeInv, ScanInv, FuelInv, ScannedIsShort, ScanInstruction
<1>2. /\ code[scan.pc + 1] \in Known
      /\ code[scan.pc + 1] \in Immediates => ~(scan.pc + 1 >= Len(code))
  BY DEF Checked
<1>3. scan' = [scan EXCEPT !.has_terminal = @ \/ code[scan.pc + 1] \in Terminals,
                           !.pc = IF code[scan.pc + 1] \in Immediates THEN @ + 2 ELSE @ + 1]
  BY DEF ScanInstruction
<1>4. /\ scan'.pc = After(scan.pc) /\ scan'.verdict = "scanning"
      /\ scan'.has_terminal = (scan.has_terminal \/ code[scan.pc + 1] \in Terminals)
  BY <1>1, <1>3 DEF After
<1>5. After(scan.pc) > scan.pc /\ After(scan.pc) \in 0..Len(code)
  BY <1>1, <1>2 DEF After
<1> QED
  BY <1>1, <1>2, <1>4, <1>5

LEMMA ScanInstructionDecode == DecodeInv /\ ScanInstruction => DecodeInv'
<1> SUFFICES ASSUME DecodeInv, ScanInstruction PROVE DecodeInv'
  OBVIOUS
<1>1. /\ UNCHANGED <<code, env, machine, landings>>
      /\ scan.verdict = "scanning" /\ starts' = starts \cup {scan.pc}
  BY DEF ScanInstruction
<1>2. FuelInv'
  BY FuelStep DEF DecodeInv, Next
<1>3. CASE Checked(scan.pc) # "scanning"
  <2>1. scan'.pc = scan.pc /\ scan'.verdict = Checked(scan.pc)
    BY <1>3 DEF ScanInstruction, DecodeInv, FuelInv, ScannedIsShort
  <2>2. Checked(scan.pc) \notin {"unchecked", "scanning", "Ok"}
    BY <1>3 DEF Checked
  <2>3. ScanInv'
    BY <1>1, <2>1, <2>2 DEF DecodeInv, ScanInv, Accepted
  <2> QED
    BY <1>1, <1>2, <2>3, ScanKeeps
<1>4. CASE Checked(scan.pc) = "scanning"
  <2> DEFINE p == scan.pc
  <2>1. /\ scan'.pc = After(p) /\ scan'.pc > p /\ scan'.pc \in 0..Len(code)
        /\ scan'.verdict = "scanning"
        /\ scan'.has_terminal = (scan.has_terminal \/ code[p + 1] \in Terminals)
        /\ code[p + 1] \in Known
        /\ code[p + 1] \in Immediates => p + 1 < Len(code)
    BY <1>4, ScanInstructionPasses
  <2>2. p \in Nat /\ (\A i \in starts : Passed(i)) /\ Unstarted
    BY <1>1 DEF DecodeInv, ScanInv
  <2>3. ASSUME NEW i \in starts' PROVE Passed(i)'
    <3>1. CASE i \in starts
      <4>1. Passed(i)
        BY <2>2, <3>1
      <4>2. After(i)' = After(i)
        BY <1>1 DEF After
      <4>3. After(i) \in starts'
        BY <1>1, <4>1 DEF Passed
      <4>4. i \in Nat /\ i < p
        BY <4>1 DEF Passed
      <4>5. code[i + 1] \in Immediates => i + 1 # p
        <5>1. SUFFICES ASSUME code[i + 1] \in Immediates, i + 1 = p PROVE FALSE
          OBVIOUS
        <5>2. After(i) = i + 2 /\ i + 2 \in starts \cup {p}
          BY <5>1, <4>1 DEF After, Passed
        <5>3. i + 2 \in starts
          BY <5>1, <5>2, <4>4
        <5>4. i + 2 < p
          BY <5>3, <2>2 DEF Passed
        <5> QED
          BY <5>1, <5>4, <4>4
      <4>6. i < scan'.pc
        BY <4>4, <2>1, <2>2
      <4> QED
        BY <1>1, <2>1, <4>1, <4>2, <4>3, <4>4, <4>5, <4>6 DEF Passed
    <3>2. CASE i = p
      <4>1. After(i)' = After(p)
        BY <1>1, <3>2 DEF After
      <4>2. p + 1 \notin starts'
        <5>1. p + 1 \notin starts
          BY <2>2 DEF Passed
        <5> QED
          BY <5>1, <1>1, <2>2
      <4> QED
        BY <1>1, <2>1, <2>2, <3>2, <4>1, <4>2 DEF Passed
    <3> QED
      BY <1>1, <3>1, <3>2
  <2>4. 0 \in (starts \cup {scan.pc})'
    BY <1>1 DEF DecodeInv, ScanInv
  <2>5. scan'.has_terminal => \E i \in starts' : code'[i + 1] \in Terminals
    BY <1>1, <2>1 DEF DecodeInv, ScanInv
  <2>6. Unstarted'
    BY <1>1, <2>2 DEF Unstarted
  <2>7. ScanInv'
    BY <1>1, <2>1, <2>3, <2>4, <2>5, <2>6 DEF ScanInv, Accepted
  <2> QED
    BY <1>1, <1>2, <2>7, ScanKeeps
<1> QED
  BY <1>3, <1>4

LEMMA ScanEndDecode == DecodeInv /\ ScanEnd => DecodeInv'
<1> SUFFICES ASSUME DecodeInv, ScanEnd PROVE DecodeInv'
  OBVIOUS
<1>1. /\ UNCHANGED <<code, env, machine, starts, landings>>
      /\ scan.verdict = "scanning"
      /\ scan.pc = Len(code)
  BY DEF ScanEnd, DecodeInv, ScanInv, FuelInv
<1>2. /\ scan'.pc = scan.pc /\ scan'.has_terminal = scan.has_terminal
      /\ scan'.verdict = Verdict(scan.has_terminal)
  BY DEF ScanEnd, DecodeInv, FuelInv, ScannedIsShort
<1>3. /\ scan'.verdict \notin {"unchecked", "scanning"}
      /\ scan'.verdict = "Ok" => scan.has_terminal
  BY <1>2 DEF Verdict
<1>4. \A i \in starts : Passed(i)' = Passed(i)
  BY <1>1, <1>2 DEF Passed, After
<1>5. Straight'
  <2>1. machine'.pc = 0 /\ \A i \in starts' : i \in Nat
    BY <1>1 DEF DecodeInv, ScanInv, Unstarted, Passed
  <2> QED
    BY <2>1 DEF Straight
<1>6. ScanInv'
  BY <1>1, <1>2, <1>3, <1>4, <1>5 DEF DecodeInv, ScanInv, Accepted
<1>7. FuelInv'
  BY FuelStep DEF DecodeInv, Next
<1> QED
  BY <1>1, <1>6, <1>7, ScanKeeps

\* The three ways in which an instruction ends.
LEMMA StepCases ==
    ASSUME FuelInv, machine.halt = "running", machine' = Step(code, env, machine)
    PROVE  \/ /\ machine.pc >= Len(code)
              /\ machine'.pc = machine.pc /\ machine'.halt = "FellOff"
           \/ /\ machine.pc < Len(code)
              /\ machine'.pc = machine.pc
              /\ \/ machine'.halt = Failure(code, machine) /\ machine'.halt # "none"
                 \/ machine'.halt \in Moves
           \/ /\ machine.pc < Len(code)
              /\ Failure(code, machine) = "none" /\ code[machine.pc + 1] \notin Terminals
              /\ machine'.pc = NextPc(code, machine) /\ machine'.halt = "running"
<1> DEFINE m == machine
<1>0. Len(code) \in Nat /\ m.pc \in Nat
  BY DEF FuelInv, Forward
<1>1. CASE m.pc >= Len(code)
  BY <1>1 DEF Step, FuelInv, Forward
<1>2. CASE m.pc < Len(code) /\ Failure(code, m) # "none"
  <2>1. machine' = [m EXCEPT !.halt = Failure(code, m)]
    BY <1>0, <1>2 DEF Step
  <2> QED
    BY <1>2, <2>1 DEF FuelInv, Forward
<1>3. CASE m.pc < Len(code) /\ Failure(code, m) = "none" /\ code[m.pc + 1] \in Terminals
  <2>1. machine' = [m EXCEPT !.halt = Returned(code, m)]
    BY <1>0, <1>3 DEF Step
  <2>2. Returned(code, m) \in Moves
    BY <1>3 DEF Returned, Terminals, Moves
  <2> QED
    BY <1>3, <2>1, <2>2 DEF FuelInv, Forward
<1>4. CASE m.pc < Len(code) /\ Failure(code, m) = "none" /\ code[m.pc + 1] \notin Terminals
  <2>1. machine' = Continued(code, env, m)
    BY <1>0, <1>4 DEF Step
  <2>2. machine'.pc = NextPc(code, m) /\ machine'.halt = m.halt
    BY <2>1 DEF Continued, FuelInv, Forward
  <2> QED
    BY <1>4, <2>2
<1> QED
  BY <1>0, <1>1, <1>2, <1>3, <1>4

\* An instruction the validator has passed can be decoded.
LEMMA PassedDecodes ==
    ASSUME NEW c, NEW m, c[m.pc + 1] \in Known,
           c[m.pc + 1] \in Immediates => m.pc + 1 < Len(c),
           m.pc \in Nat, Len(c) \in Nat
    PROVE  Failure(c, m) \notin {"UnknownOpcode", "Truncated", "FellOff"}
BY DEF Failure

\* As long as the program is aligned, the machine is where the validator was.
LEMMA ExecuteAligned ==
    ASSUME DecodeInv, ExecuteInstruction, Accepted, Aligned'
    PROVE  /\ machine.pc \in starts \cup {Len(code)}
           /\ machine.pc < Len(code) => machine.pc \in starts /\ Passed(machine.pc)
           /\ Aligned
           /\ scan.pc = Len(code)
<1>1. UNCHANGED <<code, env, scan, starts>> /\ landings \subseteq landings'
  BY DEF ExecuteInstruction
<1>2. Aligned
  BY <1>1 DEF Aligned
<1>3. machine.pc \in starts \cup {Len(code)}
  BY <1>2 DEF DecodeInv, DecodedAsValidated
<1>4. machine.pc \in Nat /\ Len(code) \in Nat
  BY DEF DecodeInv, FuelInv, Forward
<1>5. (\A i \in starts : Passed(i)) /\ scan.pc = Len(code)
  BY DEF DecodeInv, ScanInv, Accepted
<1> QED
  BY <1>2, <1>3, <1>4, <1>5

\* Where an instruction that continues leaves the machine.
LEMMA ContinuedAligned ==
    ASSUME DecodeInv, ExecuteInstruction, Accepted, Aligned',
           machine.pc < Len(code), machine'.halt = "running",
           machine'.pc = NextPc(code, machine)
    PROVE  /\ machine'.pc \in starts \cup {Len(code)}
           /\ landings' = {} => landings = {} /\ machine'.pc = After(machine.pc)
<1>1. CASE Taken(code, machine)
  <2>1. machine'.pc \in landings'
    BY <1>1 DEF ExecuteInstruction
  <2>2. landings' \subseteq starts \cup {Len(code)}
    BY DEF Aligned, ExecuteInstruction
  <2> QED
    BY <2>1, <2>2
<1>2. CASE ~Taken(code, machine)
  <2>1. machine'.pc = After(machine.pc) /\ landings' = landings
    BY <1>2 DEF NextPc, After, ExecuteInstruction
  <2>2. Passed(machine.pc) /\ scan.pc = Len(code)
    BY ExecuteAligned
  <2>3. After(machine.pc) \in starts \cup {Len(code)}
    BY <2>2 DEF Passed
  <2> QED
    BY <2>1, <2>3
<1> QED
  BY <1>1, <1>2

LEMMA ExecuteStraight ==
    ASSUME DecodeInv, ExecuteInstruction, Accepted
    PROVE  Straight'
<1>1. /\ UNCHANGED <<code, env, scan, starts>> /\ machine.halt = "running"
      /\ machine' = Step(code, env, machine) /\ landings \subseteq landings'
  BY DEF ExecuteInstruction
<1> SUFFICES ASSUME landings' = {}, NEW i \in starts, i < machine'.pc
             PROVE  code[i + 1] \notin Terminals
  BY <1>1 DEF Straight
<1>2. Aligned' /\ landings = {}
  BY <1>1 DEF Aligned
<1>3. \A j \in starts : j < machine.pc => code[j + 1] \notin Terminals
  BY <1>2 DEF DecodeInv, ScanInv, Straight
<1>4. CASE machine'.pc = machine.pc
  BY <1>3, <1>4
<1>5. CASE machine'.pc # machine.pc
  <2>1. /\ machine.pc < Len(code) /\ code[machine.pc + 1] \notin Terminals
        /\ machine'.pc = NextPc(code, machine) /\ machine'.halt = "running"
    BY <1>1, <1>5, StepCases DEF DecodeInv
  <2>2. machine'.pc = After(machine.pc)
    BY <1>2, <2>1, ContinuedAligned
  <2>3. Passed(machine.pc)
    BY <1>2, <2>1, ExecuteAligned
  <2>4. i \in Nat /\ machine.pc \in Nat
    BY <2>3 DEF DecodeInv, ScanInv, Accepted, Passed
  <2>5. i < machine.pc \/ i = machine.pc
    BY <2>2, <2>3, <2>4 DEF After, Passed
  <2> QED
    BY <1>3, <2>1, <2>5
<1> QED
  BY <1>4, <1>5

LEMMA ExecuteDecode == DecodeInv /\ ExecuteInstruction => DecodeInv'
<1> SUFFICES ASSUME DecodeInv, ExecuteInstruction PROVE DecodeInv'
  OBVIOUS
<1>1. /\ UNCHANGED <<code, env, scan, starts>> /\ machine.halt = "running"
      /\ machine' = Step(code, env, machine) /\ landings \subseteq landings'
      /\ scan.verdict \notin {"unchecked", "scanning"}
      /\ machine'.halt # "running" => landings' = landings
  BY DEF ExecuteInstruction, Rejections
<1>2. FuelInv' /\ Len(code) \in Nat /\ machine.pc \in Nat
  BY FuelStep DEF DecodeInv, Next, FuelInv, Forward
<1>3. Accepted' = Accepted
  BY <1>1 DEF Accepted
<1>4. ScanInv'
  <2>1. \A i \in starts : Passed(i)' = Passed(i)
    BY <1>1 DEF Passed, After
  <2>2. Accepted => Straight'
    BY ExecuteStraight
  <2> QED
    BY <1>1, <1>3, <2>1, <2>2 DEF DecodeInv, ScanInv
<1>5. DecodedAsValidated'
  <2> SUFFICES ASSUME Accepted, Aligned'
               PROVE  /\ machine'.pc \in starts \cup {Len(code)}
                      /\ machine'.halt \notin {"UnknownOpcode", "Truncated"}
    BY <1>1, <1>3 DEF DecodedAsValidated
  <2>1. /\ machine.pc \in starts \cup {Len(code)}
        /\ machine.pc < Len(code) => machine.pc \in starts /\ Passed(machine.pc)
    BY ExecuteAligned
  <2>2. CASE machine.pc >= Len(code)
    <3>1. machine'.pc = machine.pc /\ machine'.halt = "FellOff"
      BY <1>1, <1>2, <2>2, StepCases DEF DecodeInv
    <3> QED
      BY <2>1, <3>1
  <2>3. CASE machine.pc < Len(code) /\ machine'.halt = "running"
    <3>1. machine'.pc = NextPc(code, machine) \/ machine'.pc = machine.pc
      BY <1>1, <1>2, <2>3, StepCases DEF DecodeInv
    <3> QED
      BY <2>1, <2>3, <3>1, ContinuedAligned
  <2>4. CASE machine.pc < Len(code) /\ machine'.halt # "running"
    <3>1. /\ machine'.pc = machine.pc
          /\ machine'.halt = Failure(code, machine) \/ machine'.halt \in Moves
      BY <1>1, <1>2, <2>4, StepCases DEF DecodeInv
    <3>2. Failure(code, machine) \notin {"UnknownOpcode", "Truncated", "FellOff"}
      BY <1>2, <2>1, <2>4, PassedDecodes DEF Passed
    <3> QED
      BY <2>1, <3>1, <3>2 DEF Moves
  <2> QED
    BY <1>2, <2>2, <2>3, <2>4
<1>6. FallsOffByJumping'
  <2> SUFFICES ASSUME Accepted, machine'.halt = "FellOff", landings' = {} PROVE FALSE
    BY <1>3 DEF FallsOffByJumping
  <2>1. Aligned' /\ landings = {}
    BY <1>1 DEF Aligned
  <2>2. /\ machine.pc \in starts \cup {Len(code)}
        /\ machine.pc < Len(code) => Passed(machine.pc)
    BY <2>1, ExecuteAligned
  <2>3. machine.pc >= Len(code)
    <3>1. SUFFICES ASSUME machine.pc < Len(code) PROVE FALSE
      BY <1>2
    <3>2. Failure(code, machine) # "FellOff"
      BY <1>2, <2>2, <3>1, PassedDecodes DEF Passed
    <3>3. machine'.halt = Failure(code, machine) \/ machine'.halt \in Moves
          \/ machine'.halt = "running"
      BY <1>1, <1>2, <3>1, StepCases DEF DecodeInv
    <3> QED
      BY <3>2, <3>3 DEF Moves
  <2>4. PICK i \in starts : code[i + 1] \in Terminals
    BY DEF DecodeInv, ScanInv, Accepted
  <2>5. i \in Nat /\ i < Len(code)
    BY DEF DecodeInv, ScanInv, Accepted, Passed
  <2>6. i < machine.pc
    BY <1>2, <2>3, <2>5
  <2> QED
    BY <2>1, <2>4, <2>6 DEF DecodeInv, ScanInv, Straight
<1> QED
  BY <1>2, <1>4, <1>5, <1>6 DEF DecodeInv

LEMMA DecodeStep == DecodeInv /\ [Next]_vars => DecodeInv'
<1> SUFFICES ASSUME DecodeInv, [Next]_vars PROVE DecodeInv'
  OBVIOUS
<1>1. CASE Next
  BY <1>1, CheckLengthDecode, ScanInstructionDecode, ScanEndDecode, ExecuteDecode DEF Next
<1>2. CASE UNCHANGED vars
  <2>1. FuelInv'
    BY <1>2, FuelStep DEF DecodeInv
  <2>2. ScanInv' /\ DecodedAsValidated' /\ FallsOffByJumping'
    BY <1>2 DEF vars, DecodeInv, ScanInv, Passed, After, Unstarted, Straight, Accepted,
                DecodedAsValidated, FallsOffByJumping, Aligned
  <2> QED
    BY <2>1, <2>2 DEF DecodeInv
<1> QED
  BY <1>1, <1>2

\* vm.rs: execute_bytecode decodes a program as validate_bytecode did.  A jump may
\* land inside an operand, which the validator does not look at; until one does,
\* the interpreter only meets instructions the validator has decoded, stays within
\* the program, and neither an unknown opcode nor a cut-off immediate stops it.
THEOREM ExecutedAsValidated == Spec => []DecodedAsValidated
<1>1. DecodeInv => DecodedAsValidated
  BY DEF DecodeInv
<1> QED
  BY <1>1, DecodeInit, DecodeStep, PTL DEF Spec

\* vm.rs: the terminal instruction validate_bytecode insists on is enough for a
\* program without taken jumps: only one that has jumped can run off its end and
\* end in the fail-safe move.
THEOREM OnlyJumpsFallOff == Spec => []FallsOffByJumping
<1>1. DecodeInv => FallsOffByJumping
  BY DEF DecodeInv
<1> QED
  BY <1>1, DecodeInit, DecodeStep, PTL DEF Spec

-----------------------------------------------------------------------------
(***************************************************************************)
(* The registers keep their types                                          *)
(***************************************************************************)
\* The registers of the interpreter.
Registers ==
    /\ machine \in Machine
    /\ Len(machine.stack) <= STACK_SIZE
    /\ machine.fuel <= MAX_FUEL

LEMMA StepRegisters ==
    ASSUME code \in Seq(Byte), env \in Observed, Registers, machine.halt = "running",
           machine' = Step(code, env, machine)
    PROVE  Registers'
<1>1. StepPromise(code, env, machine)
  BY StepTyped DEF Registers
<1> QED
  BY <1>1 DEF Registers, StepPromise

\* The scan, and the offsets both sides have recorded.
ScanTyped ==
    /\ scan \in [pc : Nat, has_terminal : BOOLEAN,
                 verdict : {"unchecked", "scanning", "Ok"} \cup Rejections]
    /\ starts \subseteq Nat
    /\ landings \subseteq Nat

LEMMA ScanTypedStep ==
    ASSUME ScanTyped, ScanInstruction \/ CheckLength \/ ScanEnd PROVE ScanTyped'
<1>1. /\ scan.pc \in Nat /\ scan.has_terminal \in BOOLEAN
      /\ scan = [pc |-> scan.pc, has_terminal |-> scan.has_terminal,
                 verdict |-> scan.verdict]
  BY DEF ScanTyped
<1> DEFINE Judged(v) == [scan EXCEPT !.verdict = v]
<1>2. ASSUME NEW v \in {"scanning", "Ok"} \cup Rejections, scan' = Judged(v),
             starts' \subseteq Nat, landings' = landings
      PROVE  ScanTyped'
  <2>1. scan' = [pc |-> scan.pc, has_terminal |-> scan.has_terminal, verdict |-> v]
    BY <1>1, <1>2
  <2> QED
    BY <1>1, <1>2, <2>1 DEF ScanTyped
<1>3. CASE CheckLength
  <2> DEFINE v == IF code = << >> THEN "Empty"
                  ELSE IF Len(code) > MAX_BYTECODE_LEN THEN "TooLong" ELSE "scanning"
  <2>1. scan' = Judged(v) /\ starts' = starts /\ landings' = landings
    BY <1>3 DEF CheckLength
  <2>2. v \in {"scanning", "Ok"} \cup Rejections
    BY DEF Rejections
  <2> HIDE DEF v
  <2> QED
    BY <1>2, <2>1, <2>2 DEF ScanTyped
<1>4. CASE ScanEnd
  <2>1. scan' = Judged(Verdict(scan.has_terminal)) /\ starts' = starts
        /\ landings' = landings
    BY <1>4 DEF ScanEnd
  <2>2. Verdict(scan.has_terminal) \in {"scanning", "Ok"} \cup Rejections
    BY DEF Rejections, Verdict
  <2> QED
    BY <1>2, <2>1, <2>2 DEF ScanTyped
<1>5. CASE ScanInstruction
  <2>1. starts' \subseteq Nat /\ landings' = landings /\ scan.verdict = "scanning"
    BY <1>1, <1>5 DEF ScanInstruction, ScanTyped
  <2>2. CASE Checked(scan.pc) # "scanning"
    <3>1. scan' = Judged(Checked(scan.pc))
      BY <1>5, <2>2 DEF ScanInstruction
    <3>2. Checked(scan.pc) \in {"scanning", "Ok"} \cup Rejections
      BY DEF Checked, Rejections
    <3> QED
      BY <1>2, <2>1, <3>1, <3>2
  <2>3. CASE Checked(scan.pc) = "scanning"
    <3> DEFINE seen == scan.has_terminal \/ code[scan.pc + 1] \in Terminals
               next == IF code[scan.pc + 1] \in Immediates THEN scan.pc + 2 ELSE scan.pc + 1
    <3>1. scan' = [scan EXCEPT !.has_terminal = seen, !.pc = next]
      BY <1>5, <2>3 DEF ScanInstruction
    <3>2. seen \in BOOLEAN /\ next \in Nat
      BY <1>1
    <3> HIDE DEF seen, next
    <3>3. scan' = [pc |-> next, has_terminal |-> seen, verdict |-> "scanning"]
      BY <1>1, <2>1, <3>1
    <3> QED
      BY <2>1, <3>2, <3>3 DEF ScanTyped
  <2> QED
    BY <2>2, <2>3
<1> QED
  BY <1>3, <1>4, <1>5

TypeParts ==
    code \in Programs /\ env \in Environments /\ ScanTyped /\ Registers

LEMMA TypePartsAre == TypeParts <=> TypeOK
BY DEF TypeParts, TypeOK, ScanTyped, Registers

LEMMA TypeStep == TypeOK /\ [Next]_vars => TypeOK'
<1> SUFFICES ASSUME TypeParts, [Next]_vars PROVE TypeParts'
  BY DEF TypeParts, TypeOK, ScanTyped, Registers
<1>1. CASE CheckLength \/ ScanInstruction \/ ScanEnd
  <2>1. UNCHANGED <<code, env, machine>>
    BY <1>1 DEF CheckLength, ScanInstruction, ScanEnd
  <2>2. ScanTyped'
    BY <1>1, ScanTypedStep DEF TypeParts
  <2> QED
    BY <2>1, <2>2 DEF TypeParts, Registers
<1>2. CASE ExecuteInstruction
  <2>1. /\ UNCHANGED <<code, env, scan, starts>> /\ machine.halt = "running"
        /\ machine' = Step(code, env, machine)
        /\ landings' \subseteq landings \cup {machine'.pc}
    BY <1>2 DEF ExecuteInstruction
  <2>2. code \in Seq(Byte) /\ env \in Observed
    BY ProgramsAssumption, EnvironmentsAssumption DEF TypeParts, Observed
  <2>3. Registers'
    BY <2>1, <2>2, StepRegisters DEF TypeParts
  <2>4. machine'.pc \in Nat
    BY <2>3 DEF Registers, Machine
  <2>5. ScanTyped'
    BY <2>1, <2>4 DEF TypeParts, ScanTyped
  <2> QED
    BY <2>1, <2>3, <2>5 DEF TypeParts
<1>3. CASE UNCHANGED vars
  BY <1>3 DEF vars, TypeParts, ScanTyped, Registers
<1> QED
  BY <1>1, <1>2, <1>3 DEF Next

LEMMA TypeInit == Init => TypeOK
<1> SUFFICES ASSUME Init PROVE TypeOK
  OBVIOUS
<1>1. ScanTyped
  BY DEF Init, ScanTyped
<1>2. Registers
  <2>1. << >> \in Seq(Byte) /\ Len(<< >>) = 0
    OBVIOUS
  <2> QED
    BY <2>1 DEF Init, Start, Registers, Machine, STACK_SIZE, MAX_FUEL
<1> QED
  BY <1>1, <1>2, TypePartsAre DEF Init, TypeParts

\* vm.rs: whatever bytes execute_bytecode is given, accepted by validate_bytecode
\* or not, every value on its stack stays a u8, the stack stays within its eight
\* slots and the fuel within MAX_FUEL.
THEOREM RegistersStayTyped == Spec => []TypeOK
  BY TypeInit, TypeStep, PTL DEF Spec

=============================================================================
