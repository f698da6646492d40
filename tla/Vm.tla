-------------------------------- MODULE Vm ---------------------------------
(***************************************************************************)
(* A program in vm.rs: validate_bytecode scans it one instruction at a     *)
(* time, then execute_bytecode runs it.  reveal_strategy only stores what  *)
(* the validator accepts, but replay_match executes any program, so        *)
(* rejected ones run here too.                                             *)
(***************************************************************************)
EXTENDS Bytecode

CONSTANTS Programs,       \* programs: sequences of bytes
          Environments    \* what a program may observe

ASSUME ProgramsAssumption == Programs \subseteq Seq(Byte)
ASSUME EnvironmentsAssumption ==
    Environments \subseteq [opp : Seq(Moves), my : Seq(Moves), round : Byte,
                            draws : Seq(0..99) \ {<< >>}]

VARIABLES
    code, env,
    scan,       \* the validator: pc, has_terminal and its verdict
    machine,    \* the interpreter
    starts,     \* history: offsets the validator decoded an opcode at
    landings    \* history: targets of the jumps taken

vars == <<code, env, scan, machine, starts, landings>>

Rejections ==
    {"Empty", "TooLong", "UnknownOpcode", "TruncatedImmediate", "JumpOutOfBounds",
     "NoTerminal"}

Init ==
    /\ code \in Programs
    /\ env \in Environments
    /\ scan = [pc |-> 0, has_terminal |-> FALSE, verdict |-> "unchecked"]
    /\ machine = Start
    /\ starts = {}
    /\ landings = {}

CheckLength ==
    /\ scan.verdict = "unchecked"
    /\ scan' = [scan EXCEPT !.verdict = IF code = << >> THEN "Empty"
                                        ELSE IF Len(code) > MAX_BYTECODE_LEN THEN "TooLong"
                                        ELSE "scanning"]
    /\ UNCHANGED <<code, env, machine, starts, landings>>

Checked_NoImmediate(pc) ==
    LET o == code[pc + 1]
    IN  IF o \notin Known THEN "UnknownOpcode"
        ELSE IF o \in Jumps /\ pc + 1 < Len(code) /\ pc + 2 + code[pc + 2] > Len(code)
             THEN "JumpOutOfBounds"
        ELSE "scanning"

\* The checks on the instruction at pc: opcode, immediate, target of a jump.
Checked(pc) ==
    LET o == code[pc + 1]
    IN  IF o \notin Known THEN "UnknownOpcode"
        ELSE IF o \in Immediates /\ pc + 1 >= Len(code) THEN "TruncatedImmediate"
        ELSE IF o \in Jumps /\ pc + 2 + code[pc + 2] > Len(code) THEN "JumpOutOfBounds"
        ELSE "scanning"

ScanInstruction ==
    /\ scan.verdict = "scanning"
    /\ scan.pc < Len(code)
    /\ LET o == code[scan.pc + 1]
       IN  scan' =
             IF Checked(scan.pc) # "scanning"
             THEN [scan EXCEPT !.verdict = Checked(scan.pc)]
             ELSE [scan EXCEPT !.has_terminal = @ \/ o \in Terminals,
                               !.pc = IF o \in Immediates THEN @ + 2 ELSE @ + 1]
    /\ starts' = starts \cup {scan.pc}
    /\ UNCHANGED <<code, env, machine, landings>>

Verdict_Any(has_terminal) == "Ok"

Verdict(has_terminal) == IF has_terminal THEN "Ok" ELSE "NoTerminal"

ScanEnd ==
    /\ scan.verdict = "scanning"
    /\ scan.pc >= Len(code)
    /\ scan' = [scan EXCEPT !.verdict = Verdict(scan.has_terminal)]
    /\ UNCHANGED <<code, env, machine, starts, landings>>

ExecuteInstruction ==
    /\ scan.verdict \in Rejections \cup {"Ok"}
    /\ machine.halt = "running"
    /\ machine' = Step(code, env, machine)
    /\ landings' = IF machine'.halt = "running" /\ Taken(code, machine)
                   THEN landings \cup {machine'.pc} ELSE landings
    /\ UNCHANGED <<code, env, scan, starts>>

Next == CheckLength \/ ScanInstruction \/ ScanEnd \/ ExecuteInstruction

Spec == Init /\ [][Next]_vars

-----------------------------------------------------------------------------
Accepted == scan.verdict = "Ok"

\* Every taken jump landed on an instruction of the validator, or on the end.
Aligned == landings \subseteq starts \cup {Len(code)}

\* The interpreter's registers keep their types and the stack its eight slots,
\* on programs the validator rejects too: u8 arithmetic saturates, and every
\* push and pop is checked.
TypeOK ==
    /\ code \in Programs
    /\ env \in Environments
    /\ scan \in [pc : Nat, has_terminal : BOOLEAN,
                 verdict : {"unchecked", "scanning", "Ok"} \cup Rejections]
    /\ machine \in Machine
    /\ Len(machine.stack) <= STACK_SIZE
    /\ machine.fuel <= MAX_FUEL
    /\ starts \subseteq Nat
    /\ landings \subseteq Nat

\* An accepted program never runs out of fuel: jumps only go forward, so it
\* executes at most one instruction per byte.
FuelSuffices == Accepted => machine.halt # "OutOfFuel"

\* As long as an accepted program does not jump into an operand, it is executed
\* as it was validated: every instruction starts where the validator decoded
\* one, jumps stay within the program, and decoding never fails.
DecodedAsValidated ==
    Accepted /\ Aligned =>
        /\ machine.pc \in starts \cup {Len(code)}
        /\ machine.halt \notin {"UnknownOpcode", "Truncated"}

\* An accepted program that runs off its end has jumped: in a straight line it
\* meets the terminal instruction the validator has seen.
FallsOffByJumping == Accepted /\ machine.halt = "FellOff" => landings # {}

=============================================================================
