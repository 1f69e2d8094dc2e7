---- MODULE InstructionSet ----
(* What a program means: the RISC-V instructions LW, SW, BEQ, the register *)
(* operations and their immediate forms, one instruction a step. The       *)
(* specification that the processor of Multicycle is to implement.         *)
EXTENDS Instructions

CONSTANTS InitialPC, RamWords

VARIABLES rom, pc, regs, ram

vars == <<rom, pc, regs, ram>>

InProgram == \E k \in 1..Len(rom) : pc = InitialPC + 4 * (k - 1)
Current == rom[((pc - InitialPC) \div 4) + 1]

Cell(address) == (address \div 4) % RamWords

(* Register 0 is always zero. *)
SetRegister(r, value) == IF r = 0 THEN regs ELSE [regs EXCEPT ![r] = value]

Meaning(i, a, b) ==
    CASE i.funct3 = 0 -> IF i.opcode = OP /\ i.funct7 = 32 THEN Sub(a, b) ELSE Add(a, b)
      [] i.funct3 = 1 -> Sll(a, b)
      [] i.funct3 = 2 -> Less(a, b)
      [] i.funct3 = 4 -> Xor(a, b)
      [] i.funct3 = 5 -> IF i.funct7 = 32 THEN Sra(a, b) ELSE Srl(a, b)
      [] i.funct3 = 6 -> Or(a, b)
      [] i.funct3 = 7 -> And(a, b)

Continue == pc' = Wrap(pc + 4)

Compute ==
    LET i == Current
        b == IF i.opcode = OP THEN regs[i.rs2] ELSE ImmI(i)
    IN  /\ i.opcode \in {OP, OPIMM}
        /\ regs' = SetRegister(i.rd, Meaning(i, regs[i.rs1], b))
        /\ Continue
        /\ UNCHANGED <<rom, ram>>

Load ==
    LET i == Current
    IN  /\ i.opcode = LOAD
        /\ regs' = SetRegister(i.rd, ram[Cell(Add(regs[i.rs1], ImmI(i)))])
        /\ Continue
        /\ UNCHANGED <<rom, ram>>

Stored ==
    LET i == Current
    IN  [ram EXCEPT ![Cell(Add(regs[i.rs1], ImmS(i)))] = regs[i.rs2]]

Store ==
    /\ Current.opcode = STORE
    /\ ram' = Stored
    /\ Continue
    /\ UNCHANGED <<rom, regs>>

Branch ==
    LET i == Current
    IN  /\ i.opcode = BRANCH
        /\ IF regs[i.rs1] = regs[i.rs2] THEN pc' = Wrap(pc + ImmB(i)) ELSE Continue
        /\ UNCHANGED <<rom, regs, ram>>

(* A reset starts the program again. It leaves registers and memory alone, *)
(* but a store it meets may have been done.                                *)
Reset ==
    /\ pc' = InitialPC
    /\ \/ ram' = ram
       \/ InProgram /\ Current.opcode = STORE /\ ram' = Stored
    /\ UNCHANGED <<rom, regs>>

Next == \/ InProgram /\ (Compute \/ Load \/ Store \/ Branch)
        \/ Reset

Init == pc = InitialPC /\ regs = [r \in 0..31 |-> 0]

Spec == Init /\ [][Next]_vars
====
