---- MODULE Multicycle ----
(* The multicycle processor of Low_Level_HW_1: the control unit and its    *)
(* state machine (multicycle.v), the datapath (datapath.v), the register   *)
(* file (regfile.v) and the ALU (alu.v), with the two memories its test    *)
(* bench connects. A step is a clock edge; all registers load at once what *)
(* the wires carry before it. The instruction memory, the data memory and  *)
(* the register file answer at the edge, one state later.                  *)
EXTENDS Instructions

CONSTANTS
    Programs,    \* the contents of the instruction memory, from InitialPC on
    InitialPC,
    RamWords,    \* size of the data memory
    PowerUp,     \* words that registers without a reset may hold at first
    MaxResets    \* bound: resets after the first

ASSUME ProcessorAssumption ==
    /\ \A p \in Programs : p \in Seq(Instructions) /\ p # <<>>
    /\ InitialPC \in Words /\ PowerUp \subseteq Words
    /\ RamWords \in Nat \ {0} /\ MaxResets \in Nat

VARIABLES
    state, pc, regs, readData1, readData2,
    rom, instr,        \* the instruction memory and its output
    ram, dReadData,    \* the data memory and its output
    resets             \* bound: resets so far

vars == <<state, pc, regs, readData1, readData2, rom, instr, ram, dReadData, resets>>

States == {"IF", "ID", "EX", "MEM", "WB"}

----------------------------------------------------------------------------
(* The wires *)

Immediate ==
    CASE instr.opcode = BRANCH -> Wrap(RawB(instr))
      [] instr.opcode \in {LOAD, OPIMM} -> ImmI(instr)
      [] instr.opcode = STORE -> Wrap(RawS(instr))
      [] OTHER -> 0

(* Register and immediate operations differ in what funct7 is needed for. *)
ALUCtrl ==
    LET f3 == instr.funct3
        plain == instr.funct7 = 0
        alternate == instr.funct7 = 32
        isOp == instr.opcode = OP
        Arithmetic ==
            CASE f3 = 0 /\ (isOp => plain) -> "ADD"
              [] f3 = 0 /\ isOp /\ alternate -> "SUB"
              [] f3 = 1 /\ (isOp => plain) -> "SLL"
              [] f3 = 2 /\ (isOp => plain) -> "LT"
              [] f3 = 4 /\ (isOp => plain) -> "XOR"
              [] f3 = 5 /\ plain -> "SRL"
              [] f3 = 5 /\ alternate -> "SRA"
              [] f3 = 6 /\ (isOp => plain) -> "OR"
              [] OTHER -> "AND"
    IN  CASE instr.opcode \in {LOAD, STORE} -> "ADD"
          [] instr.opcode = BRANCH -> "SUB"
          [] instr.opcode \in {OP, OPIMM} -> Arithmetic
          [] OTHER -> "AND"

ALUSrc == instr.opcode \in {LOAD, STORE, OPIMM}

op1 == readData1
op2 == IF ALUSrc THEN Immediate ELSE readData2

alu_result ==
    CASE ALUCtrl = "AND" -> And(op1, op2)
      [] ALUCtrl = "OR"  -> Or(op1, op2)
      [] ALUCtrl = "XOR" -> Xor(op1, op2)
      [] ALUCtrl = "ADD" -> Add(op1, op2)
      [] ALUCtrl = "SUB" -> Sub(op1, op2)
      [] ALUCtrl = "LT"  -> Less(op1, op2)
      [] ALUCtrl = "SRL" -> Srl(op1, op2)
      [] ALUCtrl = "SLL" -> Sll(op1, op2)
      [] ALUCtrl = "SRA" -> Sra(op1, op2)

Zero == alu_result = 0

dAddress == alu_result
dWriteData == readData2

(* Faulty variant: the memory is written as soon as the address is there. *)
MemWriteEarly == state \in {"EX", "MEM"} /\ instr.opcode = STORE

MemWrite == state = "MEM" /\ instr.opcode = STORE
MemtoReg == instr.opcode = LOAD

RegWrite == state = "WB" /\ instr.opcode \in {LOAD, OPIMM, OP}

(* Faulty variant: the PC is loaded one state too early. *)
loadPCEarly == state = "MEM"

loadPC == state = "WB"
PCSrc == instr.opcode = BRANCH /\ Zero

writeData == IF MemtoReg THEN dReadData ELSE alu_result

(* What the next edge loads into the PC and the registers. *)
NextPC == IF loadPC THEN Wrap(pc + (IF PCSrc THEN Immediate ELSE 4)) ELSE pc
NextRegs == IF RegWrite THEN [regs EXCEPT ![instr.rd] = writeData] ELSE regs

NextState ==
    CASE state = "IF" -> "ID"
      [] state = "ID" -> "EX"
      [] state = "EX" -> "MEM"
      [] state = "MEM" -> "WB"
      [] state = "WB" -> "IF"

----------------------------------------------------------------------------
(* The clock edge *)

InRom(p) == \E k \in 1..Len(rom) : p = InitialPC + 4 * (k - 1)
RomWord(p) == rom[((p - InitialPC) \div 4) + 1]
Cell(address) == (address \div 4) % RamWords

Memories ==
    /\ instr' \in IF InRom(pc) THEN {RomWord(pc)} ELSE {rom[k] : k \in DOMAIN rom}
    /\ ram' = IF MemWrite THEN [ram EXCEPT ![Cell(dAddress)] = dWriteData] ELSE ram
    /\ dReadData' = ram[Cell(dAddress)]
    /\ UNCHANGED rom

RegisterFile ==
    /\ regs' = NextRegs
    /\ readData1' = regs[instr.rs1]
    /\ readData2' = regs[instr.rs2]

(* After the edge of the first reset: the PC and the state are set, the    *)
(* registers are zero by their initial block, the rest is undefined.       *)
Init ==
    /\ state = "IF" /\ pc = InitialPC
    /\ regs = [r \in 0..31 |-> 0]
    /\ rom \in Programs
    /\ instr \in {rom[k] : k \in DOMAIN rom}
    /\ \E x \in PowerUp :
          /\ readData1 = x /\ readData2 = x /\ dReadData = x
          /\ ram = [a \in 0..RamWords-1 |-> x]
    /\ resets = 0

(* The bench stops the clock some time after the program's end. *)
Running == InRom(pc)

Tick ==
    /\ Running
    /\ state' = NextState
    /\ pc' = NextPC
    /\ RegisterFile
    /\ Memories
    /\ UNCHANGED resets

(* The reset is synchronous, and only the PC and the state have one. *)
Reset ==
    /\ resets < MaxResets
    /\ state' = "IF"
    /\ pc' = InitialPC
    /\ RegisterFile
    /\ Memories
    /\ resets' = resets + 1

Next == Tick \/ Reset

Spec == Init /\ [][Next]_vars /\ WF_vars(Tick)

----------------------------------------------------------------------------
(* Properties *)

TypeOK ==
    /\ state \in States /\ pc \in Words
    /\ regs \in [0..31 -> Words]
    /\ readData1 \in Words /\ readData2 \in Words
    /\ rom \in Programs /\ instr \in Instructions
    /\ ram \in [0..RamWords-1 -> Words] /\ dReadData \in Words
    /\ resets \in 0..MaxResets

(* From decode to write-back the instruction is that of the PC. *)
FetchInv == state # "IF" => InRom(pc) /\ instr = RomWord(pc)

(* From execution to write-back the operands are what the registers hold. *)
ReadInv ==
    state \in {"EX", "MEM", "WB"} =>
        readData1 = regs[instr.rs1] /\ readData2 = regs[instr.rs2]

(* In write-back a load has the word at its address. *)
LoadInv == state = "WB" /\ instr.opcode = LOAD => dReadData = ram[Cell(dAddress)]

IInv == TypeOK /\ FetchInv /\ ReadInv /\ LoadInv

(* The registers and the PC as the instructions see them: from the end of  *)
(* the memory state on, an instruction is done.                            *)
ISA == INSTANCE InstructionSet WITH pc <- NextPC, regs <- NextRegs

SupportedPrograms == \A p \in Programs : \A k \in DOMAIN p : Supported(p[k])

(* The processor executes the instructions of its program as RISC-V        *)
(* defines them, one after the other and each one once, and a reset never  *)
(* leaves half an instruction behind.                                      *)
ImplementsInstructionSet == ISA!Spec
====
