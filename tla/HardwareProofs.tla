--------------------------- MODULE HardwareProofs ---------------------------
(* The two designs of the hardware laboratories.  The processor implements *)
(* the instructions it supports: the inductive invariant, and the step     *)
(* from it to the refinement.  The multiplier has wires that are wide      *)
(* enough, rounds correctly and says so, whatever the widths of exponent   *)
(* and fraction.                                                           *)
EXTENDS Multicycle, FloatMultiplier, FiniteSetTheorems, WellFoundedInduction, TLAPS

----------------------------------------------------------------------------
(* Arithmetic of words *)

LEMMA ModulusType == Modulus \in Nat \ {0} /\ 0 \in Words
BY WidthAssumption DEF Modulus, Words

LEMMA WrapType == ASSUME NEW x \in Int PROVE Wrap(x) \in Words
BY ModulusType DEF Wrap, Words

LEMMA PowerType == ASSUME NEW n \in 0..Width PROVE 2^n \in Nat \ {0}
BY WidthAssumption

(* Value counts some of the numbers from 1 to Modulus-1. *)
LEMMA ValueType == ASSUME NEW B PROVE Value(B) \in Words
<1> DEFINE R == 1..Modulus-1
           T == (UNION {2^k .. 2^(k+1)-1 : k \in B}) \cap R
<1>1. Modulus \in Nat \ {0}
  BY ModulusType
<1>2. IsFiniteSet(R) /\ Cardinality(R) = Modulus - 1
  BY <1>1, FS_Interval
<1>3. T \subseteq R
  OBVIOUS
<1>4. IsFiniteSet(T) /\ Cardinality(T) <= Modulus - 1
  BY <1>2, <1>3, FS_Subset
<1>5. Cardinality(T) \in Nat
  BY <1>4, FS_CardinalityType
<1> QED
  BY <1>1, <1>4, <1>5 DEF Value, Words

LEMMA ModZero ==
    ASSUME NEW m \in Nat \ {0}, NEW x \in Int, -m < x, x < m, x % m = 0
    PROVE  x = 0
OBVIOUS

(* What a branch relies on: the difference of two words is zero exactly    *)
(* when they are equal.                                                    *)
LEMMA DifferenceIsZero ==
    ASSUME NEW u \in Words, NEW v \in Words
    PROVE  Sub(u, v) = 0 <=> u = v
<1>1. Modulus \in Nat \ {0}
  BY ModulusType
<1>2. u \in Int /\ v \in Int /\ -Modulus < u - v /\ u - v < Modulus
  BY <1>1 DEF Words
<1>3. ASSUME Sub(u, v) = 0 PROVE u = v
  <2>1. u - v = 0
    BY <1>1, <1>2, <1>3, ModZero DEF Sub, Wrap
  <2> QED
    BY <2>1, <1>2
<1>4. ASSUME u = v PROVE Sub(u, v) = 0
  BY <1>1, <1>2, <1>4 DEF Sub, Wrap
<1> QED
  BY <1>3, <1>4

LEMMA SignedType == ASSUME NEW u \in Words PROVE Signed(u) \in Int
BY ModulusType DEF Words, Signed

(* Every operation of the ALU yields a word. *)
LEMMA OperationTypes ==
    ASSUME NEW u \in Words, NEW v \in Words
    PROVE  /\ Add(u, v) \in Words /\ Sub(u, v) \in Words
           /\ And(u, v) \in Words /\ Or(u, v) \in Words /\ Xor(u, v) \in Words
           /\ Less(u, v) \in Words
           /\ Sll(u, v) \in Words /\ Srl(u, v) \in Words /\ Sra(u, v) \in Words
<1>1. u \in Int /\ v \in Nat /\ Modulus \in Nat \ {0} /\ 0 \in Words
  BY ModulusType DEF Words
<1>2. Add(u, v) \in Words /\ Sub(u, v) \in Words
  BY <1>1, WrapType DEF Add, Sub
<1>3. And(u, v) \in Words /\ Or(u, v) \in Words /\ Xor(u, v) \in Words
  BY ValueType DEF And, Or, Xor
<1>4. Less(u, v) \in Words
  <2>1. Modulus > 1
    <3>1. 2^Width \in Nat /\ 2^Width > Width /\ Width \in Nat \ {0}
      BY WidthAssumption
    <3> QED
      BY <3>1 DEF Modulus
  <2> QED
    BY <2>1, <1>1 DEF Less, Words
<1>5. Sll(u, v) \in Words /\ Srl(u, v) \in Words /\ Sra(u, v) \in Words
  <2> DEFINE s == Places(v)
  <2>1. s \in Nat
    BY <1>1 DEF Places
  <2>2. CASE s >= Width
    BY <2>1, <2>2, <1>1 DEF Sll, Srl, Sra, Words
  <2>3. CASE s < Width
    <3>1. s \in 0..Width /\ Width - s \in 0..Width /\ ~(s >= Width)
      BY <2>1, <2>3, WidthAssumption
    <3>2. 2^s \in Nat \ {0} /\ 2^(Width - s) \in Nat \ {0}
      BY <3>1, PowerType
    <3> HIDE DEF s
    <3>3. (u % 2^(Width - s)) * 2^s \in Int
      BY <3>2, <1>1
    <3>4. u \div 2^s \in Int /\ Signed(u) \div 2^s \in Int
      BY <3>2, <1>1, SignedType
    <3>5. /\ Wrap((u % 2^(Width - s)) * 2^s) \in Words
          /\ Wrap(u \div 2^s) \in Words
          /\ Wrap(Signed(u) \div 2^s) \in Words
      BY <3>3, <3>4, WrapType
    <3> QED
      BY <3>1, <3>5 DEF Sll, Srl, Sra, s
  <2> QED
    BY <2>1, <2>2, <2>3, WidthAssumption
<1> QED
  BY <1>2, <1>3, <1>4, <1>5

----------------------------------------------------------------------------
(* Types of the wires *)

LEMMA RomTypes ==
    ASSUME rom \in Programs
    PROVE  /\ rom \in Seq(Instructions) /\ rom # <<>> /\ DOMAIN rom = 1..Len(rom)
           /\ \A k \in DOMAIN rom : rom[k] \in Instructions
BY ProcessorAssumption

LEMMA FetchedWord ==
    ASSUME rom \in Programs, InRom(pc)
    PROVE  \E k \in 1..Len(rom) : RomWord(pc) = rom[k]
<1>1. InitialPC \in Int /\ Len(rom) \in Nat
  BY ProcessorAssumption, RomTypes, ModulusType DEF Words
<1>2. PICK k \in 1..Len(rom) : pc = InitialPC + 4 * (k - 1)
  BY DEF InRom
<1>3. ((pc - InitialPC) \div 4) + 1 = k
  BY <1>1, <1>2
<1> QED
  BY <1>3 DEF RomWord

LEMMA ImmediateTypes ==
    ASSUME NEW i \in Instructions
    PROVE  /\ ImmI(i) \in Words /\ ImmS(i) \in Words /\ ImmB(i) \in Words
           /\ Wrap(RawS(i)) \in Words /\ Wrap(RawB(i)) \in Words
<1>1. RawI(i) \in Int /\ RawS(i) \in Int /\ RawB(i) \in Int
  <2>1. i.funct7 \in Int /\ i.rd \in Int /\ i.rs2 \in Int
    BY DEF Instructions
  <2> QED
    BY <2>1 DEF RawI, RawS, RawB
<1> QED
  BY <1>1, WrapType DEF ImmI, ImmS, ImmB, SignExtend

LEMMA CellType == ASSUME NEW x \in Words PROVE Cell(x) \in 0..RamWords-1
BY ProcessorAssumption, ModulusType DEF Words, Cell

LEMMA WireTypes ==
    ASSUME TypeOK
    PROVE  /\ op1 \in Words /\ op2 \in Words /\ alu_result \in Words
           /\ dAddress \in Words /\ dWriteData \in Words /\ writeData \in Words
           /\ NextPC \in Words /\ NextRegs \in [0..31 -> Words]
<1>1. /\ instr \in Instructions /\ readData1 \in Words /\ readData2 \in Words
      /\ dReadData \in Words /\ pc \in Words /\ regs \in [0..31 -> Words]
  BY DEF TypeOK
<1>2. Immediate \in Words
  BY <1>1, ImmediateTypes, ModulusType DEF Immediate
<1>3. op1 \in Words /\ op2 \in Words
  BY <1>1, <1>2 DEF op1, op2
<1>4. ALUCtrl \in {"AND", "OR", "XOR", "ADD", "SUB", "LT", "SRL", "SLL", "SRA"}
  <2>1. CASE instr.opcode \in {LOAD, STORE, BRANCH}
    BY <2>1 DEF ALUCtrl
  <2>2. CASE instr.opcode \notin {LOAD, STORE, BRANCH, OP, OPIMM}
    BY <2>2 DEF ALUCtrl
  <2>3. CASE instr.opcode \in {OP, OPIMM}
    BY <2>3 DEF ALUCtrl, LOAD, STORE, BRANCH, OP, OPIMM
  <2> QED
    BY <2>1, <2>2, <2>3
<1>5. alu_result \in Words
  BY <1>3, <1>4, OperationTypes DEF alu_result
<1>6. writeData \in Words
  BY <1>1, <1>5 DEF writeData
<1>7. NextPC \in Words
  <2>1. pc \in Int /\ Immediate \in Int
    BY <1>1, <1>2, ModulusType DEF Words
  <2>2. Wrap(pc + (IF PCSrc THEN Immediate ELSE 4)) \in Words
    BY <2>1, WrapType
  <2> QED
    BY <1>1, <2>2 DEF NextPC
<1>8. NextRegs \in [0..31 -> Words]
  BY <1>1, <1>6 DEF NextRegs
<1> QED
  BY <1>1, <1>3, <1>5, <1>6, <1>7, <1>8 DEF dAddress, dWriteData

----------------------------------------------------------------------------
(* The inductive invariant *)

LEMMA InitInvariant == Init => IInv
<1> SUFFICES ASSUME Init PROVE IInv
  OBVIOUS
<1>1. rom \in Programs /\ instr \in Instructions
  BY RomTypes DEF Init
<1>2. /\ readData1 \in Words /\ readData2 \in Words /\ dReadData \in Words
      /\ ram \in [0..RamWords-1 -> Words]
  BY ProcessorAssumption DEF Init
<1>3. regs \in [0..31 -> Words] /\ pc \in Words
  BY ProcessorAssumption, ModulusType DEF Init
<1>4. state = "IF" /\ state \in States /\ resets \in 0..MaxResets
  BY ProcessorAssumption DEF Init, States
<1> QED
  BY <1>1, <1>2, <1>3, <1>4 DEF IInv, TypeOK, FetchInv, ReadInv, LoadInv

(* The memories and the register file keep their types at every edge. *)
LEMMA EdgeTypes ==
    ASSUME TypeOK, Memories, RegisterFile
    PROVE  /\ rom' \in Programs /\ instr' \in Instructions
           /\ ram' \in [0..RamWords-1 -> Words] /\ dReadData' \in Words
           /\ regs' \in [0..31 -> Words] /\ readData1' \in Words /\ readData2' \in Words
<1>1. /\ rom \in Programs /\ instr \in Instructions
      /\ ram \in [0..RamWords-1 -> Words] /\ regs \in [0..31 -> Words]
  BY DEF TypeOK
<1>2. rom' \in Programs /\ rom' = rom
  BY <1>1 DEF Memories
<1>3. instr' \in Instructions
  <2>1. \A k \in 1..Len(rom) : rom[k] \in Instructions
    BY <1>1, RomTypes
  <2>2. CASE InRom(pc)
    BY <1>1, <2>1, <2>2, FetchedWord DEF Memories
  <2>3. CASE ~InRom(pc)
    BY <1>1, <2>1, <2>3, RomTypes DEF Memories
  <2> QED
    BY <2>2, <2>3
<1>4. Cell(dAddress) \in 0..RamWords-1 /\ dWriteData \in Words
  BY WireTypes, CellType
<1>5. ram' \in [0..RamWords-1 -> Words] /\ dReadData' \in Words
  BY <1>1, <1>4 DEF Memories
<1>6. regs' \in [0..31 -> Words]
  BY WireTypes DEF RegisterFile
<1>7. readData1' \in Words /\ readData2' \in Words
  BY <1>1 DEF RegisterFile, Instructions
<1> QED
  BY <1>2, <1>3, <1>5, <1>6, <1>7

LEMMA StepType == TypeOK /\ [Next]_vars => TypeOK'
<1> SUFFICES ASSUME TypeOK, [Next]_vars PROVE TypeOK'
  OBVIOUS
<1>1. CASE Tick
  <2>1. state' \in States
    BY <1>1 DEF Tick, NextState, States, TypeOK
  <2>2. pc' \in Words /\ resets' \in 0..MaxResets
    BY <1>1, WireTypes DEF Tick, TypeOK
  <2> QED
    BY <1>1, <2>1, <2>2, EdgeTypes DEF Tick, TypeOK
<1>2. CASE Reset
  <2>1. state' \in States /\ pc' \in Words
    BY <1>2, ProcessorAssumption DEF Reset, States
  <2>2. resets' \in 0..MaxResets
    BY <1>2, ProcessorAssumption DEF Reset, TypeOK
  <2> QED
    BY <1>2, <2>1, <2>2, EdgeTypes DEF Reset, TypeOK
<1>3. CASE UNCHANGED vars
  BY <1>3 DEF vars, TypeOK
<1> QED
  BY <1>1, <1>2, <1>3 DEF Next

(* The result of the ALU depends on the instruction and its operands only. *)
LEMMA AddressFollows ==
    ASSUME instr' = instr, readData1' = readData1, readData2' = readData2
    PROVE  alu_result' = alu_result /\ dAddress' = dAddress
<1>1. ALUCtrl' = ALUCtrl
  BY DEF ALUCtrl
<1>2. op1' = op1 /\ op2' = op2
  BY DEF op1, op2, ALUSrc, Immediate
<1> QED
  BY <1>1, <1>2 DEF alu_result, dAddress

(* Before write-back nothing changes what the instruction works with: the  *)
(* PC and the registers are loaded in write-back only, the memory is       *)
(* written in its own state only.                                          *)
LEMMA StepInvariant == IInv /\ [Next]_vars => IInv'
<1> SUFFICES ASSUME IInv, [Next]_vars PROVE IInv'
  OBVIOUS
<1>1. TypeOK /\ TypeOK'
  BY StepType DEF IInv
<1>2. state \in States
  BY <1>1 DEF TypeOK
<1>3. CASE Tick
  <2>1. /\ state' = NextState /\ pc' = NextPC /\ regs' = NextRegs /\ rom' = rom
        /\ readData1' = regs[instr.rs1] /\ readData2' = regs[instr.rs2]
        /\ InRom(pc) /\ instr' = RomWord(pc)
        /\ dReadData' = ram[Cell(dAddress)]
        /\ ram' = IF MemWrite THEN [ram EXCEPT ![Cell(dAddress)] = dWriteData] ELSE ram
    BY <1>3 DEF Tick, Running, Memories, RegisterFile
  <2>2. state # "WB" => pc' = pc /\ regs' = regs
    BY <2>1 DEF NextPC, NextRegs, loadPC, RegWrite
  <2>3. state # "IF" => instr' = instr
    BY <2>1 DEF IInv, FetchInv
  <2>4. FetchInv'
    <3>1. state' # "IF" => state # "WB"
      BY <1>2, <2>1 DEF NextState, States
    <3> QED
      BY <2>1, <2>2, <3>1 DEF FetchInv, InRom, RomWord
  <2>5. ReadInv'
    <3>1. state' \in {"EX", "MEM", "WB"} => state \in {"ID", "EX", "MEM"}
      BY <1>2, <2>1 DEF NextState, States
    <3> QED
      BY <2>1, <2>2, <2>3, <3>1 DEF ReadInv
  <2>6. LoadInv'
    <3> SUFFICES ASSUME state' = "WB", instr'.opcode = LOAD
                 PROVE  dReadData' = ram'[Cell(dAddress)']
      BY DEF LoadInv
    <3>1. state = "MEM" /\ instr' = instr
      BY <1>2, <2>1, <2>3 DEF NextState, States
    <3>2. ram' = ram
      BY <2>1, <3>1 DEF MemWrite, LOAD, STORE
    <3>3. readData1' = readData1 /\ readData2' = readData2
      BY <2>1, <3>1 DEF IInv, ReadInv
    <3>4. dAddress' = dAddress
      BY <3>1, <3>3, AddressFollows
    <3>5. dReadData' = ram[Cell(dAddress)]
      BY <2>1
    <3>6. Cell(dAddress)' = Cell(dAddress)
      BY <3>4 DEF Cell
    <3> QED
      BY <3>2, <3>5, <3>6
  <2> QED
    BY <1>1, <2>4, <2>5, <2>6 DEF IInv
<1>4. CASE Reset
  BY <1>1, <1>4 DEF Reset, IInv, FetchInv, ReadInv, LoadInv
<1>5. CASE UNCHANGED vars
  <2>1. FetchInv' /\ ReadInv'
    BY <1>5 DEF vars, IInv, FetchInv, ReadInv, InRom, RomWord
  <2>2. dAddress' = dAddress
    BY <1>5, AddressFollows DEF vars
  <2>3. LoadInv'
    BY <1>5, <2>2 DEF vars, IInv, LoadInv, Cell
  <2> QED
    BY <1>1, <2>1, <2>3 DEF IInv
<1> QED
  BY <1>3, <1>4, <1>5 DEF Next

(* In every reachable state the instruction, the operands and the loaded   *)
(* word are those of the PC, the registers and the memory (IInv): nothing  *)
(* the instruction uses changes under it.                                  *)
THEOREM InvariantHolds == Spec => []IInv
BY InitInvariant, StepInvariant, PTL DEF Spec

----------------------------------------------------------------------------
(* The refinement *)

(* The instruction set computes with the same arithmetic, as an instance. *)
LEMMA SameArithmetic ==
    ASSUME NEW u, NEW v
    PROVE  /\ ISA!Wrap(u) = Wrap(u)
           /\ ISA!Add(u, v) = Add(u, v) /\ ISA!Sub(u, v) = Sub(u, v)
           /\ ISA!And(u, v) = And(u, v) /\ ISA!Or(u, v) = Or(u, v)
           /\ ISA!Xor(u, v) = Xor(u, v) /\ ISA!Less(u, v) = Less(u, v)
           /\ ISA!Sll(u, v) = Sll(u, v) /\ ISA!Srl(u, v) = Srl(u, v)
           /\ ISA!Sra(u, v) = Sra(u, v)
<1>1. ISA!Modulus = Modulus
  BY DEF ISA!Modulus, Modulus
<1>2. \A x : ISA!Wrap(x) = Wrap(x)
  BY <1>1 DEF ISA!Wrap, Wrap
<1>3. \A x : ISA!Signed(x) = Signed(x)
  BY <1>1 DEF ISA!Signed, Signed
<1>4. \A x : ISA!Bits(x) = Bits(x)
  BY DEF ISA!Bits, Bits
<1>5. \A B : ISA!Value(B) = Value(B)
  BY Zenon DEF ISA!Value, Value, ISA!Modulus, Modulus, ISA!Cardinality, Cardinality
<1>6. ISA!Places(v) = Places(v)
  BY DEF ISA!Places, Places
<1>7. ISA!Add(u, v) = Add(u, v) /\ ISA!Sub(u, v) = Sub(u, v)
  BY <1>2 DEF ISA!Add, Add, ISA!Sub, Sub
<1>8. ISA!And(u, v) = And(u, v) /\ ISA!Or(u, v) = Or(u, v) /\ ISA!Xor(u, v) = Xor(u, v)
  BY <1>4, <1>5, Zenon DEF ISA!And, And, ISA!Or, Or, ISA!Xor, Xor
<1>9. ISA!Less(u, v) = Less(u, v)
  BY <1>3 DEF ISA!Less, Less
<1>10. ISA!Sll(u, v) = Sll(u, v) /\ ISA!Srl(u, v) = Srl(u, v) /\ ISA!Sra(u, v) = Sra(u, v)
  BY <1>1, <1>2, <1>3, <1>6 DEF ISA!Sll, Sll, ISA!Srl, Srl, ISA!Sra, Sra
<1> QED
  BY <1>2, <1>7, <1>8, <1>9, <1>10

LEMMA SameFormats ==
    ASSUME NEW i
    PROVE  /\ ISA!ImmI(i) = ImmI(i) /\ ISA!ImmS(i) = ImmS(i) /\ ISA!ImmB(i) = ImmB(i)
           /\ ISA!OP = OP /\ ISA!OPIMM = OPIMM /\ ISA!LOAD = LOAD
           /\ ISA!STORE = STORE /\ ISA!BRANCH = BRANCH
<1>1. /\ ISA!OP = OP /\ ISA!OPIMM = OPIMM /\ ISA!LOAD = LOAD
      /\ ISA!STORE = STORE /\ ISA!BRANCH = BRANCH
  BY DEF ISA!OP, OP, ISA!OPIMM, OPIMM, ISA!LOAD, LOAD, ISA!STORE, STORE, ISA!BRANCH, BRANCH
<1>2. ISA!RawI(i) = RawI(i) /\ ISA!RawS(i) = RawS(i) /\ ISA!RawB(i) = RawB(i)
  BY DEF ISA!RawI, RawI, ISA!RawS, RawS, ISA!RawB, RawB
<1>3. \A x, h : ISA!SignExtend(x, h) = SignExtend(x, h)
  BY SameArithmetic DEF ISA!SignExtend, SignExtend
<1> QED
  BY <1>1, <1>2, <1>3 DEF ISA!ImmI, ImmI, ISA!ImmS, ImmS, ISA!ImmB, ImmB

(* For every supported instruction the ALU and the immediate are what the  *)
(* instruction means.                                                      *)
LEMMA DecodeIsRight ==
    ASSUME TypeOK, Supported(instr)
    PROVE  /\ instr.opcode \in {OP, OPIMM, LOAD, STORE, BRANCH}
           /\ instr.opcode = OP => alu_result = ISA!Meaning(instr, readData1, readData2)
           /\ instr.opcode = OPIMM =>
                 alu_result = ISA!Meaning(instr, readData1, ImmI(instr))
           /\ instr.opcode = LOAD => alu_result = Add(readData1, ImmI(instr))
           /\ instr.opcode = STORE => alu_result = Add(readData1, ImmS(instr))
           /\ instr.opcode = BRANCH =>
                 alu_result = Sub(readData1, readData2) /\ Immediate = ImmB(instr)
<1> USE DEF OP, OPIMM, LOAD, STORE, BRANCH
<1>1. instr.opcode \in {OP, OPIMM, LOAD, STORE, BRANCH}
  BY DEF Supported
<1>2. /\ instr.funct3 \in 0..7 /\ instr.funct7 \in 0..127
      /\ instr.rd \in 0..31 /\ instr.rs2 \in 0..31
  BY DEF TypeOK, Instructions
<1>3. ASSUME instr.opcode = OP PROVE alu_result = ISA!Meaning(instr, readData1, readData2)
  <2>1. op1 = readData1 /\ op2 = readData2
    BY <1>3 DEF op1, op2, ALUSrc
  <2>2. /\ instr.funct3 \in {0, 1, 2, 4, 5, 6, 7}
        /\ instr.funct7 = 0 \/ (instr.funct7 = 32 /\ instr.funct3 \in {0, 5})
    BY <1>2, <1>3 DEF Supported
  <2>3. ALUCtrl = CASE instr.funct3 = 0 -> IF instr.funct7 = 32 THEN "SUB" ELSE "ADD"
                    [] instr.funct3 = 1 -> "SLL"
                    [] instr.funct3 = 2 -> "LT"
                    [] instr.funct3 = 4 -> "XOR"
                    [] instr.funct3 = 5 -> IF instr.funct7 = 32 THEN "SRA" ELSE "SRL"
                    [] instr.funct3 = 6 -> "OR"
                    [] instr.funct3 = 7 -> "AND"
    BY <1>3, <2>2 DEF ALUCtrl
  <2> QED
    BY <1>3, <2>1, <2>2, <2>3, SameArithmetic, SameFormats DEF alu_result, ISA!Meaning
<1>4. ASSUME instr.opcode = OPIMM
      PROVE  alu_result = ISA!Meaning(instr, readData1, ImmI(instr))
  <2>1. op1 = readData1 /\ op2 = ImmI(instr)
    BY <1>4 DEF op1, op2, ALUSrc, Immediate
  <2>2. /\ instr.funct3 \in {0, 1, 2, 4, 5, 6, 7}
        /\ instr.funct3 = 1 => instr.funct7 = 0
        /\ instr.funct3 = 5 => instr.funct7 \in {0, 32}
    BY <1>2, <1>4 DEF Supported
  <2>3. ALUCtrl = CASE instr.funct3 = 0 -> "ADD"
                    [] instr.funct3 = 1 -> "SLL"
                    [] instr.funct3 = 2 -> "LT"
                    [] instr.funct3 = 4 -> "XOR"
                    [] instr.funct3 = 5 -> IF instr.funct7 = 32 THEN "SRA" ELSE "SRL"
                    [] instr.funct3 = 6 -> "OR"
                    [] instr.funct3 = 7 -> "AND"
    BY <1>4, <2>2 DEF ALUCtrl
  <2> QED
    BY <1>4, <2>1, <2>2, <2>3, SameArithmetic, SameFormats DEF alu_result, ISA!Meaning
<1>5. ASSUME instr.opcode = LOAD PROVE alu_result = Add(readData1, ImmI(instr))
  BY <1>5 DEF alu_result, ALUCtrl, op1, op2, ALUSrc, Immediate
<1>6. ASSUME instr.opcode = STORE PROVE alu_result = Add(readData1, ImmS(instr))
  <2>1. RawS(instr) < 2048
    BY <1>2, <1>6 DEF Supported, RawS
  <2>2. Immediate = ImmS(instr)
    BY <1>6, <2>1 DEF Immediate, ImmS, SignExtend
  <2> QED
    BY <1>6, <2>2 DEF alu_result, ALUCtrl, op1, op2, ALUSrc
<1>7. ASSUME instr.opcode = BRANCH
      PROVE  alu_result = Sub(readData1, readData2) /\ Immediate = ImmB(instr)
  <2>1. RawB(instr) < 4096
    <3>1. instr.funct7 < 64
      BY <1>7 DEF Supported
    <3>2. instr.funct7 \div 64 = 0 /\ instr.funct7 % 64 <= 63
      BY <1>2, <3>1
    <3>3. instr.rd % 2 \in 0..1 /\ instr.rd \div 2 \in 0..15
      BY <1>2
    <3>4. instr.funct7 % 64 \in 0..63
      BY <1>2
    <3> QED
      BY <3>2, <3>3, <3>4 DEF RawB
  <2> QED
    BY <1>7, <2>1 DEF alu_result, ALUCtrl, op1, op2, ALUSrc, Immediate, ImmB, SignExtend
<1> QED
  BY <1>1, <1>3, <1>4, <1>5, <1>6, <1>7

(* Outside write-back the mapped PC and registers are the processor's own. *)
LEMMA MappedState ==
    /\ state # "WB" => NextPC = pc /\ NextRegs = regs
    /\ InRom(pc) /\ state # "WB" => ISA!InProgram /\ ISA!Current = RomWord(pc)
BY DEF NextPC, NextRegs, loadPC, RegWrite, InRom, RomWord, ISA!InProgram, ISA!Current

(* A reset or the end of the memory state meets a store as the instruction *)
(* set does it.                                                            *)
LEMMA StoreIsRight ==
    ASSUME IInv, state = "MEM", Supported(instr), Memories
    PROVE  /\ instr.opcode # STORE => ram' = ram
           /\ instr.opcode = STORE => ram' = ISA!Stored
<1>1. /\ ISA!Current = instr /\ NextRegs = regs
      /\ readData1 = regs[instr.rs1] /\ readData2 = regs[instr.rs2]
  BY MappedState DEF IInv, FetchInv, ReadInv
<1>2. ASSUME instr.opcode = STORE PROVE ram' = ISA!Stored
  <2>1. dAddress = Add(regs[instr.rs1], ImmS(instr))
    BY <1>1, <1>2, DecodeIsRight DEF IInv, dAddress
  <2>2. ram' = [ram EXCEPT ![Cell(dAddress)] = regs[instr.rs2]]
    BY <1>1, <1>2 DEF Memories, MemWrite, dWriteData
  <2> QED
    BY <1>1, <2>1, <2>2, SameArithmetic, SameFormats DEF ISA!Stored, ISA!Cell, Cell
<1> QED
  BY <1>2 DEF Memories, MemWrite

LEMMA InitRefines == Init => ISA!Init
<1> SUFFICES ASSUME Init PROVE ISA!Init
  OBVIOUS
<1>1. NextPC = InitialPC /\ NextRegs = [r \in 0..31 |-> 0]
  BY MappedState DEF Init
<1> QED
  BY <1>1 DEF ISA!Init

(* The instruction in the register is supported. *)
LEMMA InstructionIsSupported ==
    ASSUME SupportedPrograms, IInv, state # "IF"
    PROVE  Supported(instr) /\ instr \in Instructions
<1>1. rom \in Programs /\ InRom(pc) /\ instr = RomWord(pc) /\ instr \in Instructions
  BY DEF IInv, TypeOK, FetchInv
<1>2. PICK k \in 1..Len(rom) : instr = rom[k]
  BY <1>1, FetchedWord
<1>3. Supported(rom[k])
  BY <1>1, <1>2, RomTypes DEF SupportedPrograms
<1> QED
  BY <1>1, <1>2, <1>3

(* The end of the memory state completes the instruction: what write-back  *)
(* will load is what the instruction set computes.                         *)
LEMMA MemoryStateRefines ==
    ASSUME SupportedPrograms, IInv, IInv', Tick, state = "MEM"
    PROVE  ISA!Next
<1>1. /\ Supported(instr) /\ instr \in Instructions
      /\ ISA!InProgram /\ ISA!Current = instr /\ NextPC = pc /\ NextRegs = regs
  BY InstructionIsSupported, MappedState DEF IInv, FetchInv
<1>2. /\ state' = "WB" /\ pc' = pc /\ regs' = regs /\ instr' = instr /\ rom' = rom
      /\ readData1' = readData1 /\ readData2' = readData2
  BY <1>1 DEF Tick, NextState, RegisterFile, Memories, IInv, FetchInv, ReadInv
<1>3. readData1 = regs[instr.rs1] /\ readData2 = regs[instr.rs2]
  BY DEF IInv, ReadInv
<1>4. alu_result' = alu_result
  BY <1>2, AddressFollows
<1>5. /\ NextPC' = Wrap(pc + (IF PCSrc THEN Immediate ELSE 4))
      /\ NextRegs' = IF instr.opcode \in {LOAD, OPIMM, OP}
                     THEN [regs EXCEPT ![instr.rd] = writeData'] ELSE regs
  <2>1. Immediate' = Immediate /\ PCSrc' = PCSrc
    BY <1>2, <1>4 DEF Immediate, PCSrc, Zero
  <2> QED
    BY <1>2, <2>1 DEF NextPC, loadPC, NextRegs, RegWrite
<1>6. /\ instr.opcode # STORE => ram' = ram
      /\ instr.opcode = STORE => ram' = ISA!Stored
  BY <1>1, StoreIsRight DEF Tick
<1>7. instr.opcode \in {OP, OPIMM, LOAD, STORE, BRANCH}
  BY <1>1, DecodeIsRight DEF IInv
<1>8. instr.opcode # BRANCH => NextPC' = ISA!Wrap(pc + 4)
  BY <1>5, SameArithmetic DEF PCSrc
<1>9. CASE instr.opcode \in {OP, OPIMM}
  <2>1. writeData' = alu_result
    BY <1>2, <1>4, <1>9 DEF writeData, MemtoReg, OP, OPIMM, LOAD
  <2>2. instr.rd # 0 /\ instr.opcode \notin {BRANCH, STORE}
    BY <1>1, <1>9 DEF Supported, OP, OPIMM, LOAD, STORE, BRANCH
  <2>3. NextRegs' = [regs EXCEPT ![instr.rd] = alu_result]
    BY <1>5, <1>9, <2>1
  <2>4. alu_result = ISA!Meaning(instr, regs[instr.rs1],
                        IF instr.opcode = OP THEN regs[instr.rs2] ELSE ISA!ImmI(instr))
    BY <1>1, <1>3, <1>9, DecodeIsRight, SameFormats DEF IInv
  <2>5. ISA!Compute
    BY <1>1, <1>2, <1>6, <1>8, <1>9, <2>2, <2>3, <2>4, SameFormats
    DEF ISA!Compute, ISA!SetRegister, ISA!Continue
  <2> QED
    BY <1>1, <2>5 DEF ISA!Next
<1>10. CASE instr.opcode = LOAD
  <2>1. dReadData' = ram[Cell(dAddress)]
    BY DEF Tick, Memories
  <2>2. writeData' = ram[Cell(alu_result)]
    BY <1>2, <1>10, <2>1 DEF writeData, MemtoReg, dAddress
  <2>3. instr.rd # 0 /\ instr.opcode \notin {BRANCH, STORE}
    BY <1>1, <1>10 DEF Supported, OP, OPIMM, LOAD, STORE, BRANCH
  <2>4. NextRegs' = [regs EXCEPT ![instr.rd] = ram[Cell(alu_result)]]
    BY <1>5, <1>10, <2>2
  <2>5. alu_result = ISA!Add(regs[instr.rs1], ISA!ImmI(instr))
    BY <1>1, <1>3, <1>10, DecodeIsRight, SameFormats, SameArithmetic DEF IInv
  <2>6. ISA!Load
    BY <1>1, <1>2, <1>6, <1>8, <1>10, <2>3, <2>4, <2>5, SameFormats
    DEF ISA!Load, ISA!SetRegister, ISA!Continue, ISA!Cell, Cell
  <2> QED
    BY <1>1, <2>6 DEF ISA!Next
<1>11. CASE instr.opcode = STORE
  <2>1. NextRegs' = regs /\ instr.opcode # BRANCH
    BY <1>5, <1>11 DEF OP, OPIMM, LOAD, STORE, BRANCH
  <2>2. ISA!Store
    BY <1>1, <1>2, <1>6, <1>8, <1>11, <2>1, SameFormats DEF ISA!Store, ISA!Continue
  <2> QED
    BY <1>1, <2>2 DEF ISA!Next
<1>12. CASE instr.opcode = BRANCH
  <2>1. NextRegs' = regs /\ ram' = ram
    BY <1>5, <1>6, <1>12 DEF OP, OPIMM, LOAD, STORE, BRANCH
  <2>2. alu_result = Sub(regs[instr.rs1], regs[instr.rs2]) /\ Immediate = ImmB(instr)
    BY <1>1, <1>3, <1>12, DecodeIsRight DEF IInv
  <2>3. regs[instr.rs1] \in Words /\ regs[instr.rs2] \in Words
    BY <1>1 DEF IInv, TypeOK, Instructions
  <2>4. PCSrc <=> regs[instr.rs1] = regs[instr.rs2]
    BY <1>12, <2>2, <2>3, DifferenceIsZero DEF PCSrc, Zero
  <2>5. NextPC' = IF regs[instr.rs1] = regs[instr.rs2]
                  THEN ISA!Wrap(pc + ISA!ImmB(instr)) ELSE ISA!Wrap(pc + 4)
    BY <1>5, <2>2, <2>4, SameArithmetic, SameFormats
  <2>6. ISA!Branch
    BY <1>1, <1>2, <1>12, <2>1, <2>5, SameFormats DEF ISA!Branch, ISA!Continue
  <2> QED
    BY <1>1, <2>6 DEF ISA!Next
<1> QED
  BY <1>7, <1>9, <1>10, <1>11, <1>12

LEMMA StepRefines ==
    ASSUME SupportedPrograms, IInv, IInv', [Next]_vars
    PROVE  [ISA!Next]_(ISA!vars)
<1>1. state \in States
  BY DEF IInv, TypeOK
<1>2. CASE Tick /\ state = "MEM"
  BY <1>2, MemoryStateRefines
<1>3. CASE Tick /\ state # "MEM"
  <2>1. ram' = ram /\ rom' = rom /\ pc' = NextPC /\ regs' = NextRegs
    BY <1>3 DEF Tick, Memories, RegisterFile, MemWrite
  <2>2. state' # "WB"
    BY <1>1, <1>3 DEF Tick, NextState, States
  <2>3. NextPC' = pc' /\ NextRegs' = regs'
    BY <2>2 DEF NextPC, NextRegs, loadPC, RegWrite
  <2> QED
    BY <2>1, <2>3 DEF ISA!vars
<1>4. CASE Reset
  <2>1. rom' = rom /\ pc' = InitialPC /\ regs' = NextRegs /\ state' = "IF" /\ Memories
    BY <1>4 DEF Reset, Memories, RegisterFile
  <2>2. NextPC' = InitialPC /\ NextRegs' = NextRegs
    BY <2>1 DEF NextPC, NextRegs, loadPC, RegWrite
  <2>3. CASE state = "MEM" /\ instr.opcode = STORE
    <3>1. ISA!InProgram /\ ISA!Current = instr /\ Supported(instr)
      BY <2>3, InstructionIsSupported, MappedState DEF IInv, FetchInv
    <3>2. ram' = ISA!Stored
      BY <2>1, <2>3, <3>1, StoreIsRight
    <3>3. ISA!Reset
      BY <2>1, <2>2, <2>3, <3>1, <3>2, SameFormats DEF ISA!Reset
    <3> QED
      BY <3>3 DEF ISA!Next
  <2>4. CASE ~(state = "MEM" /\ instr.opcode = STORE)
    <3>1. ram' = ram
      BY <2>1, <2>4 DEF Memories, MemWrite
    <3>2. ISA!Reset
      BY <2>1, <2>2, <3>1 DEF ISA!Reset
    <3> QED
      BY <3>2 DEF ISA!Next
  <2> QED
    BY <2>3, <2>4
<1>5. CASE UNCHANGED vars
  <2>1. alu_result' = alu_result
    BY <1>5, AddressFollows DEF vars
  <2>2. NextPC' = NextPC /\ NextRegs' = NextRegs
    BY <1>5, <2>1 DEF vars, NextPC, NextRegs, loadPC, RegWrite, PCSrc, Zero, Immediate,
                      writeData, MemtoReg
  <2> QED
    BY <1>5, <2>2 DEF vars, ISA!vars
<1> QED
  BY <1>2, <1>3, <1>4, <1>5 DEF Next

(* Whatever the word width, the memories, the supported programs and the   *)
(* moments of reset: the processor executes its program as the instruction *)
(* set defines it.                                                         *)
THEOREM ProcessorImplementsInstructionSet ==
    ASSUME SupportedPrograms
    PROVE  Spec => ImplementsInstructionSet
<1>1. Init => ISA!Init
  BY InitRefines
<1>2. IInv /\ IInv' /\ [Next]_vars => [ISA!Next]_(ISA!vars)
  BY StepRefines
<1> QED
  BY <1>1, <1>2, InvariantHolds, PTL DEF Spec, ImplementsInstructionSet, ISA!Spec

-----------------------------------------------------------------------------
(* FloatMultiplier: the wires *)

Excess == 2^(ExpBits - 1)     \* one more than the bias

LEMMA FormatFacts ==
    /\ Hidden \in Nat \ {0} /\ Hidden \div 2 \in Nat \ {0} /\ Hidden = 2 * (Hidden \div 2)
    /\ Excess \in Nat /\ Excess >= 2 /\ Bias = Excess - 1 /\ MaxExp = 2 * Excess - 1
    /\ 2^ExpBits = 2 * Excess /\ 2^(ExpBits + 1) = 4 * Excess /\ 2^(ExpBits + 2) = 8 * Excess
<1> DEFINE p(n) == 2^n
<1>1. \A n \in 0..(ExpBits + 2) : p(n) \in Nat \ {0} /\ p(n + 1) = 2 * p(n)
    BY PowersAssumption
<1>2. ExpBits \in Nat /\ ExpBits >= 2 /\ FracBits \in Nat \ {0}
    BY FormatAssumption
<1>3. p(ExpBits + 1) \in Nat
    <2>1. ExpBits + 1 \in 0..(ExpBits + 2)
        BY <1>2
    <2> HIDE DEF p
    <2> QED BY <1>1, <2>1
<1>4. p(FracBits - 1) \in Nat \ {0} /\ p((FracBits - 1) + 1) = 2 * p(FracBits - 1)
    <2>1. FracBits - 1 \in 0..(p(ExpBits + 1) + FracBits)
        BY <1>2, <1>3
    <2> QED BY <2>1, PowersAssumption
<1>5. Hidden = p((FracBits - 1) + 1)
    BY <1>2 DEF Hidden
<1>6. /\ Bias = p(ExpBits - 1) - 1 /\ MaxExp = p(ExpBits) - 1 /\ Excess = p(ExpBits - 1)
      /\ 2^ExpBits = p(ExpBits) /\ 2^(ExpBits + 1) = p(ExpBits + 1) /\ 2^(ExpBits + 2) = p(ExpBits + 2)
    BY DEF Bias, MaxExp, Excess
<1> HIDE DEF p
<1>7. /\ p(ExpBits - 2) \in Nat \ {0} /\ p((ExpBits - 2) + 1) = 2 * p(ExpBits - 2)
      /\ p((ExpBits - 1) + 1) = 2 * p(ExpBits - 1) /\ p(ExpBits + 1) = 2 * p(ExpBits)
      /\ p((ExpBits + 1) + 1) = 2 * p(ExpBits + 1)
    BY <1>1, <1>2
<1>8. (ExpBits - 2) + 1 = ExpBits - 1 /\ (ExpBits - 1) + 1 = ExpBits /\ (ExpBits + 1) + 1 = ExpBits + 2
    BY <1>2
<1>9. /\ p(ExpBits - 1) = 2 * p(ExpBits - 2) /\ p(ExpBits) = 2 * p(ExpBits - 1)
      /\ p(ExpBits + 1) = 2 * p(ExpBits) /\ p(ExpBits + 2) = 2 * p(ExpBits + 1)
    BY <1>7, <1>8
<1> QED BY <1>4, <1>5, <1>6, <1>7, <1>9

\* A wire of two extra bits holds every sum of two exponents and two carries.
LEMMA WireHolds ==
    ASSUME NEW n \in Int, -Bias <= n, n <= 2 * MaxExp + 2 - Bias
    PROVE  SignedWire(n) = n
<1>1. /\ Excess \in Nat /\ 2^(ExpBits + 1) = 4 * Excess /\ 2^(ExpBits + 2) = 8 * Excess
      /\ -(4 * Excess) <= n /\ n < 4 * Excess
    BY FormatFacts
<1>2. \A m \in Nat : \A k \in Int : 0 <= k /\ k < m => k % m = k
    OBVIOUS
<1>3. (n + 4 * Excess) % (8 * Excess) = n + 4 * Excess
    BY <1>1, <1>2
<1> QED BY <1>1, <1>3 DEF SignedWire

\* The significand that is kept before rounding, with its leading one.
Kept(x, y) == mantissa_prod(x, y) \div Ulp(x, y)

LEMMA ProductFacts ==
    ASSUME NEW x \in Floats, NEW y \in Floats
    PROVE  /\ mantissa_prod(x, y) \in Nat /\ TopBit(x, y) \in 0..1
           /\ Ulp(x, y) \in Nat \ {0} /\ Ulp(x, y) = 2 * (Ulp(x, y) \div 2)
           /\ Ulp(x, y) \div 2 \in Nat \ {0}
           /\ Kept(x, y) \in Hidden..(2 * Hidden - 1)
           /\ CutOff(x, y) \in 0..(Ulp(x, y) - 1)
           /\ mantissa_prod(x, y) = Kept(x, y) * Ulp(x, y) + CutOff(x, y)
           /\ normalized_mantissa(x, y) = Kept(x, y) - Hidden
<1> DEFINE h == Hidden
           m == Hidden + x.frac
           n == Hidden + y.frac
           p == m * n
           t == TopBit(x, y)
           u == h * (1 + t)
<1>1. h \in Nat \ {0} /\ h = 2 * (h \div 2) /\ h \div 2 \in Nat
    BY FormatFacts
<1>2. m \in h..(2 * h - 1) /\ n \in h..(2 * h - 1)
    BY <1>1 DEF Floats
<1>3. mantissa_prod(x, y) = p /\ t = p \div (2 * h * h) /\ Ulp(x, y) = u
    BY DEF mantissa_prod, TopBit, Ulp
<1> HIDE DEF h, m, n, t
<1>4. p \in Nat /\ h * h <= p /\ p < 4 * (h * h)
    <2>1. h * h <= h * n /\ h * n <= m * n
        BY <1>1, <1>2
    <2>2. m * n <= m * (2 * h) /\ m * (2 * h) < (2 * h) * (2 * h)
        BY <1>1, <1>2
    <2> QED BY <1>1, <1>2, <2>1, <2>2
<1> HIDE DEF p
<1>5. t \in 0..1 /\ (t = 0 => p < 2 * (h * h)) /\ (t = 1 => p >= 2 * (h * h))
    <2>1. h * h \in Nat \ {0} /\ 2 * h * h = 2 * (h * h)
        BY <1>1
    <2>2. \A k \in Nat \ {0} : \A q \in Nat :
             q < 2 * k => q \div k \in 0..1 /\ (q \div k = 0 => q < k) /\ (q \div k = 1 => q >= k)
        OBVIOUS
    <2> DEFINE k == 2 * (h * h)
    <2>3. k \in Nat \ {0} /\ p < 2 * k /\ p \in Nat /\ t = p \div k
        BY <1>3, <1>4, <2>1
    <2> HIDE DEF k
    <2>4. t \in 0..1 /\ (t = 0 => p < k) /\ (t = 1 => p >= k)
        BY <2>2, <2>3
    <2> QED BY <2>4 DEF k
<1>6. u \in Nat \ {0} /\ u * h <= p /\ p < u * (2 * h) /\ u = 2 * (u \div 2) /\ u \div 2 \in Nat \ {0}
    <2>1. CASE t = 0
        BY <1>1, <1>4, <1>5, <2>1
    <2>2. CASE t = 1
        BY <1>1, <1>4, <1>5, <2>2
    <2> QED BY <1>5, <2>1, <2>2
<1> HIDE DEF u
<1>7. /\ p = (p \div u) * u + (p % u) /\ p % u \in 0..(u - 1) /\ p \div u \in Nat
    BY <1>4, <1>6
<1>8. p \div u \in h..(2 * h - 1)
    <2>1. ASSUME p \div u < h PROVE FALSE
        <3>1. p \div u + 1 <= h
            BY <1>1, <1>7, <2>1
        <3>2. (p \div u + 1) * u <= h * u
            BY <1>1, <1>6, <1>7, <3>1
        <3> QED BY <1>1, <1>4, <1>6, <1>7, <3>2
    <2>2. ASSUME p \div u >= 2 * h PROVE FALSE
        <3>1. (2 * h) * u <= (p \div u) * u
            <4>1. \A i, j, k \in Nat : i <= j => i * k <= j * k
                OBVIOUS
            <4>2. 2 * h \in Nat /\ p \div u \in Nat /\ u \in Nat /\ 2 * h <= p \div u
                BY <1>1, <1>6, <1>7, <2>2
            <4> QED BY <4>1, <4>2
        <3> QED BY <1>1, <1>4, <1>6, <1>7, <3>1
    <2> QED BY <1>1, <1>7, <2>1, <2>2
<1>9. (p \div u) % h = p \div u - h
    <2>1. \A k \in Nat \ {0} : \A q \in k..(2 * k - 1) : q % k = q - k
        OBVIOUS
    <2> QED BY <1>1, <1>8, <2>1
<1> QED BY <1>3, <1>4, <1>5, <1>6, <1>7, <1>8, <1>9 DEF Kept, CutOff, normalized_mantissa, h, t

LEMMA ExponentFacts ==
    ASSUME NEW x \in Floats, NEW y \in Floats
    PROVE  /\ normalized_exponent(x, y) = x.exp + y.exp - Bias + TopBit(x, y)
           /\ normalized_exponent(x, y) \in Int
           /\ \A c \in 0..1 :
                 SignedWire(normalized_exponent(x, y) + c) = normalized_exponent(x, y) + c
<1>1. /\ x.exp \in 0..MaxExp /\ y.exp \in 0..MaxExp /\ TopBit(x, y) \in 0..1
      /\ MaxExp \in Nat /\ Bias \in Nat
    BY FormatFacts, ProductFacts DEF Floats
<1>2. exponent_sum(x, y) = x.exp + y.exp - Bias
    BY <1>1, WireHolds DEF exponent_sum
<1>3. normalized_exponent(x, y) = x.exp + y.exp - Bias + TopBit(x, y)
    BY <1>1, <1>2, WireHolds DEF normalized_exponent
<1>4. ASSUME NEW c \in 0..1
      PROVE  SignedWire(normalized_exponent(x, y) + c) = normalized_exponent(x, y) + c
    BY <1>1, <1>3, WireHolds
<1> QED BY <1>1, <1>3, <1>4

LEMMA RoundingFacts ==
    ASSUME NEW x \in Floats, NEW y \in Floats, NEW mode
    PROVE  /\ rounding_result(x, y, mode) =
                 Kept(x, y) + (IF increase_mantissa(x, y, mode) THEN 1 ELSE 0)
           /\ rounding_result(x, y, mode) \in Hidden..(2 * Hidden)
           /\ Carry(x, y, mode) = (IF rounding_result(x, y, mode) = 2 * Hidden THEN 1 ELSE 0)
           /\ post_round_exponent(x, y, mode) = normalized_exponent(x, y) + Carry(x, y, mode)
<1> DEFINE r == rounding_result(x, y, mode)
<1>1. Hidden \in Nat \ {0} /\ Kept(x, y) \in Hidden..(2 * Hidden - 1)
      /\ normalized_mantissa(x, y) = Kept(x, y) - Hidden
    BY FormatFacts, ProductFacts
<1>2. r = Kept(x, y) + (IF increase_mantissa(x, y, mode) THEN 1 ELSE 0)
    BY <1>1 DEF rounding_result
<1> HIDE DEF r
<1>3. r \in Hidden..(2 * Hidden)
    BY <1>1, <1>2
<1>4. r \div (2 * Hidden) = (IF r = 2 * Hidden THEN 1 ELSE 0)
    <2>1. \A k \in Nat \ {0} : \A q \in 0..k : q \div k = (IF q = k THEN 1 ELSE 0)
        OBVIOUS
    <2>2. 2 * Hidden \in Nat \ {0} /\ r \in 0..(2 * Hidden)
        BY <1>1, <1>3
    <2> QED BY <2>1, <2>2
<1>5. Carry(x, y, mode) = (IF r = 2 * Hidden THEN 1 ELSE 0)
    BY <1>4 DEF Carry, r
<1>6. post_round_exponent(x, y, mode) = normalized_exponent(x, y) + Carry(x, y, mode)
    <2>1. Carry(x, y, mode) \in 0..1
        BY <1>5
    <2> QED BY <2>1, ExponentFacts DEF post_round_exponent
<1> QED BY <1>2, <1>3, <1>5, <1>6 DEF r

LEMMA InputsTyped == Bench => []InputsOK
<1>1. FirstInputs => InputsOK
    BY DEF FirstInputs, InputsOK, Modes
<1>2. InputsOK /\ [NextInputs]_inputs => InputsOK'
    BY DEF InputsOK, NextInputs, inputs, ApplyNextMode, ApplyA, ApplyB, NextMode, Modes
<1> QED BY <1>1, <1>2, PTL DEF Bench

\* In every format no exponent wraps around, the product has its leading one in one of
\* two places, and rounding carries out of the mantissa only to leave it empty.
THEOREM WidthsAreSufficient == Bench => []WidthsSuffice
<1>1. InputsOK => WidthsSuffice
    <2> SUFFICES ASSUME InputsOK PROVE WidthsSuffice
        OBVIOUS
    <2>1. a \in Floats /\ b \in Floats
        BY DEF InputsOK
    <2>2. /\ normalized_exponent(a, b) = a.exp + b.exp - Bias + TopBit(a, b)
          /\ post_round_exponent(a, b, rnd) = normalized_exponent(a, b) + Carry(a, b, rnd)
        BY <2>1, ExponentFacts, RoundingFacts
    <2>3. TopBit(a, b) \in 0..1 /\ mantissa_prod(a, b) \div Ulp(a, b) \in Hidden..(2 * Hidden - 1)
        BY <2>1, ProductFacts DEF Kept
    <2>4. Carry(a, b, rnd) = 1 => rounding_result(a, b, rnd) = 2 * Hidden
        BY <2>1, RoundingFacts
    <2> QED BY <2>2, <2>3, <2>4 DEF WidthsSuffice
<1> QED BY <1>1, InputsTyped, PTL

\* The largest power that a magnitude holds.
Top == 2^(ExpBits + 1) + FracBits

LEMMA Doubling == ASSUME NEW n \in 0..Top PROVE 2^n \in Nat \ {0} /\ 2^(n + 1) = 2 * 2^n
BY PowersAssumption DEF Top

LEMMA TopFacts == Top \in Nat /\ Top = 2 * MaxExp + 2 + FracBits /\ FracBits \in Nat \ {0}
BY FormatFacts, FormatAssumption DEF Top

\* Induction over the natural numbers, for a set of them.
LEMMA NatSetInduction ==
    ASSUME NEW A, 0 \in A, \A n \in Nat : n \in A => n + 1 \in A
    PROVE  Nat \subseteq A
<1> SUFFICES ASSUME Nat \ A # {} PROVE FALSE
    OBVIOUS
<1>1. PICK k \in Nat \ A : \A i \in Nat \ A : ~(<<i, k>> \in OpToRel(<, Nat))
    BY NatLessThanWellFounded, WFMin
<1>2. k \in Nat /\ k \notin A /\ k # 0
    OBVIOUS
<1>3. k - 1 \in Nat /\ k = (k - 1) + 1
    BY <1>2
<1>4. <<k - 1, k>> \in OpToRel(<, Nat)
    BY <1>2, <1>3 DEF OpToRel
<1>5. k - 1 \in A
    BY <1>1, <1>3, <1>4
<1> QED BY <1>2, <1>3, <1>5

LEMMA PowerSum ==
    ASSUME NEW m \in 0..Top, NEW n \in 0..Top, m + n <= Top
    PROVE  2^(m + n) = 2^m * 2^n
<1> DEFINE S == {k \in 0..Top : m + k <= Top => 2^(m + k) = 2^m * 2^k}
<1>1. Top \in Nat
    BY TopFacts
<1>2. 0 \in 0..Top /\ m + 0 = m /\ 2^0 = 1 /\ 2^m \in Nat
    BY <1>1, Doubling, PowersAssumption
<1>3. 2^(m + 0) = 2^m * 2^0
    BY <1>2
<1>4. 0 \in S
    BY <1>2, <1>3
<1>5. ASSUME NEW k \in 0..Top, k \in S, k + 1 <= Top PROVE k + 1 \in S
    <2>1. ASSUME m + (k + 1) <= Top PROVE 2^(m + (k + 1)) = 2^m * 2^(k + 1)
        <3>1. m + k \in 0..Top /\ (m + k) + 1 = m + (k + 1)
            BY <1>1, <2>1
        <3>2. 2^((m + k) + 1) = 2 * 2^(m + k) /\ 2^(k + 1) = 2 * 2^k
            BY <3>1, Doubling
        <3>3. 2^(m + k) = 2^m * 2^k /\ 2^m \in Nat /\ 2^k \in Nat
            BY <1>1, <1>5, <3>1, Doubling
        <3>4. \A i, j \in Nat : 2 * (i * j) = i * (2 * j)
            OBVIOUS
        <3> QED BY <3>1, <3>2, <3>3, <3>4
    <2> QED BY <1>1, <1>5, <2>1
<1> HIDE DEF S
<1>6. Nat \subseteq {k \in Nat : k <= Top => k \in S}
    <2> DEFINE R == {k \in Nat : k <= Top => k \in S}
    <2>1. 0 \in R
        BY <1>4
    <2>2. ASSUME NEW k \in Nat, k \in R PROVE k + 1 \in R
        <3>1. CASE k + 1 <= Top
            <4>1. k \in 0..Top /\ k \in S
                BY <1>1, <2>2, <3>1
            <4> QED BY <1>5, <3>1, <4>1
        <3>2. CASE ~(k + 1 <= Top)
            BY <3>2
        <3> QED BY <3>1, <3>2
    <2> HIDE DEF R
    <2>3. Nat \subseteq R
        BY <2>1, <2>2, NatSetInduction
    <2> QED BY <2>3 DEF R
<1> QED BY <1>1, <1>6 DEF S

-----------------------------------------------------------------------------
(* FloatMultiplier: what the bits of an exponent weigh *)

\* The last bit of a number with this exponent, in units of the exact product.
Scale(k) == 2^(k + Bias + FracBits - 2)

\* The exponents that occur: of operands, of products, and their neighbours.
Exponents == (1 - Bias)..(2 * MaxExp - Bias)

LEMMA ScaleType ==
    ASSUME NEW k \in Exponents
    PROVE  Scale(k) \in Nat \ {0} /\ Scale(k + 1) = 2 * Scale(k)
<1> DEFINE i == k + Bias + FracBits - 2
<1>1. i \in 0..Top /\ i + 1 = (k + 1) + Bias + FracBits - 2
    BY FormatFacts, TopFacts DEF Exponents
<1> HIDE DEF i
<1>2. 2^i \in Nat \ {0} /\ 2^(i + 1) = 2 * 2^i
    BY <1>1, Doubling
<1> QED BY <1>1, <1>2 DEF Scale, i

LEMMA ScaleMultiple ==
    ASSUME NEW k \in Exponents, NEW j \in Exponents, k <= j
    PROVE  \E c \in Nat \ {0} : Scale(j) = c * Scale(k) /\ (k < j => c >= 2)
<1> DEFINE i == k + Bias + FracBits - 2
           d == j - k
<1>1. i \in 0..Top /\ d \in 0..Top /\ i + d <= Top /\ i + d = j + Bias + FracBits - 2
    BY FormatFacts, TopFacts DEF Exponents
<1>2. k < j => d - 1 \in 0..Top /\ (d - 1) + 1 = d
    <2>1. k \in Int /\ j \in Int
        BY FormatFacts DEF Exponents
    <2> QED BY <1>1, <2>1, TopFacts
<1> HIDE DEF i, d
<1>4. 2^(i + d) = 2^i * 2^d /\ 2^i \in Nat \ {0} /\ 2^d \in Nat \ {0}
    BY <1>1, PowerSum, Doubling
<1>5. k < j => 2^d >= 2
    <2> SUFFICES ASSUME k < j PROVE 2^d >= 2
        OBVIOUS
    <2>1. 2^(d - 1) \in Nat \ {0} /\ 2^((d - 1) + 1) = 2 * 2^(d - 1)
        BY <1>2, Doubling
    <2>2. 2^d = 2 * 2^(d - 1)
        BY <1>2, <2>1
    <2> QED BY <2>1, <2>2
<1>6. Scale(k) = 2^i /\ Scale(j) = 2^(i + d)
    BY <1>1 DEF Scale, i
<1>7. Scale(j) = 2^d * Scale(k)
    <2>1. \A m, n \in Nat : m * n = n * m
        OBVIOUS
    <2> QED BY <1>4, <1>6, <2>1
<1> QED BY <1>4, <1>5, <1>7

Normal(x) == x \in Floats /\ num_interp(x) = "NORM"

LEMMA ProductScale ==
    ASSUME NEW x, NEW y, Normal(x), Normal(y)
    PROVE  /\ normalized_exponent(x, y) \in Exponents
           /\ normalized_exponent(x, y) + 1 \in Exponents
           /\ 2^(x.exp + y.exp - 2) \in Nat \ {0}
           /\ Ulp(x, y) * 2^(x.exp + y.exp - 2) = Scale(normalized_exponent(x, y))
<1> DEFINE s == x.exp + y.exp - 2
           t == TopBit(x, y)
           n == normalized_exponent(x, y)
<1>1. /\ x \in Floats /\ y \in Floats /\ x.exp \in 1..(MaxExp - 1) /\ y.exp \in 1..(MaxExp - 1)
      /\ MaxExp \in Nat /\ Bias \in Nat /\ MaxExp = 2 * Bias + 1 /\ Bias >= 1
    BY FormatFacts DEF Normal, num_interp, Floats
<1>2. t \in 0..1 /\ n = x.exp + y.exp - Bias + t
    BY <1>1, ProductFacts, ExponentFacts
<1>3. n \in Exponents /\ n + 1 \in Exponents
    BY <1>1, <1>2 DEF Exponents
<1>4. /\ s \in 0..Top /\ FracBits \in 0..Top /\ FracBits + s \in 0..Top
      /\ n + Bias + FracBits - 2 = (FracBits + s) + t
    BY <1>1, <1>2, TopFacts
<1> HIDE DEF s, t, n
<1>5. /\ 2^s \in Nat \ {0} /\ 2^(FracBits + s) = 2^FracBits * 2^s /\ 2^FracBits \in Nat
      /\ 2^(FracBits + s + 1) = 2 * 2^(FracBits + s)
    BY <1>4, PowerSum, Doubling
<1>6. Ulp(x, y) * 2^s = Scale(n)
    <2> DEFINE g == 2^s
               h == 2^FracBits
    <2>1. Ulp(x, y) = h * (1 + t)
        BY DEF Ulp, Hidden, t
    <2>2. CASE t = 0
        <3>1. Scale(n) = 2^(FracBits + s)
            BY <1>4, <2>2 DEF Scale
        <3>2. Ulp(x, y) = h
            BY <1>5, <2>1, <2>2
        <3> QED BY <1>5, <3>1, <3>2
    <2>3. CASE t = 1
        <3>1. Scale(n) = 2^(FracBits + s + 1)
            BY <1>4, <2>3 DEF Scale
        <3>2. Scale(n) = 2 * (h * g)
            BY <1>5, <3>1
        <3>3. Ulp(x, y) = h * 2
            BY <2>1, <2>3
        <3>4. h \in Nat /\ g \in Nat
            BY <1>5
        <3> HIDE DEF g, h
        <3>5. (h * 2) * g = 2 * (h * g)
            BY <3>4
        <3> QED BY <3>2, <3>3, <3>5 DEF g
    <2> QED BY <1>2, <2>2, <2>3
<1> QED BY <1>3, <1>5, <1>6 DEF s, n

LEMMA ScaleMonotone ==
    ASSUME NEW k \in Exponents, NEW j \in Exponents, k <= j
    PROVE  Scale(k) <= Scale(j) /\ (k < j => 2 * Scale(k) <= Scale(j))
<1>1. PICK c \in Nat \ {0} : Scale(j) = c * Scale(k) /\ (k < j => c >= 2)
    BY ScaleMultiple
<1>2. Scale(k) \in Nat \ {0}
    BY ScaleType
<1>3. \A i, m \in Nat \ {0} : m <= i * m /\ (i >= 2 => 2 * m <= i * m)
    OBVIOUS
<1> QED BY <1>1, <1>2, <1>3

LEMMA OrdinaryExponents ==
    /\ 0..(MaxExp + 1) \subseteq Exponents /\ MaxExp \in Nat /\ MaxExp >= 3
    /\ MaxExp - 1 \in Exponents /\ MaxExp = (MaxExp - 1) + 1 /\ Bias \in Nat
BY FormatFacts DEF Exponents

Significands == Hidden..(2 * Hidden - 1)

LEMMA SignificandType == Hidden \in Nat \ {0} /\ Significands \subseteq Nat \ {0}
BY FormatFacts DEF Significands

LEMMA MagnitudeForm ==
    ASSUME NEW v \in Floats
    PROVE  Magnitude(v) = (IF v.exp = 0 THEN 0 ELSE (Hidden + v.frac) * Scale(v.exp))
BY DEF Magnitude, Scale

LEMMA FiniteForm ==
    ASSUME NEW m
    PROVE  m \in Finite <=> \/ m = 0
                            \/ \E g \in Significands, k \in 1..(MaxExp - 1) : m = g * Scale(k)
<1>0. MaxExp \in Nat /\ MaxExp >= 3 /\ Hidden \in Nat \ {0}
    BY OrdinaryExponents, SignificandType
<1>1. ASSUME m \in Finite
      PROVE  m = 0 \/ \E g \in Significands, k \in 1..(MaxExp - 1) : m = g * Scale(k)
    <2>1. PICK v \in Floats : v.exp < MaxExp /\ m = Magnitude(v)
        BY <1>1 DEF Finite
    <2>2. v.exp \in 0..MaxExp /\ v.frac \in 0..(Hidden - 1)
        BY DEF Floats
    <2>3. CASE v.exp = 0
        BY <2>1, <2>3, MagnitudeForm
    <2>4. CASE v.exp # 0
        <3>1. v.exp \in 1..(MaxExp - 1) /\ Hidden + v.frac \in Significands
            BY <1>0, <2>1, <2>2, <2>4 DEF Significands
        <3> QED BY <2>1, <2>4, <3>1, MagnitudeForm
    <2> QED BY <2>3, <2>4
<1>2. 0 \in Finite
    <2> DEFINE v == [sign |-> 0, exp |-> 0, frac |-> 0]
    <2>1. v \in Floats /\ v.exp < MaxExp /\ Magnitude(v) = 0
        BY <1>0 DEF Floats, Magnitude
    <2> QED BY <2>1 DEF Finite
<1>3. ASSUME NEW g \in Significands, NEW k \in 1..(MaxExp - 1)
      PROVE  g * Scale(k) \in Finite
    <2> DEFINE v == [sign |-> 0, exp |-> k, frac |-> g - Hidden]
    <2>1. v \in Floats /\ v.exp < MaxExp /\ v.exp # 0 /\ Hidden + v.frac = g /\ v.exp = k
        BY <1>0 DEF Floats, Significands
    <2>2. Magnitude(v) = g * Scale(k)
        BY <2>1, MagnitudeForm
    <2> QED BY <2>1, <2>2 DEF Finite
<1> QED BY <1>1, <1>2, <1>3

LEMMA Extremes ==
    /\ Infinite = Hidden * Scale(MaxExp)
    /\ Infinite = ((2 * Hidden - 1) + 1) * Scale(MaxExp - 1)
    /\ Smallest = Hidden * Scale(1) /\ Smallest = (2 * Hidden) * Scale(0)
    /\ \A s \in 0..1 : /\ Magnitude(z_num(s, "INF")) = Infinite
                        /\ Magnitude(z_num(s, "ZERO")) = 0
                        /\ Magnitude(z_num(s, "MIN_NORM")) = Smallest
                        /\ Magnitude(z_num(s, "MAX_NORM")) =
                              (2 * Hidden - 1) * Scale(MaxExp - 1)
<1>1. /\ MaxExp \in Nat /\ MaxExp >= 3 /\ Hidden \in Nat \ {0}
      /\ Scale(MaxExp - 1) \in Nat /\ Scale(MaxExp) = 2 * Scale(MaxExp - 1)
      /\ Scale(0) \in Nat /\ Scale(1) = 2 * Scale(0)
    BY OrdinaryExponents, SignificandType, ScaleType
<1>2. ASSUME NEW s \in 0..1
      PROVE  /\ Magnitude(z_num(s, "INF")) = Hidden * Scale(MaxExp)
             /\ Magnitude(z_num(s, "ZERO")) = 0
             /\ Magnitude(z_num(s, "MIN_NORM")) = Hidden * Scale(1)
             /\ Magnitude(z_num(s, "MAX_NORM")) = (2 * Hidden - 1) * Scale(MaxExp - 1)
    <2>1. /\ z_num(s, "INF") = [sign |-> s, exp |-> MaxExp, frac |-> 0]
          /\ z_num(s, "ZERO") = [sign |-> s, exp |-> 0, frac |-> 0]
          /\ z_num(s, "MIN_NORM") = [sign |-> s, exp |-> 1, frac |-> 0]
          /\ z_num(s, "MAX_NORM") = [sign |-> s, exp |-> MaxExp - 1, frac |-> Hidden - 1]
        BY DEF z_num
    <2>2. /\ Hidden + 0 = Hidden /\ Hidden + (Hidden - 1) = 2 * Hidden - 1
          /\ MaxExp # 0 /\ MaxExp - 1 # 0
        BY <1>1
    <2>3. Magnitude(z_num(s, "INF")) = (Hidden + 0) * Scale(MaxExp)
        BY <2>1, <2>2 DEF Magnitude, Scale
    <2>4. Magnitude(z_num(s, "ZERO")) = 0
        BY <2>1 DEF Magnitude
    <2>5. Magnitude(z_num(s, "MIN_NORM")) = (Hidden + 0) * Scale(1)
        BY <2>1 DEF Magnitude, Scale
    <2>6. Magnitude(z_num(s, "MAX_NORM")) = (Hidden + (Hidden - 1)) * Scale(MaxExp - 1)
        <3> DEFINE v == z_num(s, "MAX_NORM")
        <3>1. v.exp = MaxExp - 1 /\ v.frac = Hidden - 1
            BY <2>1
        <3> HIDE DEF v
        <3>2. Magnitude(v) = (Hidden + v.frac) * Scale(v.exp)
            BY <2>2, <3>1 DEF Magnitude, Scale
        <3> QED BY <3>1, <3>2 DEF v
    <2> QED BY <2>2, <2>3, <2>4, <2>5, <2>6
<1>3. \A h, n \in Nat : h * (2 * n) = ((2 * h - 1) + 1) * n /\ h * (2 * n) = (2 * h) * n
    OBVIOUS
<1> QED BY <1>1, <1>2, <1>3 DEF Infinite, Smallest

\* No value lies strictly between two neighbouring multiples of a weight.
LEMMA Gap ==
    ASSUME NEW m \in Finite \cup {Infinite}, NEW n \in Exponents, NEW q \in Significands
    PROVE  /\ m \in Nat /\ q * Scale(n) \in Nat /\ (q + 1) * Scale(n) \in Nat
           /\ m <= q * Scale(n) \/ m >= (q + 1) * Scale(n)
<1> DEFINE w == Scale(n)
           h == Hidden
<1>0. w \in Nat \ {0} /\ q \in Nat /\ h \in Nat \ {0} /\ h <= q
    BY ScaleType, SignificandType DEF Significands
<1>1. q * w \in Nat /\ (q + 1) * w \in Nat
    BY <1>0
<1>2. m = 0 \/ \E g \in Significands, k \in 1..MaxExp : m = g * Scale(k)
    <2>1. CASE m \in Finite
        BY <2>1, FiniteForm, OrdinaryExponents
    <2>2. CASE m = Infinite
        <3>1. h \in Significands /\ MaxExp \in 1..MaxExp
            BY SignificandType, OrdinaryExponents DEF Significands
        <3> QED BY <2>2, <3>1, Extremes
    <2> QED BY <2>1, <2>2
<1>3. CASE m = 0
    BY <1>1, <1>3
<1>4. CASE \E g \in Significands, k \in 1..MaxExp : m = g * Scale(k)
    <2>1. PICK g \in Significands, k \in 1..MaxExp : m = g * Scale(k)
        BY <1>4
    <2>2. k \in Exponents /\ n \in Int /\ k \in Int /\ Scale(k) \in Nat \ {0} /\ g \in Nat \ {0}
          /\ g <= 2 * h - 1
        BY OrdinaryExponents, ScaleType, SignificandType DEF Exponents, Significands
    <2>3. m \in Nat
        BY <2>1, <2>2
    <2>4. CASE n <= k
        <3>1. PICK c \in Nat \ {0} : Scale(k) = c * w
            BY <2>2, <2>4, ScaleMultiple
        <3> DEFINE p == g * c
        <3>2. m = p * w /\ p \in Nat
            <4>1. \A i, j, l \in Nat : i * (j * l) = (i * j) * l
                OBVIOUS
            <4>2. g \in Nat /\ c \in Nat /\ w \in Nat
                BY <1>0, <2>2
            <4> HIDE DEF w
            <4> QED BY <2>1, <3>1, <4>1, <4>2
        <3> HIDE DEF w, p
        <3>3. \A i, j, l \in Nat : i <= j => i * l <= j * l
            OBVIOUS
        <3>4. p <= q \/ q + 1 <= p
            BY <1>0, <3>2
        <3>5. p * w <= q * w \/ (q + 1) * w <= p * w
            BY <1>0, <3>2, <3>3, <3>4
        <3> QED BY <1>1, <2>3, <3>2, <3>5 DEF w
    <2>5. CASE k < n
        <3>1. 2 * Scale(k) <= w
            BY <2>2, <2>5, ScaleMonotone
        <3> DEFINE v == Scale(k)
        <3>2. v \in Nat \ {0} /\ m = g * v /\ 2 * v <= w
            BY <2>1, <2>2, <3>1
        <3> HIDE DEF w, v, h
        <3>3. \A i, j, l \in Nat : i <= j => i * l <= j * l /\ l * i <= l * j
            OBVIOUS
        <3>4. g * v <= (2 * h) * v
            BY <1>0, <2>2, <3>2, <3>3
        <3>5. (2 * h) * v = h * (2 * v)
            BY <1>0, <3>2
        <3>6. h * (2 * v) <= h * w
            BY <1>0, <3>2, <3>3
        <3>7. h * w <= q * w
            BY <1>0, <3>3
        <3>8. m \in Nat /\ g * v \in Nat /\ (2 * h) * v \in Nat /\ h * w \in Nat /\ q * w \in Nat
            BY <1>0, <2>2, <3>2
        <3>9. m <= q * w
            BY <3>2, <3>4, <3>5, <3>6, <3>7, <3>8
        <3> QED BY <1>1, <3>8, <3>9 DEF w
    <2> QED BY <2>2, <2>4, <2>5
<1> QED BY <1>2, <1>3, <1>4

\* The exact product lies between what is kept and its upper neighbour; guard and
\* sticky bit say whether it is the lower one, and on which side of the middle it lies.
LEMMA ProductNeighbours ==
    ASSUME NEW x, NEW y, Normal(x), Normal(y),
           NEW w, w = Scale(normalized_exponent(x, y))
    PROVE  /\ Kept(x, y) \in Significands /\ w \in Nat \ {0} /\ Exact(x, y) \in Nat
           /\ Kept(x, y) * w <= Exact(x, y) /\ Exact(x, y) < (Kept(x, y) + 1) * w
           /\ guard_bit(x, y) <=> 2 * (Exact(x, y) - Kept(x, y) * w) >= w
           /\ inexact(x, y) <=> Exact(x, y) # Kept(x, y) * w
           /\ guard_bit(x, y) /\ ~sticky_bit(x, y)
                 <=> 2 * (Exact(x, y) - Kept(x, y) * w) = w
<1> DEFINE q == Kept(x, y)
           u == Ulp(x, y)
           h == Ulp(x, y) \div 2
           r == CutOff(x, y)
           s == 2^(x.exp + y.exp - 2)
           e == Exact(x, y)
<1>1. /\ q \in Significands /\ q \in Nat /\ u \in Nat \ {0} /\ h \in Nat \ {0} /\ u = 2 * h
      /\ r \in 0..(u - 1) /\ mantissa_prod(x, y) = q * u + r
    BY ProductFacts, SignificandType DEF Normal, Significands
<1>2. s \in Nat \ {0} /\ u * s = w
    BY ProductScale
<1>3. e = mantissa_prod(x, y) * s
    BY DEF Exact, mantissa_prod
<1>4. r % h = 0 <=> r = 0 \/ r = h
    <2>1. \A i \in Nat \ {0} : \A j \in 0..(2 * i - 1) : j % i = 0 <=> j = 0 \/ j = i
        OBVIOUS
    <2> HIDE DEF u, h, r
    <2> QED BY <1>1, <2>1
<1>5. /\ guard_bit(x, y) <=> r >= h
      /\ sticky_bit(x, y) <=> ~(r = 0 \/ r = h)
    BY <1>1, <1>4 DEF guard_bit, sticky_bit
<1>6. inexact(x, y) <=> r # 0
    BY <1>1, <1>5 DEF inexact
<1> HIDE DEF q, u, h, r, s, e
<1> DEFINE d == r * s
           v == h * s
           l == q * w
<1>7. w = 2 * v /\ v \in Nat \ {0} /\ d \in Nat /\ l \in Nat /\ (q + 1) * w = l + w
    <2>1. (2 * h) * s = 2 * (h * s)
        BY <1>1, <1>2
    <2>2. h * s \in Nat \ {0}
        BY <1>1, <1>2
    <2>3. w = 2 * v /\ v \in Nat \ {0}
        BY <1>1, <1>2, <2>1, <2>2
    <2> HIDE DEF v
    <2> QED BY <1>1, <1>2, <2>3
<1>8. e = l + d
    <2>1. (q * u + r) * s = q * (u * s) + r * s
        BY <1>1, <1>2
    <2> QED BY <1>1, <1>2, <1>3, <2>1
<1>9. d < w /\ (r = 0 <=> d = 0) /\ (r >= h <=> d >= v) /\ (r = h <=> d = v)
    <2>1. \A i, j \in Nat : \A k \in Nat \ {0} : /\ i < j <=> i * k < j * k
                                               /\ i = j <=> i * k = j * k
        OBVIOUS
    <2>2. 0 * s = 0
        BY <1>2
    <2>3. r < u <=> r * s < u * s
        BY <1>1, <1>2, <2>1
    <2>4. r < h <=> r * s < h * s
        BY <1>1, <1>2, <2>1
    <2>5. r = h <=> r * s = h * s
        BY <1>1, <1>2, <2>1
    <2>6. r = 0 <=> r * s = 0
        BY <1>1, <1>2
    <2>7. d \in Nat /\ v \in Nat /\ r \in Nat /\ h \in Nat /\ r < u
        BY <1>1, <1>7
    <2>8. d < w
        BY <1>2, <2>3, <2>7
    <2> HIDE DEF d, v
    <2>9. (r < h <=> d < v) /\ (r = h <=> d = v) /\ (r = 0 <=> d = 0)
        BY <2>4, <2>5, <2>6 DEF d, v
    <2> QED BY <2>7, <2>8, <2>9
<1> HIDE DEF d, v, l
<1>10. /\ e \in Nat /\ l <= e /\ e < l + w
       /\ r >= h <=> 2 * (e - l) >= w
       /\ r # 0 <=> e # l
       /\ r = h <=> 2 * (e - l) = w
    BY <1>7, <1>8, <1>9
<1>11. guard_bit(x, y) /\ ~sticky_bit(x, y) <=> r = h
    BY <1>1, <1>5
<1> QED BY <1>1, <1>5, <1>6, <1>7, <1>10, <1>11 DEF q, e, l

LEMMA ProductRange ==
    ASSUME NEW x, NEW y, Normal(x), Normal(y),
           NEW n, n = normalized_exponent(x, y)
    PROVE  /\ n \in Int /\ Exact(x, y) \in Nat /\ Exact(x, y) > 0
           /\ Infinite \in Nat /\ Smallest \in Nat
           /\ n >= MaxExp <=> Exact(x, y) >= Infinite
           /\ n < 1 <=> Exact(x, y) < Smallest
<1> DEFINE h == Hidden
           w == Scale(n)
           q == Kept(x, y)
           e == Exact(x, y)
<1>1. /\ n \in Exponents /\ n \in Int /\ h \in Nat \ {0} /\ MaxExp \in Nat /\ MaxExp >= 3
      /\ 0 \in Exponents /\ 1 \in Exponents /\ MaxExp \in Exponents /\ MaxExp - 1 \in Exponents
    BY ProductScale, OrdinaryExponents, SignificandType DEF Exponents
<1>2. q \in h..(2 * h - 1) /\ w \in Nat \ {0} /\ e \in Nat /\ q * w <= e /\ e < (q + 1) * w
    BY ProductNeighbours DEF Significands
<1>3. /\ Infinite = h * Scale(MaxExp) /\ Infinite = (2 * h) * Scale(MaxExp - 1)
      /\ Smallest = h * Scale(1) /\ Smallest = (2 * h) * Scale(0)
    BY <1>1, Extremes
<1>4. /\ Scale(0) \in Nat \ {0} /\ Scale(1) \in Nat \ {0}
      /\ Scale(MaxExp) \in Nat \ {0} /\ Scale(MaxExp - 1) \in Nat \ {0}
    BY <1>1, ScaleType
<1>5. /\ n >= MaxExp => Scale(MaxExp) <= w
      /\ n <= MaxExp - 1 => w <= Scale(MaxExp - 1)
      /\ n < 1 => w <= Scale(0)
      /\ n >= 1 => Scale(1) <= w
    <2>1. n < 1 => n <= 0
        BY <1>1
    <2> HIDE DEF w
    <2> QED BY <1>1, <2>1, ScaleMonotone DEF w
<1> HIDE DEF h, w, q, e
<1>6. \A i, j, k \in Nat : i <= j => k * i <= k * j /\ i * k <= j * k
    OBVIOUS
<1>7. /\ h * w <= e /\ e < (2 * h) * w /\ h * w \in Nat \ {0} /\ (2 * h) * w \in Nat
    <2>1. h \in Nat /\ q \in Nat /\ q + 1 \in Nat /\ 2 * h \in Nat /\ w \in Nat
          /\ h <= q /\ q + 1 <= 2 * h
        BY <1>1, <1>2
    <2>2. h * w <= q * w
        BY <1>6, <2>1
    <2>3. (q + 1) * w <= (2 * h) * w
        BY <1>6, <2>1
    <2>4. h * w \in Nat \ {0} /\ q * w \in Nat /\ (q + 1) * w \in Nat /\ (2 * h) * w \in Nat
        BY <1>1, <1>2, <2>1
    <2> QED BY <1>2, <2>2, <2>3, <2>4
<1>8. ASSUME NEW k \in Nat, k <= w PROVE h * k <= e
    <2>1. h * k <= h * w
        BY <1>1, <1>2, <1>6, <1>8
    <2>2. h * k \in Nat
        BY <1>1
    <2> QED BY <1>2, <1>7, <2>1, <2>2
<1>9. ASSUME NEW k \in Nat, w <= k PROVE e < (2 * h) * k
    <2>1. 2 * h \in Nat
        BY <1>1
    <2>2. (2 * h) * w <= (2 * h) * k
        BY <1>2, <1>6, <1>9, <2>1
    <2>3. (2 * h) * k \in Nat
        BY <2>1
    <2> QED BY <1>2, <1>7, <2>2, <2>3
<1>10. Infinite \in Nat /\ Smallest \in Nat
    BY <1>1, <1>3, <1>4
<1>11. /\ n >= MaxExp => e >= Infinite
       /\ n <= MaxExp - 1 => e < Infinite
       /\ n < 1 => e < Smallest
       /\ n >= 1 => e >= Smallest
    BY <1>2, <1>3, <1>4, <1>5, <1>8, <1>9, <1>10
<1>12. e > 0
    BY <1>2, <1>7
<1> QED BY <1>1, <1>2, <1>10, <1>11, <1>12 DEF e

-----------------------------------------------------------------------------
(* FloatMultiplier: rounding to one of two neighbours *)

LEMMA RoundedToNeighbour ==
    ASSUME NEW e \in Nat, NEW l \in Finite, NEW u \in Finite \cup {Infinite},
           NEW up \in BOOLEAN, NEW m, m = (IF up THEN u ELSE l),
           l \in Nat, u \in Nat, l <= e, e < u,
           \A v \in Finite \cup {Infinite} : v \in Nat /\ (v <= l \/ v >= u)
    PROVE  /\ ~up => RoundsDown(m, e)
           /\ (up <=> e # l) => RoundsUp(m, e)
           /\ (up => 2 * (e - l) >= u - l) /\ (~up => 2 * (e - l) <= u - l)
                 => /\ e >= Smallest => RoundsNear(m, e)
                    /\ Tie(m, e) => 2 * (e - l) = u - l
<1>1. ASSUME ~up PROVE RoundsDown(m, e)
    BY <1>1 DEF RoundsDown
<1>2. ASSUME up <=> e # l PROVE RoundsUp(m, e)
    <2>1. CASE up
        BY <1>2, <2>1 DEF RoundsUp
    <2>2. CASE ~up
        BY <1>2, <2>2 DEF RoundsUp
    <2> QED BY <2>1, <2>2
<1>3. ASSUME e >= Smallest, up => 2 * (e - l) >= u - l, ~up => 2 * (e - l) <= u - l,
             Smallest \in Nat
      PROVE  RoundsNear(m, e)
    <2>1. ASSUME NEW v \in Finite \cup {Infinite} PROVE Distance(m, e) <= Distance(v, e)
        <3>1. v \in Nat /\ (v <= l \/ v >= u)
            OBVIOUS
        <3>2. CASE up
            BY <1>3, <3>1, <3>2 DEF Distance
        <3>3. CASE ~up
            BY <1>3, <3>1, <3>3 DEF Distance
        <3> QED BY <3>2, <3>3
    <2> QED BY <1>3, <2>1 DEF RoundsNear
<1>4. ASSUME Tie(m, e), up => 2 * (e - l) >= u - l, ~up => 2 * (e - l) <= u - l
      PROVE  2 * (e - l) = u - l
    <2>1. PICK v \in Finite \cup {Infinite} : v # m /\ Distance(m, e) = Distance(v, e)
        BY <1>4 DEF Tie
    <2>2. v \in Nat /\ (v <= l \/ v >= u)
        OBVIOUS
    <2>3. CASE up
        BY <1>4, <2>1, <2>2, <2>3 DEF Distance
    <2>4. CASE ~up
        BY <1>4, <2>1, <2>2, <2>4 DEF Distance
    <2> QED BY <2>3, <2>4
<1>5. Smallest \in Nat
    BY Extremes, ScaleType, OrdinaryExponents, SignificandType
<1> QED BY <1>1, <1>2, <1>3, <1>4, <1>5

LEMMA Increases ==
    ASSUME NEW x \in Floats, NEW y \in Floats, NEW mode \in Modes
    PROVE  /\ increase_mantissa(x, y, mode) \in BOOLEAN
           /\ increase_mantissa(x, y, mode) => inexact(x, y) /\ HugeResult(z_sign(x, y), mode) = "INF"
           /\ mode \in {"IEEE_near", "near_up"} =>
                 /\ increase_mantissa(x, y, mode) => guard_bit(x, y)
                 /\ ~increase_mantissa(x, y, mode) => ~guard_bit(x, y) \/ ~sticky_bit(x, y)
                 /\ guard_bit(x, y) /\ ~sticky_bit(x, y) =>
                       (increase_mantissa(x, y, mode) <=>
                          IF mode = "IEEE_near" THEN Kept(x, y) % 2 = 1 ELSE z_sign(x, y) = 0)
           /\ mode \notin {"IEEE_near", "near_up"} =>
                 IF \/ mode = "IEEE_zero"
                    \/ mode = "IEEE_pinf" /\ z_sign(x, y) = 1
                    \/ mode = "IEEE_ninf" /\ z_sign(x, y) = 0
                 THEN ~increase_mantissa(x, y, mode) /\ HugeResult(z_sign(x, y), mode) = "MAX_NORM"
                      /\ TinyResult(z_sign(x, y), mode) = "ZERO"
                 ELSE (increase_mantissa(x, y, mode) <=> inexact(x, y))
                      /\ HugeResult(z_sign(x, y), mode) = "INF"
                      /\ TinyResult(z_sign(x, y), mode) = "MIN_NORM"
           /\ mode \in {"IEEE_near", "near_up"} =>
                 HugeResult(z_sign(x, y), mode) = "INF" /\ TinyResult(z_sign(x, y), mode) = "ZERO"
<1> DEFINE s == z_sign(x, y)
           g == guard_bit(x, y)
           st == sticky_bit(x, y)
<1>1. g \in BOOLEAN /\ st \in BOOLEAN /\ inexact(x, y) = (g \/ st)
    BY DEF inexact, guard_bit, sticky_bit
<1>2. s \in 0..1
    <2>1. x.sign \in 0..1 /\ y.sign \in 0..1
        BY DEF Floats
    <2> QED BY <2>1 DEF z_sign
<1>3. normalized_mantissa(x, y) % 2 = Kept(x, y) % 2
    <2> DEFINE k == Hidden \div 2
    <2>1. k \in Nat /\ Hidden = 2 * k /\ Kept(x, y) \in Nat /\ Hidden <= Kept(x, y)
          /\ normalized_mantissa(x, y) = Kept(x, y) - Hidden
        BY ProductFacts, FormatFacts
    <2> HIDE DEF k
    <2> QED BY <2>1
<1> HIDE DEF s, g, st
<1>4. CASE mode = "IEEE_near"
    BY <1>1, <1>2, <1>3, <1>4 DEF increase_mantissa, HugeResult, TinyResult, s, g, st
<1>5. CASE mode = "IEEE_zero"
    BY <1>1, <1>2, <1>5 DEF increase_mantissa, HugeResult, TinyResult, s, g, st
<1>6. CASE mode = "IEEE_pinf"
    <2>1. CASE s = 0
        BY <1>1, <1>6, <2>1 DEF increase_mantissa, HugeResult, TinyResult, s, g, st
    <2>2. CASE s = 1
        BY <1>1, <1>6, <2>2 DEF increase_mantissa, HugeResult, TinyResult, s, g, st
    <2> QED BY <1>2, <2>1, <2>2
<1>7. CASE mode = "IEEE_ninf"
    <2>1. CASE s = 0
        BY <1>1, <1>7, <2>1 DEF increase_mantissa, HugeResult, TinyResult, s, g, st
    <2>2. CASE s = 1
        BY <1>1, <1>7, <2>2 DEF increase_mantissa, HugeResult, TinyResult, s, g, st
    <2> QED BY <1>2, <2>1, <2>2
<1>8. CASE mode = "near_up"
    <2>1. increase_mantissa(x, y, mode) = (g /\ (st \/ s = 0))
        BY <1>8 DEF increase_mantissa, s, g, st
    <2>2. HugeResult(s, mode) = "INF" /\ TinyResult(s, mode) = "ZERO"
        BY <1>8 DEF HugeResult, TinyResult
    <2> QED BY <1>1, <1>8, <2>1, <2>2 DEF s, g, st
<1>9. CASE mode = "away_zero"
    BY <1>1, <1>2, <1>9 DEF increase_mantissa, HugeResult, TinyResult, s, g, st
<1> QED BY <1>4, <1>5, <1>6, <1>7, <1>8, <1>9 DEF Modes

LEMMA Branches ==
    ASSUME NEW x, NEW y, Normal(x), Normal(y), NEW mode,
           NEW n, n = normalized_exponent(x, y)
    PROVE  Exception(x, y, mode) = (IF n + Carry(x, y, mode) >= MaxExp THEN "huge"
                                    ELSE IF n < 1 THEN "tiny" ELSE "none")
<1>1. x \in Floats /\ y \in Floats /\ n \in Int /\ Carry(x, y, mode) \in 0..1 /\ MaxExp \in Nat
    BY RoundingFacts, ExponentFacts, OrdinaryExponents DEF Normal
<1>2. {num_interp(x), num_interp(y)} = {"NORM"}
    BY DEF Normal
<1>3. overflow_bit(x, y, mode) <=> n + Carry(x, y, mode) >= MaxExp
    BY <1>1, RoundingFacts DEF overflow_bit
<1>4. underflow_bit(x, y) <=> n < 1
    BY DEF underflow_bit
<1>5. Exception(x, y, mode) = (IF overflow_bit(x, y, mode) THEN "huge"
                               ELSE IF underflow_bit(x, y) THEN "tiny" ELSE "none")
    <2>1. {"NORM"} # {"ZERO", "INF"} /\ "ZERO" \notin {"NORM"} /\ "INF" \notin {"NORM"}
        OBVIOUS
    <2> QED BY <1>2, <2>1 DEF Exception
<1> QED BY <1>3, <1>4, <1>5

\* Where the exponent of the product is that of a finite number, the result is one of
\* the two neighbours, a carry or the infinite result included.
LEMMA NeighbourResult ==
    ASSUME NEW x, NEW y, Normal(x), Normal(y), NEW mode \in Modes,
           NEW n, n = normalized_exponent(x, y), 1 <= n, n < MaxExp,
           NEW l, l = Kept(x, y) * Scale(n), NEW u, u = (Kept(x, y) + 1) * Scale(n)
    PROVE  /\ l \in Finite /\ u \in Finite \cup {Infinite}
           /\ Magnitude(z(x, y, mode)) = (IF increase_mantissa(x, y, mode) THEN u ELSE l)
           /\ z(x, y, mode).sign = z_sign(x, y)
           /\ z(x, y, mode).frac % 2 =
                 (Kept(x, y) + (IF increase_mantissa(x, y, mode) THEN 1 ELSE 0)) % 2
           /\ Exception(x, y, mode) \in {"none", "huge"}
           /\ Exception(x, y, mode) = "none" => z(x, y, mode).exp \in 1..(MaxExp - 1)
           /\ Exception(x, y, mode) = "huge" =>
                 increase_mantissa(x, y, mode) /\ z(x, y, mode).exp = MaxExp
                 /\ l = (2 * Hidden - 1) * Scale(MaxExp - 1)
<1> DEFINE h == Hidden
           q == Kept(x, y)
           w == Scale(n)
           inc == increase_mantissa(x, y, mode)
           g == rounding_result(x, y, mode)
           c == Carry(x, y, mode)
           r == z(x, y, mode)
           s == z_sign(x, y)
<1>1. /\ x \in Floats /\ y \in Floats /\ n \in Int /\ MaxExp \in Nat /\ MaxExp >= 3
      /\ h \in Nat \ {0} /\ h % 2 = 0 /\ (2 * h) % 2 = 0 /\ n \in Exponents
      /\ 2^ExpBits = MaxExp + 1
    <2>1. h \in Nat \ {0} /\ h \div 2 \in Nat /\ h = 2 * (h \div 2)
        BY FormatFacts
    <2>2. \A i \in Nat : (2 * i) % 2 = 0
        OBVIOUS
    <2>3. h % 2 = 0 /\ (2 * h) % 2 = 0
        <3> HIDE DEF h
        <3> QED BY <2>1, <2>2
    <2>4. n \in Exponents
        BY ProductScale
    <2> QED BY <2>1, <2>3, <2>4, FormatFacts, OrdinaryExponents DEF Normal, Exponents
<1>2. /\ q \in Significands /\ q \in h..(2 * h - 1) /\ w \in Nat \ {0}
      /\ Scale(n + 1) = 2 * w /\ inc \in BOOLEAN
    BY <1>1, ProductFacts, ScaleType, Increases DEF Significands
<1>3. /\ g = q + (IF inc THEN 1 ELSE 0) /\ g \in h..(2 * h)
      /\ c = (IF g = 2 * h THEN 1 ELSE 0)
      /\ post_round_exponent(x, y, mode) = n + c
    BY <1>1, RoundingFacts
<1>4. HugeResult(s, mode) = "INF" \/ ~inc
    BY <1>1, Increases
<1>5. post_round_mantissa(x, y, mode) = g \div (1 + c)
    BY DEF post_round_mantissa
<1>6. Exception(x, y, mode) = (IF n + c >= MaxExp THEN "huge"
                               ELSE IF n < 1 THEN "tiny" ELSE "none")
    BY Branches
<1> HIDE DEF h, q, w, inc, g, c, s
<1>7. l \in Finite
    <2>1. n \in 1..(MaxExp - 1)
        BY <1>1
    <2> QED BY <1>2, <2>1, FiniteForm DEF q, w
<1>8. u = (IF q = 2 * h - 1 THEN h * Scale(n + 1) ELSE (q + 1) * w)
    <2>1. CASE q = 2 * h - 1
        <3>1. (2 * h - 1) + 1 = 2 * h
            BY <1>1
        <3>2. (2 * h) * w = h * (2 * w)
            BY <1>1, <1>2
        <3> QED BY <1>2, <2>1, <3>1, <3>2 DEF q, w
    <2> QED BY <2>1 DEF q, w
<1>9. u \in Finite \cup {Infinite}
    <2>1. CASE q = 2 * h - 1 /\ n + 1 = MaxExp
        BY <1>8, <2>1, Extremes DEF h
    <2>2. CASE q = 2 * h - 1 /\ n + 1 # MaxExp
        <3>1. n + 1 \in 1..(MaxExp - 1) /\ h \in Significands
            BY <1>1, <2>2 DEF Significands, h
        <3> QED BY <1>8, <2>2, <3>1, FiniteForm
    <2>3. CASE q # 2 * h - 1
        <3>1. n \in 1..(MaxExp - 1) /\ q + 1 \in Significands
            BY <1>1, <1>2, <2>3 DEF Significands, h
        <3> QED BY <1>8, <2>3, <3>1, FiniteForm DEF w
    <2> QED BY <2>1, <2>2, <2>3
<1>10. CASE n + c >= MaxExp
    <2>1. n + 1 = MaxExp /\ n = MaxExp - 1 /\ inc /\ q = 2 * h - 1
        BY <1>1, <1>2, <1>3, <1>10
    <2>2. Exception(x, y, mode) = "huge" /\ HugeResult(s, mode) = "INF"
        BY <1>4, <1>6, <1>10, <2>1
    <2>3. r = z_num(s, "INF")
        BY <2>2 DEF z, s
    <2>4. s \in 0..1
        <3>1. x.sign \in 0..1 /\ y.sign \in 0..1
            BY <1>1 DEF Floats
        <3> QED BY <3>1 DEF z_sign, s
    <2>5. r.sign = s /\ r.exp = MaxExp /\ r.frac = 0 /\ Magnitude(r) = Infinite
        BY <2>3, <2>4, Extremes DEF z_num
    <2>6. u = Infinite
        BY <1>8, <2>1, Extremes DEF h
    <2>7. (q + 1) % 2 = 0 /\ 0 % 2 = 0
        <3>1. q + 1 = 2 * h
            BY <1>1, <2>1
        <3> QED BY <1>1, <3>1
    <2>8. l = (2 * h - 1) * Scale(MaxExp - 1)
        BY <2>1 DEF q, w
    <2> HIDE DEF r
    <2> QED BY <1>7, <1>9, <2>1, <2>2, <2>5, <2>6, <2>7, <2>8 DEF q, inc, s, r, h
<1>11. CASE ~(n + c >= MaxExp)
    <2>1. c \in 0..1 /\ n + c \in 1..(MaxExp - 1)
        BY <1>1, <1>3, <1>11
    <2>2. Exception(x, y, mode) = "none"
        BY <1>1, <1>6, <1>11
    <2>3. r = z_calc(x, y, mode)
        BY <2>2 DEF z
    <2>4. /\ r.sign = s /\ r.exp = (n + c) % (MaxExp + 1)
          /\ r.frac = (g \div (1 + c)) % h
        BY <1>1, <1>3, <1>5, <2>3 DEF z_calc, s, h
    <2>5. r.exp = n + c
        <3>1. \A i \in Nat : \A j \in 0..i : j % (i + 1) = j
            OBVIOUS
        <3>2. n + c \in 0..MaxExp
            BY <1>1, <2>1
        <3> QED BY <1>1, <2>4, <3>1, <3>2
    <2> HIDE DEF r
    <2>6. r.frac = (IF c = 1 THEN 0 ELSE g - h)
        <3>1. \A i \in Nat \ {0} : \A j \in i..(2 * i - 1) : j % i = j - i
            OBVIOUS
        <3>2. CASE c = 1
            <4>1. g = 2 * h /\ (2 * h) \div 2 = h /\ h % h = 0
                BY <1>1, <1>3, <3>2
            <4> QED BY <2>4, <3>2, <4>1
        <3>3. CASE c = 0
            <4>1. g \in h..(2 * h - 1) /\ g \div 1 = g /\ 1 + c = 1
                BY <1>1, <1>3, <3>3
            <4>2. g % h = g - h
                BY <1>1, <3>1, <4>1
            <4>3. r.frac = g % h
                BY <2>4, <4>1
            <4> QED BY <3>3, <4>2, <4>3
        <3> QED BY <2>1, <3>2, <3>3
    <2>7. Magnitude(r) = g * w
        <3>1. Magnitude(r) = (h + r.frac) * Scale(n + c)
            <4>1. r.exp # 0
                BY <2>1, <2>5
            <4> QED BY <2>5, <4>1 DEF Magnitude, Scale, h
        <3>2. CASE c = 1
            <4>1. g = 2 * h /\ h + 0 = h /\ Scale(n + c) = 2 * w
                BY <1>1, <1>2, <1>3, <3>2
            <4>2. h * (2 * w) = (2 * h) * w
                BY <1>1, <1>2
            <4> QED BY <2>6, <3>1, <3>2, <4>1, <4>2
        <3>3. CASE c = 0
            <4>1. h + (g - h) = g /\ n + c = n
                BY <1>1, <1>3, <3>3
            <4> QED BY <2>6, <3>1, <3>3, <4>1 DEF w
        <3> QED BY <2>1, <3>2, <3>3
    <2>8. g * w = (IF inc THEN u ELSE l)
        BY <1>2, <1>3 DEF q, w
    <2>9. r.frac % 2 = (q + (IF inc THEN 1 ELSE 0)) % 2
        <3> DEFINE k == h \div 2
        <3>1. h = 2 * k /\ k \in Nat /\ g \in Nat /\ g >= h
            BY <1>1, <1>3, FormatFacts DEF h
        <3>2. (g - h) % 2 = g % 2
            <4> HIDE DEF k
            <4> QED BY <3>1
        <3>3. c = 1 => g % 2 = 0
            BY <1>1, <1>3
        <3>4. 0 % 2 = 0
            OBVIOUS
        <3> QED BY <1>3, <2>1, <2>6, <3>2, <3>3, <3>4
    <2> QED BY <1>7, <1>9, <2>1, <2>2, <2>4, <2>5, <2>7, <2>8, <2>9 DEF q, inc, s, r
<1> QED BY <1>10, <1>11

LEMMA Ends ==
    ASSUME NEW top, top = (2 * Hidden - 1) * Scale(MaxExp - 1)
    PROVE  /\ top \in Finite /\ top \in Nat /\ Infinite \in Nat /\ top < Infinite
           /\ 0 \in Finite /\ Smallest \in Finite /\ Smallest \in Nat \ {0}
           /\ \A v \in Finite : v \in Nat /\ v <= top /\ (v = 0 \/ v >= Smallest)
<1> DEFINE h == Hidden
           w == Scale(MaxExp - 1)
<1>1. /\ h \in Nat \ {0} /\ 2 * h - 1 \in Significands /\ h \in Significands
      /\ MaxExp \in Nat /\ MaxExp - 1 \in 1..(MaxExp - 1) /\ 1 \in 1..(MaxExp - 1)
      /\ MaxExp - 1 \in Exponents /\ 1 \in Exponents
    BY SignificandType, OrdinaryExponents DEF Significands
<1>2. w \in Nat \ {0} /\ Scale(1) \in Nat \ {0}
    BY <1>1, ScaleType
<1>3. top \in Finite /\ 0 \in Finite /\ Smallest \in Finite
    BY <1>1, FiniteForm, Extremes
<1>4. top \in Nat /\ Infinite \in Nat /\ top < Infinite
    <2>1. \A i \in Nat : i * w \in Nat /\ i * w < (i + 1) * w
        <3> HIDE DEF w
        <3> QED BY <1>2
    <2>2. 2 * h - 1 \in Nat
        BY <1>1
    <2> QED BY <1>1, <2>1, <2>2, Extremes
<1>5. Smallest \in Nat \ {0}
    <2>1. \A i, j \in Nat \ {0} : i * j \in Nat \ {0}
        OBVIOUS
    <2> QED BY <1>1, <1>2, <2>1, Extremes
<1>6. ASSUME NEW v \in Finite PROVE v \in Nat /\ v <= top /\ (v = 0 \/ v >= Smallest)
    <2>1. CASE v = 0
        BY <1>4, <2>1
    <2>2. CASE v # 0
        <3>1. PICK g \in Significands, k \in 1..(MaxExp - 1) : v = g * Scale(k)
            BY <2>2, FiniteForm
        <3>2. /\ k \in Exponents /\ Scale(k) \in Nat /\ g \in Nat /\ h <= g /\ g <= 2 * h - 1
              /\ Scale(1) <= Scale(k) /\ Scale(k) <= w
            <4>1. k \in Exponents /\ 1 <= k /\ k <= MaxExp - 1
                BY <1>1, OrdinaryExponents
            <4> QED BY <1>1, <4>1, ScaleType, ScaleMonotone DEF Significands
        <3> DEFINE s == Scale(k)
                   o == Scale(1)
        <3>3. s \in Nat /\ o \in Nat /\ o <= s /\ s <= w /\ v = g * s
              /\ top = (2 * h - 1) * w /\ Smallest = h * o
            BY <1>2, <3>1, <3>2, Extremes
        <3> HIDE DEF s, o, h, w
        <3>4. \A i, j, k1, k2 \in Nat : i <= j /\ k1 <= k2 => i * k1 <= j * k2
            <4>1. \A i, j, l \in Nat : i <= j => i * l <= j * l /\ l * i <= l * j
                OBVIOUS
            <4>2. \A i, j, l \in Nat : i * l \in Nat
                OBVIOUS
            <4> SUFFICES ASSUME NEW i \in Nat, NEW j \in Nat, NEW k1 \in Nat, NEW k2 \in Nat,
                                i <= j, k1 <= k2
                         PROVE  i * k1 <= j * k2
                OBVIOUS
            <4>3. i * k1 <= j * k1 /\ j * k1 <= j * k2
                BY <4>1
            <4> QED BY <4>2, <4>3
        <3>5. g * s <= (2 * h - 1) * w /\ h * o <= g * s /\ g * s \in Nat
            <4>1. 2 * h - 1 \in Nat /\ h \in Nat /\ w \in Nat
                BY <1>1, <1>2
            <4> QED BY <3>2, <3>3, <3>4, <4>1
        <3> QED BY <3>3, <3>5
    <2> QED BY <2>1, <2>2
<1> QED BY <1>3, <1>4, <1>5, <1>6

LEMMA SignType ==
    ASSUME NEW x \in Floats, NEW y \in Floats
    PROVE  z_sign(x, y) \in 0..1 /\ z_sign(x, y) = (IF x.sign = y.sign THEN 0 ELSE 1)
<1>1. x.sign \in 0..1 /\ y.sign \in 0..1
    BY DEF Floats
<1> QED BY <1>1 DEF z_sign

\* The three ranges of the exponent, and what the multiplier returns in each.
LEMMA ProductResult ==
    ASSUME NEW x, NEW y, Normal(x), Normal(y), NEW mode \in Modes,
           NEW s, s = z_sign(x, y), NEW n, n = normalized_exponent(x, y)
    PROVE  /\ n >= MaxExp => /\ Exception(x, y, mode) = "huge"
                             /\ z(x, y, mode) = z_num(s, HugeResult(s, mode))
           /\ n < 1 => /\ Exception(x, y, mode) = "tiny"
                       /\ z(x, y, mode) = z_num(s, TinyResult(s, mode))
<1>1. n \in Int /\ Carry(x, y, mode) \in 0..1 /\ MaxExp \in Nat /\ MaxExp >= 3
    BY ExponentFacts, RoundingFacts, OrdinaryExponents DEF Normal
<1>2. Exception(x, y, mode) = (IF n + Carry(x, y, mode) >= MaxExp THEN "huge"
                               ELSE IF n < 1 THEN "tiny" ELSE "none")
    BY Branches
<1>3. n >= MaxExp => Exception(x, y, mode) = "huge"
    BY <1>1, <1>2
<1>4. n < 1 => Exception(x, y, mode) = "tiny"
    BY <1>1, <1>2
<1>5. n >= MaxExp => z(x, y, mode) = z_num(s, HugeResult(s, mode))
    BY <1>3 DEF z
<1>6. n < 1 => z(x, y, mode) = z_num(s, TinyResult(s, mode))
    BY <1>4 DEF z
<1> QED BY <1>3, <1>4, <1>5, <1>6

LEMMA RoundedProduct ==
    ASSUME NEW x, NEW y, Normal(x), Normal(y), NEW mode \in Modes,
           NEW s, s = z_sign(x, y), NEW r, r = z(x, y, mode), NEW e, e = Exact(x, y),
           NEW toward \in BOOLEAN,
           toward <=> \/ mode = "IEEE_zero"
                      \/ mode = "IEEE_pinf" /\ s = 1
                      \/ mode = "IEEE_ninf" /\ s = 0
    PROVE  /\ r.sign = s
           /\ toward => RoundsDown(Magnitude(r), e)
           /\ mode \in {"IEEE_near", "near_up"} =>
                 /\ RoundsNear(Magnitude(r), e)
                 /\ e >= Smallest /\ Tie(Magnitude(r), e) =>
                       IF mode = "IEEE_near" THEN r.frac % 2 = 0 ELSE (Magnitude(r) > e) = (s = 0)
           /\ ~toward /\ mode \notin {"IEEE_near", "near_up"} => RoundsUp(Magnitude(r), e)
<1> DEFINE n == normalized_exponent(x, y)
           m == Magnitude(r)
           top == (2 * Hidden - 1) * Scale(MaxExp - 1)
           near == mode \in {"IEEE_near", "near_up"}
<1>1. /\ x \in Floats /\ y \in Floats /\ s \in 0..1 /\ n \in Int /\ MaxExp \in Nat
      /\ e \in Nat /\ e > 0 /\ Infinite \in Nat /\ Smallest \in Nat
      /\ n >= MaxExp <=> e >= Infinite
      /\ n < 1 <=> e < Smallest
    BY SignType, ProductRange, OrdinaryExponents DEF Normal
<1>2. /\ top \in Finite /\ top \in Nat /\ top < Infinite
      /\ 0 \in Finite /\ Smallest \in Finite
      /\ \A v \in Finite : v \in Nat /\ v <= top /\ (v = 0 \/ v >= Smallest)
    BY Ends
<1>3. /\ near => HugeResult(s, mode) = "INF" /\ TinyResult(s, mode) = "ZERO" /\ ~toward
      /\ toward => HugeResult(s, mode) = "MAX_NORM" /\ TinyResult(s, mode) = "ZERO"
      /\ ~near /\ ~toward => HugeResult(s, mode) = "INF" /\ TinyResult(s, mode) = "MIN_NORM"
    BY <1>1, Increases
<1>4. /\ z_num(s, "INF").sign = s /\ z_num(s, "ZERO").sign = s
      /\ z_num(s, "MIN_NORM").sign = s /\ z_num(s, "MAX_NORM").sign = s
      /\ z_num(s, "INF").frac = 0
      /\ Magnitude(z_num(s, "INF")) = Infinite /\ Magnitude(z_num(s, "ZERO")) = 0
      /\ Magnitude(z_num(s, "MIN_NORM")) = Smallest /\ Magnitude(z_num(s, "MAX_NORM")) = top
    BY <1>1, Extremes DEF z_num
<1>5. CASE n >= MaxExp
    <2>1. r = z_num(s, HugeResult(s, mode)) /\ e >= Infinite /\ e >= Smallest
        BY <1>1, <1>5, ProductResult, OrdinaryExponents
    <2>2. r.sign = s
        BY <1>3, <1>4, <2>1
    <2>3. ASSUME toward PROVE RoundsDown(m, e)
        <3>1. m = top
            BY <1>3, <1>4, <2>1, <2>3
        <3> HIDE DEF m, top
        <3>2. m \in Finite /\ m <= e /\ \A v \in Finite : v <= e => v <= m
            BY <1>1, <1>2, <2>1, <3>1
        <3> QED BY <3>2 DEF RoundsDown
    <2>4. ASSUME ~toward, ~near PROVE RoundsUp(m, e)
        BY <1>1, <1>2, <1>3, <1>4, <2>1, <2>4 DEF RoundsUp
    <2>5. ASSUME near PROVE RoundsNear(m, e) /\ ~Tie(m, e)
        <3>1. m = Infinite
            BY <1>3, <1>4, <2>1, <2>5
        <3>2. ASSUME NEW v \in Finite PROVE Distance(m, e) < Distance(v, e)
            BY <1>1, <1>2, <2>1, <3>1 DEF Distance
        <3>3. Distance(m, e) \in Nat /\ ~(e < Smallest)
            BY <1>1, <2>1, <3>1 DEF Distance
        <3>4. RoundsNear(m, e)
            <4>1. ASSUME NEW v \in Finite \cup {Infinite} PROVE Distance(m, e) <= Distance(v, e)
                <5>1. CASE v = Infinite
                    BY <3>1, <3>3, <5>1
                <5>2. CASE v \in Finite
                    <6>1. Distance(v, e) \in Nat
                        BY <1>1, <1>2, <5>2 DEF Distance
                    <6> QED BY <3>2, <3>3, <5>2, <6>1
                <5> QED BY <5>1, <5>2
            <4> QED BY <3>3, <4>1 DEF RoundsNear
        <3>5. ~Tie(m, e)
            BY <1>1, <1>2, <3>1, <3>2, <3>3 DEF Tie
        <3> QED BY <3>4, <3>5
    <2> QED BY <1>3, <2>2, <2>3, <2>4, <2>5
<1>6. CASE n < 1
    <2>1. r = z_num(s, TinyResult(s, mode)) /\ e < Smallest
        BY <1>1, <1>6, ProductResult
    <2>2. r.sign = s
        BY <1>3, <1>4, <2>1
    <2>3. ASSUME toward PROVE RoundsDown(m, e)
        <3>1. m = 0
            BY <1>3, <1>4, <2>1, <2>3
        <3> HIDE DEF m, top
        <3>2. m \in Finite /\ m <= e /\ \A v \in Finite : v <= e => v <= m
            BY <1>1, <1>2, <2>1, <3>1
        <3> QED BY <3>2 DEF RoundsDown
    <2>4. ASSUME ~toward, ~near PROVE RoundsUp(m, e)
        BY <1>1, <1>2, <1>3, <1>4, <2>1, <2>4 DEF RoundsUp
    <2>5. ASSUME near PROVE RoundsNear(m, e) /\ ~(e >= Smallest)
        BY <1>1, <1>3, <1>4, <2>1, <2>5 DEF RoundsNear
    <2> QED BY <1>3, <2>2, <2>3, <2>4, <2>5
<1>7. CASE 1 <= n /\ n < MaxExp
    <2> DEFINE q == Kept(x, y)
               w == Scale(n)
               l == q * w
               u == (q + 1) * w
               inc == increase_mantissa(x, y, mode)
    <2>1. /\ l \in Finite /\ u \in Finite \cup {Infinite} /\ m = (IF inc THEN u ELSE l)
          /\ r.sign = s /\ r.frac % 2 = (q + (IF inc THEN 1 ELSE 0)) % 2
        BY <1>7, NeighbourResult
    <2>2. /\ q \in Significands /\ q \in Nat /\ w \in Nat \ {0} /\ l <= e /\ e < u
          /\ guard_bit(x, y) <=> 2 * (e - l) >= w
          /\ inexact(x, y) <=> e # l
          /\ guard_bit(x, y) /\ ~sticky_bit(x, y) <=> 2 * (e - l) = w
        <3>1. q \in Nat
            BY SignificandType, ProductNeighbours
        <3> QED BY <3>1, ProductNeighbours
    <2>3. /\ l \in Nat /\ u \in Nat /\ u - l = w
          /\ \A v \in Finite \cup {Infinite} : v \in Nat /\ (v <= l \/ v >= u)
        <3>1. n \in Exponents
            BY ProductScale
        <3>2. \A i, j \in Nat : i * j \in Nat /\ (i + 1) * j \in Nat /\ (i + 1) * j - i * j = j
            OBVIOUS
        <3>3. l \in Nat /\ u \in Nat /\ u - l = w
            <4> HIDE DEF q, w
            <4> QED BY <2>2, <3>2
        <3>4. ASSUME NEW v \in Finite \cup {Infinite} PROVE v \in Nat /\ (v <= l \/ v >= u)
            BY <2>2, <3>1, Gap
        <3> QED BY <3>3, <3>4
    <2>4. /\ inc \in BOOLEAN
          /\ near => /\ inc => guard_bit(x, y)
                     /\ ~inc => ~guard_bit(x, y) \/ ~sticky_bit(x, y)
                     /\ guard_bit(x, y) /\ ~sticky_bit(x, y) =>
                           (inc <=> IF mode = "IEEE_near" THEN q % 2 = 1 ELSE s = 0)
          /\ toward => ~inc
          /\ ~near /\ ~toward => (inc <=> inexact(x, y))
        BY <1>1, <1>3, Increases
    <2>5. e >= Smallest
        BY <1>1, <1>7
    <2> HIDE DEF n, m, top, q, w, l, u, inc
    <2>6. /\ ~inc => RoundsDown(m, e)
          /\ (inc <=> e # l) => RoundsUp(m, e)
          /\ (inc => 2 * (e - l) >= u - l) /\ (~inc => 2 * (e - l) <= u - l)
                => RoundsNear(m, e) /\ (Tie(m, e) => 2 * (e - l) = u - l)
        BY <1>1, <2>1, <2>2, <2>3, <2>4, <2>5, RoundedToNeighbour
    <2>7. ASSUME near
          PROVE  /\ RoundsNear(m, e)
                 /\ Tie(m, e) => IF mode = "IEEE_near" THEN r.frac % 2 = 0 ELSE (m > e) = (s = 0)
        <3>1. (inc => 2 * (e - l) >= u - l) /\ (~inc => 2 * (e - l) <= u - l)
            BY <1>1, <2>2, <2>3, <2>4, <2>7
        <3>2. RoundsNear(m, e) /\ (Tie(m, e) => 2 * (e - l) = u - l)
            BY <2>6, <3>1
        <3>3. ASSUME Tie(m, e) PROVE inc <=> IF mode = "IEEE_near" THEN q % 2 = 1 ELSE s = 0
            BY <2>2, <2>3, <2>4, <2>7, <3>2, <3>3
        <3>4. ASSUME Tie(m, e), mode = "IEEE_near" PROVE r.frac % 2 = 0
            <4>1. \A i \in Nat : IF i % 2 = 1 THEN (i + 1) % 2 = 0 ELSE (i + 0) % 2 = 0
                OBVIOUS
            <4> QED BY <2>1, <2>2, <3>3, <3>4, <4>1
        <3>5. ASSUME Tie(m, e), mode # "IEEE_near" PROVE (m > e) = (s = 0)
            <4>1. inc <=> s = 0
                BY <3>3, <3>5
            <4>2. inc <=> m > e
                BY <1>1, <2>1, <2>2, <2>3, <2>4
            <4>3. (m > e) \in BOOLEAN
                BY <1>1, <2>1, <2>3
            <4> QED BY <4>1, <4>2, <4>3
        <3> QED BY <3>2, <3>4, <3>5
    <2>8. (toward => RoundsDown(m, e)) /\ (~near /\ ~toward => RoundsUp(m, e))
        BY <2>2, <2>4, <2>6
    <2> QED BY <1>3, <2>1, <2>7, <2>8 DEF m
<1> QED BY <1>1, <1>5, <1>6, <1>7

\* In every format and mode the product of two normal numbers is the exact product,
\* rounded once: guard and sticky bit place it between two neighbours, Gap says that
\* no value of the format lies between those, and a carry leads to the upper one.
THEOREM ProductsAreRounded == Bench => []CorrectlyRounded
<1>1. InputsOK => CorrectlyRounded
    <2> SUFFICES ASSUME InputsOK, num_interp(a) = "NORM", num_interp(b) = "NORM"
                 PROVE  CorrectlyRounded
        BY DEF CorrectlyRounded
    <2> DEFINE r == z(a, b, rnd)
               s == z_sign(a, b)
               toward == \/ rnd = "IEEE_zero"
                         \/ rnd = "IEEE_pinf" /\ s = 1
                         \/ rnd = "IEEE_ninf" /\ s = 0
    <2>1. Normal(a) /\ Normal(b) /\ a \in Floats /\ b \in Floats /\ rnd \in Modes
        BY DEF InputsOK, Normal
    <2>2. s = (IF a.sign = b.sign THEN 0 ELSE 1)
        BY <2>1, SignType
    <2>3. /\ r.sign = s
          /\ toward => RoundsDown(Magnitude(r), Exact(a, b))
          /\ rnd \in {"IEEE_near", "near_up"} =>
                /\ RoundsNear(Magnitude(r), Exact(a, b))
                /\ Exact(a, b) >= Smallest /\ Tie(Magnitude(r), Exact(a, b)) =>
                      IF rnd = "IEEE_near" THEN r.frac % 2 = 0
                      ELSE (Magnitude(r) > Exact(a, b)) = (s = 0)
          /\ ~toward /\ rnd \notin {"IEEE_near", "near_up"} => RoundsUp(Magnitude(r), Exact(a, b))
        <3>1. /\ toward \in BOOLEAN
              /\ toward <=> \/ rnd = "IEEE_zero"
                            \/ rnd = "IEEE_pinf" /\ s = 1
                            \/ rnd = "IEEE_ninf" /\ s = 0
            OBVIOUS
        <3> DEFINE e == Exact(a, b)
        <3>2. s = z_sign(a, b) /\ r = z(a, b, rnd) /\ e = Exact(a, b)
            OBVIOUS
        <3> HIDE DEF toward, s, r, e
        <3>3. /\ r.sign = s
              /\ toward => RoundsDown(Magnitude(r), e)
              /\ rnd \in {"IEEE_near", "near_up"} =>
                    /\ RoundsNear(Magnitude(r), e)
                    /\ e >= Smallest /\ Tie(Magnitude(r), e) =>
                          IF rnd = "IEEE_near" THEN r.frac % 2 = 0
                          ELSE (Magnitude(r) > e) = (s = 0)
              /\ ~toward /\ rnd \notin {"IEEE_near", "near_up"} => RoundsUp(Magnitude(r), e)
            BY <2>1, <3>1, <3>2, RoundedProduct
        <3> QED BY <3>3 DEF e
    <2> HIDE DEF r, s
    <2>4. CASE toward
        <3>1. rnd \notin {"IEEE_near", "near_up"}
            BY <2>4
        <3> QED BY <2>2, <2>3, <2>4, <3>1 DEF CorrectlyRounded, r
    <2>5. CASE rnd \in {"IEEE_near", "near_up"}
        <3>1. ~toward
            BY <2>5
        <3> QED BY <2>2, <2>3, <2>5, <3>1 DEF CorrectlyRounded, r
    <2>6. CASE ~toward /\ rnd \notin {"IEEE_near", "near_up"}
        BY <2>2, <2>3, <2>6 DEF CorrectlyRounded, r
    <2> QED BY <2>4, <2>5, <2>6
<1> QED BY <1>1, InputsTyped, PTL

LEMMA StatusOfProduct ==
    ASSUME NEW x, NEW y, Normal(x), Normal(y), NEW mode \in Modes,
           NEW r, r = z(x, y, mode), NEW e, e = Exact(x, y),
           NEW branch, branch = Exception(x, y, mode)
    PROVE  /\ branch \in {"huge", "tiny", "none"}
           /\ branch = "tiny" <=> e < Smallest
           /\ branch = "huge" => e > Magnitude(z_num(0, "MAX_NORM"))
           /\ e >= Infinite => branch = "huge"
           /\ branch = "none" => num_interp(r) = "NORM" /\ (inexact(x, y) <=> Magnitude(r) # e)
           /\ branch = "huge" => /\ num_interp(r) \in {"INF", "NORM"}
                                 /\ num_interp(r) = "INF" <=> HugeResult(z_sign(x, y), mode) = "INF"
                                 /\ num_interp(r) = "INF" \/ Magnitude(r) # e
           /\ branch = "tiny" => /\ num_interp(r) \in {"ZERO", "NORM"}
                                 /\ num_interp(r) = "ZERO" <=> TinyResult(z_sign(x, y), mode) = "ZERO"
                                 /\ Magnitude(r) # e
<1> DEFINE n == normalized_exponent(x, y)
           s == z_sign(x, y)
           top == (2 * Hidden - 1) * Scale(MaxExp - 1)
<1>1. /\ x \in Floats /\ y \in Floats /\ s \in 0..1 /\ n \in Int /\ MaxExp \in Nat /\ MaxExp >= 3
      /\ e \in Nat /\ e > 0 /\ Infinite \in Nat /\ Smallest \in Nat
      /\ n >= MaxExp <=> e >= Infinite
      /\ n < 1 <=> e < Smallest
    BY SignType, ProductRange, OrdinaryExponents DEF Normal
<1>2. top \in Nat /\ top < Infinite
    BY Ends
<1>3. /\ HugeResult(s, mode) \in {"INF", "MAX_NORM"} /\ TinyResult(s, mode) \in {"ZERO", "MIN_NORM"}
      /\ Magnitude(z_num(s, "INF")) = Infinite /\ Magnitude(z_num(s, "ZERO")) = 0
      /\ Magnitude(z_num(s, "MIN_NORM")) = Smallest /\ Magnitude(z_num(s, "MAX_NORM")) = top
      /\ Magnitude(z_num(0, "MAX_NORM")) = top
    BY <1>1, Extremes DEF HugeResult, TinyResult
<1>4. /\ num_interp(z_num(s, "INF")) = "INF" /\ num_interp(z_num(s, "ZERO")) = "ZERO"
      /\ num_interp(z_num(s, "MIN_NORM")) = "NORM" /\ num_interp(z_num(s, "MAX_NORM")) = "NORM"
    <2>1. /\ z_num(s, "INF").exp = MaxExp /\ z_num(s, "ZERO").exp = 0
          /\ z_num(s, "MIN_NORM").exp = 1 /\ z_num(s, "MAX_NORM").exp = MaxExp - 1
        BY DEF z_num
    <2> QED BY <1>1, <2>1 DEF num_interp
<1> HIDE DEF top
<1>5. CASE n >= MaxExp
    <2>1. branch = "huge" /\ r = z_num(s, HugeResult(s, mode)) /\ e >= Infinite
        BY <1>1, <1>5, ProductResult
    <2>2. ~(e < Smallest)
        BY <1>1, <1>5
    <2> QED BY <1>1, <1>2, <1>3, <1>4, <2>1, <2>2
<1>6. CASE n < 1
    <2>1. branch = "tiny" /\ r = z_num(s, TinyResult(s, mode)) /\ e < Smallest
        BY <1>1, <1>6, ProductResult
    <2>2. ~(e >= Infinite)
        BY <1>1, <1>6
    <2> QED BY <1>1, <1>3, <1>4, <2>1, <2>2
<1>7. CASE 1 <= n /\ n < MaxExp
    <2> DEFINE q == Kept(x, y)
               w == Scale(n)
               l == q * w
               u == (q + 1) * w
               inc == increase_mantissa(x, y, mode)
    <2>1. /\ Magnitude(r) = (IF inc THEN u ELSE l)
          /\ branch \in {"none", "huge"}
          /\ branch = "none" => r.exp \in 1..(MaxExp - 1)
          /\ branch = "huge" => inc /\ r.exp = MaxExp /\ l = top
        BY <1>7, NeighbourResult DEF top
    <2>2. l <= e /\ e < u /\ (inexact(x, y) <=> e # l)
        BY ProductNeighbours
    <2>3. l \in Nat /\ u \in Nat
        <3>1. q \in Nat /\ w \in Nat
            <4>1. q \in Nat
                BY SignificandType, ProductNeighbours
            <4> QED BY <4>1, ProductNeighbours
        <3> HIDE DEF q, w
        <3> QED BY <3>1
    <2>4. inc \in BOOLEAN /\ (inc => inexact(x, y) /\ HugeResult(s, mode) = "INF")
        BY <1>1, Increases
    <2>5. ~(e >= Infinite) /\ ~(e < Smallest)
        BY <1>1, <1>7
    <2>6. branch = "none" => num_interp(r) = "NORM"
        BY <1>1, <2>1 DEF num_interp
    <2>7. branch = "huge" => num_interp(r) = "INF"
        BY <1>1, <2>1 DEF num_interp
    <2> HIDE DEF q, w, l, u, inc, n, s
    <2>8. inexact(x, y) <=> Magnitude(r) # e
        BY <1>1, <2>1, <2>2, <2>3, <2>4
    <2>9. branch = "huge" => e > top
        BY <1>1, <1>2, <2>1, <2>2, <2>3, <2>4
    <2> QED BY <1>3, <2>1, <2>4, <2>5, <2>6, <2>7, <2>8, <2>9 DEF s
<1> QED BY <1>1, <1>5, <1>6, <1>7

\* In every format and mode the status bits tell what became of the exact product.
THEOREM StatusIsTruthful == Bench => []StatusTruthful
<1>1. InputsOK => StatusTruthful
    <2> SUFFICES ASSUME InputsOK PROVE StatusTruthful
        OBVIOUS
    <2> DEFINE r == z(a, b, rnd)
               e == Exact(a, b)
               s == z_sign(a, b)
               types == {num_interp(a), num_interp(b)}
               flags == status(a, b, rnd)
               branch == Exception(a, b, rnd)
    <2>1. a \in Floats /\ b \in Floats /\ rnd \in Modes /\ s \in 0..1 /\ MaxExp \in Nat /\ MaxExp >= 3
        BY SignType, OrdinaryExponents DEF InputsOK
    <2>2. num_interp(a) \in {"ZERO", "INF", "NORM"} /\ num_interp(b) \in {"ZERO", "INF", "NORM"}
        BY DEF num_interp
    <2>3. /\ "zero_f" \in flags <=> \/ branch = "zero"
                                    \/ branch = "tiny" /\ TinyResult(s, rnd) = "ZERO"
          /\ "inf_f" \in flags <=> \/ branch \in {"nan", "inf"}
                                   \/ branch = "huge" /\ HugeResult(s, rnd) = "INF"
          /\ "nan_f" \in flags <=> branch = "nan"
          /\ "tiny_f" \in flags <=> branch = "tiny"
          /\ "huge_f" \in flags <=> branch = "huge"
          /\ "inexact_f" \in flags <=> \/ branch \in {"huge", "tiny"}
                                       \/ branch = "none" /\ inexact(a, b)
        BY DEF status
    <2>4. \A i \in 0..1 : num_interp(z_num(i, "INF")) = "INF" /\ num_interp(z_num(i, "ZERO")) = "ZERO"
        BY <2>1 DEF z_num, num_interp
    <2>5. CASE types = {"NORM"}
        <3>1. Normal(a) /\ Normal(b)
            BY <2>1, <2>5 DEF Normal
        <3>2. types # {"ZERO", "INF"}
            BY <2>5
        <3>3. /\ branch \in {"huge", "tiny", "none"}
              /\ branch = "tiny" <=> e < Smallest
              /\ branch = "huge" => e > Magnitude(z_num(0, "MAX_NORM"))
              /\ e >= Infinite => branch = "huge"
              /\ branch = "none" => num_interp(r) = "NORM" /\ (inexact(a, b) <=> Magnitude(r) # e)
              /\ branch = "huge" => /\ num_interp(r) \in {"INF", "NORM"}
                                    /\ num_interp(r) = "INF" <=> HugeResult(s, rnd) = "INF"
                                    /\ num_interp(r) = "INF" \/ Magnitude(r) # e
              /\ branch = "tiny" => /\ num_interp(r) \in {"ZERO", "NORM"}
                                    /\ num_interp(r) = "ZERO" <=> TinyResult(s, rnd) = "ZERO"
                                    /\ Magnitude(r) # e
            BY <2>1, <3>1, StatusOfProduct
        <3> HIDE DEF r, e, s, types, flags, branch
        <3>4. /\ "zero_f" \in flags <=> num_interp(r) = "ZERO"
              /\ "inf_f" \in flags <=> num_interp(r) = "INF"
              /\ "nan_f" \in flags <=> types = {"ZERO", "INF"}
              /\ "inexact_f" \in flags <=> num_interp(r) = "INF" \/ Magnitude(r) # e
              /\ "tiny_f" \in flags <=> e < Smallest
              /\ "huge_f" \in flags <=> branch = "huge"
            BY <2>3, <3>2, <3>3
        <3> QED BY <2>5, <3>3, <3>4 DEF StatusTruthful, r, e, types, flags
    <2>6. CASE types # {"NORM"}
        <3>1. /\ types = {"ZERO", "INF"} => branch = "nan"
              /\ "ZERO" \in types /\ "INF" \notin types => branch = "zero"
              /\ "INF" \in types /\ "ZERO" \notin types => branch = "inf"
            BY DEF Exception
        <3>2. \/ types = {"ZERO", "INF"}
              \/ "ZERO" \in types /\ "INF" \notin types
              \/ "INF" \in types /\ "ZERO" \notin types
            BY <2>2, <2>6
        <3>3. /\ branch = "nan" => num_interp(r) = "INF"
              /\ branch = "zero" => num_interp(r) = "ZERO"
              /\ branch = "inf" => num_interp(r) = "INF"
            BY <2>1, <2>4 DEF z
        <3>4. /\ branch \in {"nan", "zero", "inf"}
              /\ types = {"ZERO", "INF"} <=> branch = "nan"
            BY <3>1, <3>2
        <3> HIDE DEF r, e, s, types, flags, branch
        <3>5. /\ "zero_f" \in flags <=> num_interp(r) = "ZERO"
              /\ "inf_f" \in flags <=> num_interp(r) = "INF"
              /\ "nan_f" \in flags <=> types = {"ZERO", "INF"}
              /\ ~("inexact_f" \in flags) /\ ~("tiny_f" \in flags) /\ ~("huge_f" \in flags)
            BY <2>3, <3>3, <3>4
        <3> QED BY <2>6, <3>5 DEF StatusTruthful, r, e, types, flags
    <2> QED BY <2>5, <2>6
<1> QED BY <1>1, InputsTyped, PTL
=============================================================================
