---- MODULE Instructions ----
(* Instructions as records of the fields of their 32 bits, and the part of *)
(* RISC-V that multicycle.v decodes. A field is the number its bits stand  *)
(* for; an immediate is spread over funct7 and rs2 or rd.                  *)
EXTENDS Alu, Sequences

LOAD == 3
STORE == 35
BRANCH == 99
OPIMM == 19
OP == 51

Instructions ==
    [opcode : 0..127, funct3 : 0..7, funct7 : 0..127, rd : 0..31, rs1 : 0..31, rs2 : 0..31]

(* The immediates as their bits stand in the instruction: 12, 12 and 13.   *)
RawI(i) == 32 * i.funct7 + i.rs2
RawS(i) == 32 * i.funct7 + i.rd
RawB(i) == 4096 * (i.funct7 \div 64) + 2048 * (i.rd % 2) + 32 * (i.funct7 % 64)
           + 2 * (i.rd \div 2)

(* The word of an n-bit immediate, where half is 2^(n-1), sign-extended. *)
SignExtend(x, half) == Wrap(IF x < half THEN x ELSE x - 2 * half)

ImmI(i) == SignExtend(RawI(i), 2048)
ImmS(i) == SignExtend(RawS(i), 2048)
ImmB(i) == SignExtend(RawB(i), 4096)

(* The instructions the processor executes as RISC-V defines them: of the  *)
(* ones it decodes, those that do not write register 0 and, in stores and  *)
(* branches, have no negative offset.                                      *)
Supported(i) ==
    \/ /\ i.opcode = OP /\ i.rd # 0 /\ i.funct3 # 3
       /\ i.funct7 = 0 \/ (i.funct7 = 32 /\ i.funct3 \in {0, 5})
    \/ /\ i.opcode = OPIMM /\ i.rd # 0 /\ i.funct3 # 3
       /\ i.funct3 = 1 => i.funct7 = 0
       /\ i.funct3 = 5 => i.funct7 \in {0, 32}
    \/ i.opcode = LOAD /\ i.rd # 0 /\ i.funct3 = 2
    \/ i.opcode = STORE /\ i.funct3 = 2 /\ i.funct7 < 64
    \/ i.opcode = BRANCH /\ i.funct3 = 0 /\ i.funct7 < 64
====
