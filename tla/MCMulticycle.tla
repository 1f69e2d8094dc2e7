---- MODULE MCMulticycle ----
(* Programs of three instructions over a few registers, in which one       *)
(* instruction uses what the one before it computed, loaded or stored.     *)
EXTENDS Multicycle

I(op, f3, f7, dest, src1, src2) ==
    [opcode |-> op, funct3 |-> f3, funct7 |-> f7, rd |-> dest, rs1 |-> src1, rs2 |-> src2]

Menu == {
    I(OPIMM, 0, 127, 1, 0, 29),   \* addi x1, x0, -3
    I(OPIMM, 5, 32, 2, 1, 1),     \* srai x2, x1, 1
    I(OP, 0, 32, 1, 2, 1),        \* sub x1, x2, x1
    I(OP, 4, 0, 2, 2, 1),         \* xor x2, x2, x1
    I(OP, 2, 0, 2, 1, 0),         \* slt x2, x1, x0
    I(OPIMM, 6, 0, 2, 1, 6),      \* ori x2, x1, 6
    I(OP, 7, 0, 1, 1, 2),         \* and x1, x1, x2
    I(OPIMM, 1, 0, 1, 2, 3),      \* slli x1, x2, 3
    I(OP, 5, 0, 2, 2, 1),         \* srl x2, x2, x1
    I(LOAD, 2, 0, 1, 2, 4),       \* lw x1, 4(x2)
    I(STORE, 2, 0, 4, 2, 1),      \* sw x1, 4(x2)
    I(BRANCH, 0, 0, 8, 1, 2),     \* beq x1, x2, +8
    I(BRANCH, 0, 0, 0, 0, 2)}     \* beq x0, x2, +0

MCPrograms == [1..3 -> Menu]

ASSUME \A p \in MCPrograms : \A k \in DOMAIN p : Supported(p[k])

ASSUME \A a \in {0, 1, 5, 2^(Width-1), Modulus-1} : Value(Bits(a)) = a
====
