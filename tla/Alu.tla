---- MODULE Alu ----
(* Machine words and the arithmetic of the processor (alu.v), for words of *)
(* Width bits; the hardware has 32. A word is the natural number its bits  *)
(* stand for. Bitwise operators are defined without recursion, so that     *)
(* modules with proofs can use them.                                       *)
EXTENDS Integers, FiniteSets

CONSTANT Width

ASSUME WidthAssumption ==
    /\ Width \in Nat \ {0}
    /\ \A n \in 0..Width : 2^n \in Nat /\ 2^n > n

Modulus == 2^Width
Words == 0..Modulus-1

Wrap(x) == x % Modulus

Signed(a) == IF a < 2^(Width-1) THEN a ELSE a - Modulus

Bits(a) == {k \in 0..Width-1 : (a \div 2^k) % 2 = 1}

(* Bit k counts for the 2^k numbers from 2^k on: those whose top bit is k. *)
Value(B) == Cardinality((UNION {2^k .. 2^(k+1)-1 : k \in B}) \cap (1..Modulus-1))

Add(a, b) == Wrap(a + b)
Sub(a, b) == Wrap(a - b)
And(a, b) == Value(Bits(a) \cap Bits(b))
Or(a, b) == Value(Bits(a) \cup Bits(b))
Xor(a, b) == Value((Bits(a) \cup Bits(b)) \ (Bits(a) \cap Bits(b)))
Less(a, b) == IF Signed(a) < Signed(b) THEN 1 ELSE 0

(* Shifts take the last five bits of their second operand. *)
Places(b) == b % 32
Sll(a, b) == IF Places(b) >= Width THEN 0
             ELSE Wrap((a % 2^(Width - Places(b))) * 2^Places(b))
Srl(a, b) == IF Places(b) >= Width THEN 0 ELSE Wrap(a \div 2^Places(b))
Sra(a, b) == IF Places(b) >= Width
             THEN IF Signed(a) < 0 THEN Modulus - 1 ELSE 0
             ELSE Wrap(Signed(a) \div 2^Places(b))
====
