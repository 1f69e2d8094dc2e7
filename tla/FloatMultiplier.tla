--------------------------- MODULE FloatMultiplier ---------------------------
(***************************************************************************)
(* The combinational floating-point multiplier of Low_Level_HW_2: decoding,*)
(* normalisation, rounding in six modes and exceptions.  The Verilog has   *)
(* 8 bits of exponent and 23 of fraction; here they are constants.  Wires  *)
(* are operators of the operands and keep their names.  A step is a change *)
(* of the inputs, in the order of the test bench.                          *)
(***************************************************************************)
EXTENDS Integers

CONSTANTS ExpBits,   \* bits of the exponent field, 8 in the source
          FracBits   \* bits of the fraction field, 23 in the source

ASSUME FormatAssumption ==
    /\ ExpBits \in Nat /\ ExpBits >= 2
    /\ FracBits \in Nat \ {0}

\* What the doublings of a power of two are, of the powers a magnitude may hold.
ASSUME PowersAssumption ==
    /\ 2^0 = 1
    /\ \A n \in 0..(ExpBits + 2) \cup 0..(2^(ExpBits + 1) + FracBits) :
          2^n \in Nat \ {0} /\ 2^(n + 1) = 2 * 2^n

VARIABLES a, b,   \* the operands
          rnd     \* the rounding mode

inputs == <<a, b, rnd>>

MaxExp == 2^ExpBits - 1
Bias == 2^(ExpBits - 1) - 1
Hidden == 2^FracBits          \* the leading one of a mantissa

Floats == [sign: 0..1, exp: 0..MaxExp, frac: 0..(Hidden - 1)]
Modes == {"IEEE_near", "IEEE_zero", "IEEE_pinf", "IEEE_ninf", "near_up", "away_zero"}

-----------------------------------------------------------------------------
(* Operands and special values (exception_mult). *)

num_interp(v) ==
    IF v.exp = 0 THEN "ZERO" ELSE IF v.exp = MaxExp THEN "INF" ELSE "NORM"

z_num(s, interp) ==
    CASE interp = "ZERO"     -> [sign |-> s, exp |-> 0, frac |-> 0]
      [] interp = "INF"      -> [sign |-> s, exp |-> MaxExp, frac |-> 0]
      [] interp = "MIN_NORM" -> [sign |-> s, exp |-> 1, frac |-> 0]
      [] interp = "MAX_NORM" -> [sign |-> s, exp |-> MaxExp - 1, frac |-> Hidden - 1]

-----------------------------------------------------------------------------
(* Product and normalisation (fp_mult, normalization_module). *)

\* Faulty variant: the exponents have one extra bit only.
SignedWireNarrow(n) == ((n + 2^ExpBits) % 2^(ExpBits + 1)) - 2^ExpBits

\* A signed wire of two bits more than an exponent.
SignedWire(n) == ((n + 2^(ExpBits + 1)) % 2^(ExpBits + 2)) - 2^(ExpBits + 1)

z_sign(x, y) == (x.sign + y.sign) % 2
exponent_sum(x, y) == SignedWire(x.exp + y.exp - Bias)
mantissa_prod(x, y) == (Hidden + x.frac) * (Hidden + y.frac)

\* The bit above the product of two leading ones: P[47].
TopBit(x, y) == mantissa_prod(x, y) \div (2 * Hidden * Hidden)

normalized_exponent(x, y) == SignedWire(exponent_sum(x, y) + TopBit(x, y))

\* The weight of the last bit that is kept, and what lies below it.
Ulp(x, y) == Hidden * (1 + TopBit(x, y))
CutOff(x, y) == mantissa_prod(x, y) % Ulp(x, y)

normalized_mantissa(x, y) == (mantissa_prod(x, y) \div Ulp(x, y)) % Hidden
guard_bit(x, y) == 2 * CutOff(x, y) >= Ulp(x, y)
\* Faulty variant: the bit that normalisation shifts out is not part of the sticky bit.
sticky_bitShort(x, y) == CutOff(x, y) % (Hidden \div 2) # 0

sticky_bit(x, y) == CutOff(x, y) % (Ulp(x, y) \div 2) # 0

-----------------------------------------------------------------------------
(* Rounding (rounding_module, fp_mult). *)

inexact(x, y) == guard_bit(x, y) \/ sticky_bit(x, y)

increase_mantissa(x, y, mode) ==
    CASE mode = "IEEE_near" ->
            guard_bit(x, y) /\ (sticky_bit(x, y) \/ normalized_mantissa(x, y) % 2 = 1)
      [] mode = "IEEE_zero" -> FALSE
      [] mode = "IEEE_pinf" -> inexact(x, y) /\ z_sign(x, y) = 0
      [] mode = "IEEE_ninf" -> inexact(x, y) /\ z_sign(x, y) = 1
      [] mode = "near_up"   -> guard_bit(x, y) /\ (sticky_bit(x, y) \/ z_sign(x, y) = 0)
      [] mode = "away_zero" -> inexact(x, y)

rounding_result(x, y, mode) ==
    Hidden + normalized_mantissa(x, y) + (IF increase_mantissa(x, y, mode) THEN 1 ELSE 0)

\* rounding_result[24]: rounding up carried out of the mantissa.
Carry(x, y, mode) == rounding_result(x, y, mode) \div (2 * Hidden)

post_round_mantissa(x, y, mode) ==
    rounding_result(x, y, mode) \div (1 + Carry(x, y, mode))
post_round_exponent(x, y, mode) ==
    SignedWire(normalized_exponent(x, y) + Carry(x, y, mode))

underflow_bit(x, y) == normalized_exponent(x, y) < 1
\* Faulty variant: overflow is looked for before rounding, as underflow is.
overflow_bitEarly(x, y, mode) == normalized_exponent(x, y) > MaxExp - 1

overflow_bit(x, y, mode) == post_round_exponent(x, y, mode) > MaxExp - 1

z_calc(x, y, mode) ==
    [sign |-> z_sign(x, y),
     exp  |-> post_round_exponent(x, y, mode) % 2^ExpBits,
     frac |-> post_round_mantissa(x, y, mode) % Hidden]

-----------------------------------------------------------------------------
(* Exceptions (exception_mult): the result and the status flags. *)

\* What becomes of a finite product too large, and too small, for the format.
HugeResult(s, mode) ==
    IF \/ mode \in {"IEEE_near", "away_zero", "near_up"}
       \/ mode = "IEEE_pinf" /\ s = 0
       \/ mode = "IEEE_ninf" /\ s = 1
    THEN "INF" ELSE "MAX_NORM"

TinyResult(s, mode) ==
    IF \/ mode = "away_zero"
       \/ mode = "IEEE_pinf" /\ s = 0
       \/ mode = "IEEE_ninf" /\ s = 1
    THEN "MIN_NORM" ELSE "ZERO"

\* The branch of exception_mult that is taken.
Exception(x, y, mode) ==
    LET types == {num_interp(x), num_interp(y)} IN
    CASE types = {"ZERO", "INF"}  -> "nan"
      [] "ZERO" \in types /\ "INF" \notin types -> "zero"
      [] "INF" \in types /\ "ZERO" \notin types -> "inf"
      [] types = {"NORM"} /\ overflow_bit(x, y, mode) -> "huge"
      [] types = {"NORM"} /\ ~overflow_bit(x, y, mode) /\ underflow_bit(x, y) -> "tiny"
      [] types = {"NORM"} /\ ~overflow_bit(x, y, mode) /\ ~underflow_bit(x, y) -> "none"

z(x, y, mode) ==
    LET s == z_sign(x, y)
        branch == Exception(x, y, mode)
    IN  CASE branch = "nan"  -> z_num(0, "INF")
          [] branch = "zero" -> z_num(s, "ZERO")
          [] branch = "inf"  -> z_num(s, "INF")
          [] branch = "huge" -> z_num(s, HugeResult(s, mode))
          [] branch = "tiny" -> z_num(s, TinyResult(s, mode))
          [] branch = "none" -> z_calc(x, y, mode)

\* The names of the status bits that are set.
status(x, y, mode) ==
    LET s == z_sign(x, y)
        branch == Exception(x, y, mode)
    IN  {f \in {"zero_f", "inf_f", "nan_f", "tiny_f", "huge_f", "inexact_f"} :
          CASE f = "nan_f"  -> branch = "nan"
            [] f = "huge_f" -> branch = "huge"
            [] f = "tiny_f" -> branch = "tiny"
            [] f = "zero_f" -> \/ branch = "zero"
                               \/ branch = "tiny" /\ TinyResult(s, mode) = "ZERO"
            [] f = "inf_f"  -> \/ branch \in {"nan", "inf"}
                               \/ branch = "huge" /\ HugeResult(s, mode) = "INF"
            [] f = "inexact_f" -> \/ branch \in {"huge", "tiny"}
                                  \/ branch = "none" /\ inexact(x, y)}

-----------------------------------------------------------------------------
(* The inputs, as the test bench applies them. *)

\* The modes in the order of the enumeration.
NextMode == [IEEE_near |-> "IEEE_zero", IEEE_zero |-> "IEEE_pinf", IEEE_pinf |-> "IEEE_ninf",
             IEEE_ninf |-> "near_up", near_up |-> "away_zero"]

FirstInputs == a \in Floats /\ b \in Floats /\ rnd = "IEEE_near"

ApplyNextMode ==
    /\ rnd # "away_zero"
    /\ rnd' = NextMode[rnd]
    /\ UNCHANGED <<a, b>>

\* The test bench assigns one operand after the other.
ApplyA ==
    /\ rnd = "away_zero"
    /\ \E x \in Floats : a' = x
    /\ UNCHANGED <<b, rnd>>

ApplyB ==
    /\ rnd = "away_zero"
    /\ \E y \in Floats : b' = y
    /\ rnd' = "IEEE_near"
    /\ UNCHANGED a

NextInputs == ApplyNextMode \/ ApplyA \/ ApplyB

Bench == FirstInputs /\ [][NextInputs]_inputs

-----------------------------------------------------------------------------
(* Properties.  Magnitudes are compared as integers, in units of the last  *)
(* bit of the exact product of the two smallest normal numbers.            *)

InputsOK == a \in Floats /\ b \in Floats /\ rnd \in Modes

\* The wires are wide enough (fp_mult.sv:21-47): no exponent wraps around in its two
\* extra bits, the leading one is where normalisation looks for it, and rounding up
\* carries into the exponent by one, never more.
WidthsSuffice ==
    /\ InputsOK
    /\ normalized_exponent(a, b) = a.exp + b.exp - Bias + TopBit(a, b)
    /\ post_round_exponent(a, b, rnd) = normalized_exponent(a, b) + Carry(a, b, rnd)
    /\ TopBit(a, b) \in 0..1
    /\ mantissa_prod(a, b) \div Ulp(a, b) \in Hidden..(2 * Hidden - 1)
    /\ Carry(a, b, rnd) = 1 => rounding_result(a, b, rnd) = 2 * Hidden

Magnitude(v) ==
    IF v.exp = 0 THEN 0 ELSE (Hidden + v.frac) * 2^(v.exp + Bias + FracBits - 2)

Exact(x, y) == (Hidden + x.frac) * (Hidden + y.frac) * 2^(x.exp + y.exp - 2)

Finite == {Magnitude(v) : v \in {w \in Floats : w.exp < MaxExp}}
Infinite == Magnitude(z_num(0, "INF"))   \* one step above the largest finite one
Smallest == Magnitude(z_num(0, "MIN_NORM"))

Distance(m, n) == IF m < n THEN n - m ELSE m - n

RoundsDown(m, e) == m \in Finite /\ m <= e /\ \A n \in Finite : n <= e => n <= m
RoundsUp(m, e) ==
    /\ m \in Finite \cup {Infinite}
    /\ m >= e \/ m = Infinite
    /\ \A n \in Finite : n >= e => n >= m
RoundsNear(m, e) ==
    IF e < Smallest THEN m = 0
    ELSE \A n \in Finite \cup {Infinite} : Distance(m, e) <= Distance(n, e)

\* m lies exactly between two neighbours of the format.
Tie(m, e) ==
    \E n \in Finite \cup {Infinite} : n # m /\ Distance(m, e) = Distance(n, e)

\* The product of two normal numbers is the exact product rounded as the mode
\* says (rounded_mult.sv, and the carry of fp_mult.sv:107-117): the bits guard and
\* sticky, one normalisation and one carry are enough to decide it, up to the
\* infinite and the smallest normal result.  Products below the normal range are
\* flushed in the modes to nearest, as README.md:23 says of denormals.
CorrectlyRounded ==
    num_interp(a) = "NORM" /\ num_interp(b) = "NORM" =>
    LET r == z(a, b, rnd)
        m == Magnitude(r)
        e == Exact(a, b)
        toward == \/ rnd = "IEEE_zero"
                  \/ rnd = "IEEE_pinf" /\ r.sign = 1
                  \/ rnd = "IEEE_ninf" /\ r.sign = 0
    IN  /\ r.sign = (IF a.sign = b.sign THEN 0 ELSE 1)
        /\ CASE toward -> RoundsDown(m, e)
             [] rnd \in {"IEEE_near", "near_up"} ->
                  /\ RoundsNear(m, e)
                  /\ e >= Smallest /\ Tie(m, e) =>
                       IF rnd = "IEEE_near" THEN r.frac % 2 = 0 ELSE (m > e) = (r.sign = 0)
             [] OTHER -> RoundsUp(m, e)

\* The status bits say what became of the exact product (exception_mult.sv): that it
\* was not kept, left the format at either end, and what the result is.
StatusTruthful ==
    LET r == z(a, b, rnd)
        e == Exact(a, b)
        types == {num_interp(a), num_interp(b)}
        flags == status(a, b, rnd)
    IN  /\ ("zero_f" \in flags) = (num_interp(r) = "ZERO")
        /\ ("inf_f" \in flags) = (num_interp(r) = "INF")
        /\ ("nan_f" \in flags) = (types = {"ZERO", "INF"})
        /\ ("inexact_f" \in flags) =
              (types = {"NORM"} /\ (num_interp(r) = "INF" \/ Magnitude(r) # e))
        /\ ("tiny_f" \in flags) = (types = {"NORM"} /\ e < Smallest)
        /\ "huge_f" \in flags => types = {"NORM"} /\ e > Magnitude(z_num(0, "MAX_NORM"))
        /\ types = {"NORM"} /\ e >= Infinite => "huge_f" \in flags
=============================================================================
