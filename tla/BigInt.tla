------------------------------- MODULE BigInt --------------------------------
(***************************************************************************)
(* The big integers of src/src/math/bigint.c, with limbs of LimbBits bits   *)
(* (32 in the code) and double words of twice as many.  A program holds two *)
(* of them, applies an operation to them and may store what it returns.     *)
(* Each operation works on limbs as in the code; `meant` is the integer it  *)
(* stands for.  Destinations differ from operands; buffers never run out.   *)
(***************************************************************************)
EXTENDS Integers, Sequences, FiniteSets, FiniteSetsExt

CONSTANTS LimbBits,
          Words,         \* 64-bit operands
          Exponents,     \* p of the Mersenne moduli
          MaxMagnitude   \* bound on the values that are stored

LimbBase == 2^LimbBits   \* 2^32
WordBase == LimbBase^2   \* 2^64

ASSUME BigIntAssumption == /\ LimbBits \in Nat \ {0} /\ Words \subseteq 0 .. WordBase - 1
                           /\ Exponents \subseteq Nat \ {0}

VARIABLES big,      \* x and y
          result    \* of the last operation: outs, meant, and whether one of
                    \* the defects described below was met

bigVars == <<big, result>>

Limb(l, i) == IF i \in DOMAIN l THEN l[i] ELSE 0
Magnitude(l) == MapThenSumSet(LAMBDA i : l[i] * LimbBase^(i - 1), DOMAIN l)
Value(b) == IF b.negative THEN 0 - Magnitude(b.limbs) ELSE Magnitude(b.limbs)

\* trim_unused; zero that comes out of it has no sign.
Trimmed(negative, l) ==
    LET used == Max({i \in DOMAIN l : l[i] # 0} \union {0})
    IN [negative |-> negative /\ used # 0, limbs |-> SubSeq(l, 1, used)]

\* ttak_bigint_set_u64
SetU64(v) == [negative |-> FALSE,
              limbs |-> IF v = 0 THEN <<>> ELSE IF v < LimbBase THEN <<v>>
                        ELSE <<v % LimbBase, v \div LimbBase>>]
BigZero == SetU64(0)

\* Of two magnitudes: fewer limbs, or the highest limb that differs is less.
LessMagnitude(l, r) ==
    \/ Len(l) < Len(r)
    \/ /\ Len(l) = Len(r)
       /\ \E i \in DOMAIN l : l[i] < r[i] /\ \A j \in i + 1 .. Len(l) : l[j] = r[j]

-----------------------------------------------------------------------------
(* Sum, difference and product.                                             *)

SumLimbs(l, r) ==
    LET n == Max({Len(l), Len(r)})
        carry[i \in 0..n] == IF i = 0 THEN 0
                             ELSE (carry[i - 1] + Limb(l, i) + Limb(r, i)) \div LimbBase
    IN [i \in 1 .. n + 1 |-> (carry[i - 1] + Limb(l, i) + Limb(r, i)) % LimbBase]

DifferenceLimbs(l, r) ==
    LET borrow[i \in 0..Len(l)] ==
            IF i = 0 THEN 0
            ELSE (((l[i] - borrow[i - 1] - Limb(r, i)) % WordBase) \div LimbBase) % 2
    IN [i \in 1..Len(l) |-> (l[i] - borrow[i - 1] - Limb(r, i)) % LimbBase]

\* The difference of two numbers of one sign, which is dropped.
Difference(l, r) == IF LessMagnitude(l, r) THEN Trimmed(TRUE, DifferenceLimbs(r, l))
                    ELSE Trimmed(FALSE, DifferenceLimbs(l, r))

BigAdd(a, b) ==
    IF a.negative = b.negative THEN Trimmed(a.negative, SumLimbs(a.limbs, b.limbs))
    ELSE IF a.negative THEN Difference(b.limbs, a.limbs)
    ELSE Difference(a.limbs, b.limbs)

\* (-a) - b is negative even when both are zero.
BigSub(a, b) ==
    IF a.negative = b.negative
    THEN IF a.negative THEN Difference(b.limbs, a.limbs) ELSE Difference(a.limbs, b.limbs)
    ELSE [Trimmed(FALSE, SumLimbs(a.limbs, b.limbs)) EXCEPT !.negative = a.negative]

\* Row i of the schoolbook product added to t; the carry runs on to the end.
MulRow(t, x, r, i) ==
    LET carry[k \in Nat] ==
            IF k < i THEN 0 ELSE (x * Limb(r, k - i + 1) + t[k] + carry[k - 1]) \div LimbBase
    IN [k \in DOMAIN t |-> IF k < i THEN t[k]
                           ELSE (x * Limb(r, k - i + 1) + t[k] + carry[k - 1]) % LimbBase]
MulLimbs(l, r) ==
    LET rows[i \in 0..Len(l)] ==
            IF i = 0 THEN [k \in 1 .. Len(l) + Len(r) |-> 0] ELSE MulRow(rows[i - 1], l[i], r, i)
    IN rows[Len(l)]

BigMul(a, b) == IF a.limbs = <<>> \/ b.limbs = <<>> THEN BigZero
                ELSE Trimmed(a.negative # b.negative, MulLimbs(a.limbs, b.limbs))

\* ttak_bigint_mul_u64
BigMulU64(a, v) == IF v = 0 \/ a.limbs = <<>> THEN BigZero
                   ELSE IF v = 1 THEN a
                   ELSE Trimmed(a.negative, MulLimbs(a.limbs, SetU64(v).limbs))

-----------------------------------------------------------------------------
(* Division.                                                                *)

\* ttak_bigint_div_u64: the remainder is shifted by a limb, which drops bits
\* once it has reached a limb itself.
DivU64(n, d) ==
    LET used == Len(n.limbs)
        shifted[i \in 1..used] ==   \* what is divided for limb i
            ((IF i = used THEN 0 ELSE (shifted[i + 1] % d) * LimbBase) % WordBase) + n.limbs[i]
        remainder == shifted[1] % d
    IN IF used = 0 THEN [q |-> BigZero, r |-> BigZero, unsound |-> FALSE]
       ELSE IF d = 1 THEN [q |-> n, r |-> BigZero, unsound |-> FALSE]
       ELSE IF LessMagnitude(n.limbs, SetU64(d).limbs) THEN [q |-> BigZero, r |-> n, unsound |-> FALSE]
       ELSE [q |-> Trimmed(n.negative, [i \in 1..used |-> (shifted[i] \div d) % LimbBase]),
             r |-> [SetU64(remainder) EXCEPT !.negative = n.negative],
             unsound |-> \E i \in 2..used : shifted[i] % d >= LimbBase]

\* Steps D3 to D6 of knuth_div_limbs for digit j: u is the normalized dividend
\* so far and v the divisor of n limbs, as numbers.  The correction of the
\* estimate shifts its remainder by a limb, which drops bits once that has
\* reached a limb; Knuth's loop ends there, this one may go on (`overrun`).
LimbOf(x, k) == (x \div LimbBase^k) % LimbBase

AddBackMutant(estimate, below) == estimate   \* mutant: the digit is not corrected
AddBack(estimate, below) == IF below THEN estimate - 1 ELSE estimate

KnuthStep(st, v, n, j) ==
    LET window == LimbBase^(n + 1)
        slice == (st.u \div LimbBase^j) % window
        high == slice \div LimbBase^(n - 1)
        top == LimbOf(v, n - 1)
        first == (IF high \div LimbBase = top THEN LimbBase - 1 ELSE high \div top) % LimbBase
        rest(q) == high - q * top
        tooBig(q) == q * LimbOf(v, n - 2) > ((rest(q) * LimbBase) % WordBase) + LimbOf(slice, n - 2)
        estimate == Max({q \in 0..first : ~tooBig(q)})
        below == slice < estimate * v
        left == (slice - estimate * v + IF below THEN v ELSE 0) % window
    IN [u |-> st.u + (left - slice) * LimbBase^j,
        q |-> st.q + AddBack(estimate, below) * LimbBase^j,
        overrun |-> st.overrun \/ \E q \in estimate + 1 .. first : rest(q) >= LimbBase]

LimbsOf(x, n) == [i \in 1..n |-> LimbOf(x, i - 1)]

KnuthDiv(n, d) ==
    LET l == Len(d.limbs)
        m == Len(n.limbs) - l
        scale == CHOOSE s \in {2^k : k \in 0..LimbBits} :   \* D1
                     d.limbs[l] * s \in LimbBase \div 2 .. LimbBase - 1
        digits[j \in 0 .. m + 1] ==
            IF j = m + 1 THEN [u |-> Magnitude(n.limbs) * scale, q |-> 0, overrun |-> FALSE]
            ELSE KnuthStep(digits[j + 1], Magnitude(d.limbs) * scale, l, j)
        last == digits[0]
    IN [q |-> Trimmed(n.negative # d.negative, LimbsOf(last.q, m + 1)),
        r |-> Trimmed(n.negative, LimbsOf((last.u % LimbBase^l) \div scale, l)),
        unsound |-> last.overrun]

\* ttak_bigint_div, which refuses a zero divisor.
Divide(n, d) ==
    IF LessMagnitude(n.limbs, d.limbs) THEN [q |-> BigZero, r |-> n, unsound |-> FALSE]
    ELSE IF n.limbs = d.limbs
    THEN [q |-> [SetU64(1) EXCEPT !.negative = n.negative # d.negative], r |-> BigZero,
          unsound |-> FALSE]
    ELSE IF Len(d.limbs) = 1
    THEN [DivU64(n, d.limbs[1]) EXCEPT !.q.negative = n.negative # d.negative]
    ELSE KnuthDiv(n, d)

\* ttak_bigint_mersenne_mod folds n at bit p.  The modulus it compares with in
\* the end is 2^p from p = LimbBits on: limb 0 keeps the 1 it was set to.
MersenneMod(n, p) ==
    LET modulus == IF p < LimbBits THEN 2^p - 1 ELSE 2^p
        folded[x \in Nat] == IF x < 2^p THEN x ELSE folded[(x % 2^p) + (x \div 2^p)]
        x == folded[Magnitude(n.limbs)]
    IN [r |-> Trimmed(FALSE, LimbsOf(IF x = modulus THEN 0 ELSE x, Len(n.limbs))),
        unsound |-> p >= LimbBits /\ x = 2^p - 1]

-----------------------------------------------------------------------------
(* The program.                                                             *)

NoResult == [outs |-> <<>>, meant |-> <<>>, unsound |-> FALSE, of |-> "none"]

BigInit == big = [x |-> BigZero, y |-> BigZero] /\ result = NoResult

\* Division truncates towards zero and the remainder has the dividend's sign.
Quotient(a, b) == LET q == (IF a < 0 THEN 0 - a ELSE a) \div (IF b < 0 THEN 0 - b ELSE b)
                  IN IF (a < 0) # (b < 0) THEN 0 - q ELSE q
Remainder(a, b) == a - b * Quotient(a, b)

Gives(of, outs, meant, unsound) ==
    /\ result = NoResult
    /\ result' = [of |-> of, outs |-> outs, meant |-> meant, unsound |-> unsound]
    /\ UNCHANGED big

LoadWord == \E v \in Words : Gives("set", <<SetU64(v)>>, <<v>>, FALSE)
Sum == Gives("add", <<BigAdd(big.x, big.y)>>, <<Value(big.x) + Value(big.y)>>, FALSE)
Minus == Gives("sub", <<BigSub(big.x, big.y)>>, <<Value(big.x) - Value(big.y)>>, FALSE)
Times == Gives("mul", <<BigMul(big.x, big.y)>>, <<Value(big.x) * Value(big.y)>>, FALSE)
TimesWord == \E v \in Words : Gives("mul", <<BigMulU64(big.x, v)>>, <<Value(big.x) * v>>, FALSE)
Over == LET d == Divide(big.x, big.y) IN
    big.y.limbs # <<>> /\ Gives("div", <<d.q, d.r>>, <<Quotient(Value(big.x), Value(big.y)),
                                                    Remainder(Value(big.x), Value(big.y))>>, d.unsound)
OverWord == \E v \in Words \ {0} : LET d == DivU64(big.x, v) IN
    Gives("div_u64", <<d.q, d.r>>, <<Quotient(Value(big.x), v), Remainder(Value(big.x), v)>>, d.unsound)
Mersenne == \E p \in Exponents : LET m == MersenneMod(big.x, p) IN
    ~big.x.negative /\ Gives("mod", <<m.r>>, <<Value(big.x) % (2^p - 1)>>, m.unsound)

\* ttak_bigint_copy of a result, which is kept while it is small enough.
Keep(i, r) ==
    /\ i \in DOMAIN result.outs
    /\ Value(result.outs[i]) \in 0 - MaxMagnitude .. MaxMagnitude
    /\ big' = [big EXCEPT ![r] = result.outs[i]] /\ result' = NoResult
ForgetResult == result # NoResult /\ result' = NoResult /\ UNCHANGED big

BigNext ==
    \/ LoadWord \/ Sum \/ Minus \/ Times \/ TimesWord \/ Over \/ OverWord \/ Mersenne \/ ForgetResult
    \/ \E i \in 1..2, r \in {"x", "y"} : Keep(i, r)

BigSpec == BigInit /\ [][BigNext]_bigVars

-----------------------------------------------------------------------------
(* Every operation returns the integers it stands for: carries, borrows,    *)
(* signs, the corrected digits of a long division.  Exempt are the three    *)
(* inputs on which bigint.c is wrong: a correction loop of knuth_div_limbs  *)
(* that went on past a limb (883), a remainder of div_u64 of a limb or more *)
(* (608), and 2^p - 1 for p of a limb or more in mersenne_mod (1167).       *)
BigIntExact ==
    \A i \in DOMAIN result.outs : result.unsound \/ Value(result.outs[i]) = result.meant[i]

(* ttak_bigint_div returns quotient and remainder (bigint.c:925-932).  It   *)
(* does not when the correction loop overran.                               *)
DivisionExact ==
    result.of = "div" => \A i \in DOMAIN result.outs : Value(result.outs[i]) = result.meant[i]
=============================================================================
