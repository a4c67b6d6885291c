------------------------------ MODULE FthNumber ------------------------------
(***************************************************************************)
(* The numbers of src/numbers.c: machine integers, long-longs, floats,     *)
(* complex numbers, bignums and ratios, and the words that convert,        *)
(* compare and calculate with them.                                        *)
(*                                                                         *)
(* A word is its family and its operation: <<"q", "+">> is q+, and the     *)
(* family "n" stands for fth_number_add and its like, the C functions      *)
(* behind the object-value words.  `data' is the stack, `did' the word     *)
(* executed last with its operands and what came of it.  What a word       *)
(* throws reaches the prompt, which empties the stack.                     *)
(*                                                                         *)
(* A value is a pair <<n, d>>, the number n/d.  A float is such a pair     *)
(* with Mantissa significant bits, less than 2^MaxExp; d = 0 is an         *)
(* infinity or, with n = 0, not a number.  A ratio keeps the numerator and *)
(* the denominator the code computes, in lowest terms or not.  A flag is   *)
(* in did.res and not among the numbers of the stack.                      *)
(***************************************************************************)
EXTENDS Integers, Sequences, FiniteSetsExt

CONSTANTS
    Width,      \* bits of ficlInteger, ficl2Integer and BN_ULONG
    Mantissa,   \* significant bits of a float
    MaxExp,     \* floats overflow at 2^MaxExp and are 0 below 2^-MaxExp
    MaxSteps,   \* bound: rounds of rationalize, a million in the code
    Programs    \* [words, texts, depth, bound]: words, numbers read, cells and the
                \* largest numerator and denominator on the stack, of a program

ASSUME NumberAssumption ==
    /\ Width \in Nat \ {0, 1} /\ Mantissa \in 1..(Width - 1)
    /\ {MaxExp, MaxSteps} \subseteq Nat /\ Mantissa <= MaxExp

VARIABLES data, errno, did, prog
vars == <<data, errno, did, prog>>

-----------------------------------------------------------------------------
(* Machine integers. *)

ficlInteger(n) == ((n + 2^(Width - 1)) % 2^Width) - 2^(Width - 1)
ficlUnsigned(n) == n % 2^Width
ULONG_MAX == 2^Width - 1
Word == -(2^(Width - 1))..(2^(Width - 1) - 1)
MinInteger == -(2^(Width - 1))
FIXABLE_P(n) == n \in -(2^(Width - 2))..(2^(Width - 2) - 1)
\* The shift that takes the tag off leaves no sign.
FIX_TO_UNSIGNED(n) == n % 2^(Width - 1)

Sgn(n) == IF n < 0 THEN -1 ELSE IF n = 0 THEN 0 ELSE 1
Abs(n) == IF n < 0 THEN -n ELSE n
\* Division of C and of BN_div: cut towards zero.
Quot(a, b) == Sgn(a) * Sgn(b) * (Abs(a) \div Abs(b))
Gcd[a, b \in Nat] == IF b = 0 THEN a ELSE Gcd[b, a % b]
BN_gcd(a, b) == Gcd[Abs(a), Abs(b)]
BN_get_word(m) == Min({Abs(m), ULONG_MAX})

-----------------------------------------------------------------------------
(* Floats. *)

Finite(q) == q[2] # 0
NaN == <<0, 0>>
Cut(n, d, g) == <<Quot(n, g), Quot(d, g)>>
Lowest(n, d) == Cut(n, d, Sgn(d) * BN_gcd(n, d))
\* rint(3): a tie goes to the even integer.
fth_rint(q) ==
    LET k == q[1] \div q[2]
        rest == 2 * (q[1] - k * q[2])
    IN  IF rest > q[2] \/ (rest = q[2] /\ k % 2 = 1) THEN k + 1 ELSE k
Floor(q) == q[1] \div q[2]
Ceil(q) == -((-q[1]) \div q[2])
Scaled(n, d, e) == IF e >= 0 THEN <<n, d * 2^e>> ELSE <<n * 2^(-e), d>>
\* The exponent that leaves Mantissa bits of n/d.
FitsMantissa(s) == 2^(Mantissa - 1) * s[2] <= s[1] /\ s[1] < 2^Mantissa * s[2]
Exponent(n, d) == CHOOSE e \in -(MaxExp + Mantissa)..MaxExp : FitsMantissa(Scaled(n, d, e))
Rounded(n, d, e) == Scaled(fth_rint(Scaled(n, d, e)), 1, -e)
Signed(sign, q) == Lowest(sign * q[1], q[2])
\* The float next to n/d.
Fl(n, d) ==
    IF d = 0 THEN <<Sgn(n), 0>>
    ELSE IF Abs(n) >= 2^MaxExp * Abs(d) THEN <<Sgn(n) * Sgn(d), 0>>
    ELSE IF Abs(n) * 2^MaxExp < Abs(d) THEN <<0, 1>>
    ELSE Signed(Sgn(n) * Sgn(d), Rounded(Abs(n), Abs(d), Exponent(Abs(n), Abs(d))))
FNeg(x) == <<-x[1], x[2]>>
FAbs(x) == <<Abs(x[1]), x[2]>>
FAdd(x, y) ==
    IF ~Finite(x) /\ ~Finite(y) THEN IF x = y THEN x ELSE NaN
    ELSE Fl(x[1] * y[2] + y[1] * x[2], x[2] * y[2])
FSub(x, y) == FAdd(x, FNeg(y))
FMul(x, y) == Fl(x[1] * y[1], x[2] * y[2])
FDiv(x, y) == Fl(x[1] * y[2], x[2] * y[1])
\* The sign of x - y; not for NaN.
FSign(x, y) == IF Finite(x) \/ Finite(y) THEN Sgn(x[1] * y[2] - y[1] * x[2]) ELSE Sgn(x[1] - y[1])
FloatOf(n) == Fl(n, 1)
\* What the machine makes of a float that is no integer of a word.
FloatToInt(x) == IF Finite(x) /\ fth_rint(x) \in Word THEN fth_rint(x) ELSE MinInteger

-----------------------------------------------------------------------------
(* Numbers. *)

NUM(t, q, i) == [t |-> t, q |-> q, im |-> i]
Zero == <<0, 1>>
One == <<1, 1>>
INT(n) == NUM("int", <<n, 1>>, Zero)
LLONG(n) == NUM("llong", <<ficlInteger(n), 1>>, Zero)
FLOAT(q) == NUM("float", q, Zero)
COMPLEX(re, i) == NUM("complex", re, i)
BIGNUM(n) == NUM("bignum", <<n, 1>>, Zero)
RATIO(q) == NUM("ratio", q, Zero)
fth_make_int(n) == IF FIXABLE_P(n) THEN INT(n) ELSE LLONG(n)

N(x) == x.q[1]
\* ficl_to_fth: an integer too large for a fixnum becomes a long-long.
Type(x) == IF x.t # "int" THEN x.t ELSE IF FIXABLE_P(N(x)) THEN "fixnum" ELSE "llong"
\* In the order of the object types.
Rank == [fixnum |-> 0, llong |-> 1, float |-> 2, complex |-> 3, bignum |-> 4, ratio |-> 5]
Wider(x, y) == IF Rank[Type(x)] < Rank[Type(y)] THEN Type(y) ELSE Type(x)
Whole(x) == Type(x) \in {"fixnum", "llong"}
FTH_EXACT_P(x) == Type(x) \notin {"float", "complex"}
FTH_INEXACT_P(x) == ~FTH_EXACT_P(x)

bn_to_int(m) == ficlInteger(Sgn(m) * ficlInteger(BN_get_word(m)))
\* The words of a ratio; a denominator beyond a word is the largest, -1 as a ficl2Integer.
RtTraps(q) == LET y == ficlInteger(BN_get_word(q[2])) IN y = 0 \/ (y = -1 /\ bn_to_int(q[1]) = MinInteger)
rt_to_int(q) == ficlInteger(Quot(bn_to_int(q[1]), ficlInteger(BN_get_word(q[2]))))
rt_to_float(q) == FDiv(FloatOf(Sgn(q[1]) * BN_get_word(q[1])), FloatOf(BN_get_word(q[2])))

\* A ratio whose words divide with a trap.
Traps(x) == Type(x) = "ratio" /\ RtTraps(x.q)
fth_int_ref(x) ==
    CASE Whole(x) -> N(x)
      [] FTH_INEXACT_P(x) -> FloatToInt(x.q)
      [] Type(x) = "bignum" -> bn_to_int(N(x))
      [] Type(x) = "ratio" -> rt_to_int(x.q)
fth_long_long_ref(x) == fth_int_ref(x)
\* A negative long-long is read as if it were a ratio.
Wild(x) == Type(x) = "llong" /\ N(x) < 0
fth_ulong_long_ref(x) ==
    CASE Type(x) = "fixnum" -> FIX_TO_UNSIGNED(N(x))
      [] Type(x) = "bignum" -> BN_get_word(N(x))
      [] FTH_INEXACT_P(x) /\ Finite(x.q) /\ fth_rint(x.q) \in 0..ULONG_MAX -> fth_rint(x.q)
      [] OTHER -> ficlUnsigned(fth_int_ref(x))
fth_float_ref(x) ==
    CASE FTH_INEXACT_P(x) -> x.q
      [] Type(x) = "ratio" -> rt_to_float(x.q)
      [] OTHER -> FloatOf(fth_int_ref(x))
fth_complex_ref(x) == COMPLEX(fth_float_ref(x), x.im)

\* float_to_bn: printed and read back; no digits are an error, "-inf" is its sign alone.
Unreadable(q) == q \in {<<1, 0>>, NaN}
float_to_bn(q) == IF Finite(q) THEN fth_rint(q) ELSE 0
BnFails(x) == Type(x) \in {"float", "complex", "ratio"} /\ Unreadable(fth_float_ref(x))
fth_to_bn(x) == IF Whole(x) \/ Type(x) = "bignum" THEN N(x) ELSE float_to_bn(fth_float_ref(x))

\* rt_canonicalize
Canonical(n, d) ==
    IF d = 1 THEN <<n, d>> ELSE IF n = d THEN One ELSE Lowest(n, d)
fth_make_ratio_from_float(q) == IF Finite(q) THEN Canonical(q[1], q[2]) ELSE Zero
RtFails(x) == FTH_INEXACT_P(x) /\ Unreadable(x.q)
fth_to_rt(x) == IF FTH_INEXACT_P(x) THEN fth_make_ratio_from_float(x.q) ELSE x.q

-----------------------------------------------------------------------------
(* What a word comes to. *)

Got(x) == [k |-> "value", v |-> x]
Flag(b) == [k |-> IF b THEN "true" ELSE "false", v |-> INT(0)]
Raise(e) == [k |-> e, v |-> INT(0)]
Signal == Raise("signal")
BN_ERROR_THROW == Raise("bignum-error")
\* Memory is read as what it is not.
WildRead == Raise("wild")
Given(fails, r, x) == IF fails THEN r ELSE x

\* x OP y, from the sign of x - y.
Holds(op, sign) ==
    CASE op = "=" -> sign = 0 [] op = "<>" -> sign # 0 [] op = "<" -> sign < 0
      [] op = ">" -> sign > 0 [] op = "<=" -> sign <= 0 [] op = ">=" -> sign >= 0
FloatHolds(op, x, y) == IF NaN \in {x, y} THEN op = "<>" ELSE Holds(op, FSign(x, y))

LongOp(op, a, b) ==
    ficlInteger(CASE op = "+" -> a + b [] op = "-" -> a - b [] op = "*" -> a * b [] op = "/" -> Quot(a, b))
LongCalc(op, a, b) ==
    Given(op = "/" /\ (b = 0 \/ (a = MinInteger /\ b = -1)), Signal, Got(fth_make_int(LongOp(op, a, b))))

FloatOp(op, a, b) ==
    CASE op = "+" -> FAdd(a, b) [] op = "-" -> FSub(a, b) [] op = "*" -> FMul(a, b) [] op = "/" -> FDiv(a, b)

ComplexOp(op, x, y) ==
    LET size == FAdd(FMul(y.q, y.q), FMul(y.im, y.im))
    IN  CASE op = "+" -> COMPLEX(FAdd(x.q, y.q), FAdd(x.im, y.im))
          [] op = "-" -> COMPLEX(FSub(x.q, y.q), FSub(x.im, y.im))
          [] op = "*" -> COMPLEX(FSub(FMul(x.q, y.q), FMul(x.im, y.im)), FAdd(FMul(x.q, y.im), FMul(x.im, y.q)))
          [] op = "/" -> COMPLEX(FDiv(FAdd(FMul(x.q, y.q), FMul(x.im, y.im)), size),
                                 FDiv(FSub(FMul(x.im, y.q), FMul(x.q, y.im)), size))

\* bn_addsub and bn_muldiv
BigCalc(op, a, b) ==
    IF op = "/" /\ b = 0 THEN BN_ERROR_THROW
    ELSE Got(BIGNUM(CASE op = "+" -> a + b [] op = "-" -> a - b [] op = "*" -> a * b [] op = "/" -> Quot(a, b)))

\* Without the second gcd.
rt_addsubOneGcd(q, r, sign) ==
    LET g == BN_gcd(q[2], r[2])
    IN  <<q[1] * Quot(r[2], g) + sign * r[1] * Quot(q[2], g), r[2] * Quot(q[2], g)>>
\* The sum over the least common denominator; the first gcd is all the sum can share with it.
rt_addsub(q, r, sign) ==
    LET g == BN_gcd(q[2], r[2])
        z == q[1] * Quot(r[2], g) + sign * r[1] * Quot(q[2], g)
        h == BN_gcd(z, g)
    IN  <<Quot(z, h), Quot(r[2], h) * Quot(q[2], g)>>
rt_mul(q, r) ==
    LET g == BN_gcd(q[1], r[2])
        h == BN_gcd(q[2], r[1])
    IN  <<Quot(q[1], g) * Quot(r[1], h), Quot(q[2], h) * Quot(r[2], g)>>
\* Upside down, the sign in the numerator; nobody asks for a numerator of 0.
Inverted(r) == IF r[1] < 0 THEN <<-r[2], -r[1]>> ELSE <<r[2], r[1]>>
MulFails(q, r) == (q[1] = 0 /\ r[2] = 0) \/ (q[2] = 0 /\ r[1] = 0)
RatCalc(op, q, r) ==
    CASE op \in {"+", "-"} -> Given(q[2] = 0 /\ r[2] = 0, BN_ERROR_THROW,
                                    Got(RATIO(rt_addsub(q, r, IF op = "+" THEN 1 ELSE -1))))
      [] op \in {"*", "/"} -> Given(MulFails(q, r), BN_ERROR_THROW, Got(RATIO(rt_mul(q, r))))

\* The object-value words: the wider type of the two decides.
Family(f, x, y) ==
    IF f # "n" THEN f
    ELSE [fixnum |-> "d", llong |-> "d", float |-> "f", complex |-> "c", bignum |-> "b", ratio |-> "q"][Wider(x, y)]
Calc(f, op, x, y) ==
    CASE f = "d" -> Given(Traps(x) \/ Traps(y), Signal, LongCalc(op, fth_long_long_ref(x), fth_long_long_ref(y)))
      [] f = "f" -> Got(FLOAT(FloatOp(op, fth_float_ref(x), fth_float_ref(y))))
      [] f = "c" -> Got(ComplexOp(op, fth_complex_ref(x), fth_complex_ref(y)))
      [] f = "b" -> Given(BnFails(x) \/ BnFails(y), BN_ERROR_THROW, BigCalc(op, fth_to_bn(x), fth_to_bn(y)))
      [] f = "q" -> Given(RtFails(x) \/ RtFails(y), BN_ERROR_THROW,
                          RatCalc(op, fth_to_rt(x), IF op = "/" THEN Inverted(fth_to_rt(y)) ELSE fth_to_rt(y)))

-----------------------------------------------------------------------------
(* Comparisons. *)

\* u= and the like take the cells as they are.
UnsignedTest(op, x, y) == Flag(Holds(op, ficlUnsigned(N(x)) - ficlUnsigned(N(y))))
LongTest(op, x, y) ==
    Given(Traps(x) \/ Traps(y), Signal, Flag(Holds(op, fth_long_long_ref(x) - fth_long_long_ref(y))))
ULongTest(op, x, y) ==
    IF Wild(x) \/ Wild(y) THEN WildRead
    ELSE Given(Traps(x) \/ Traps(y), Signal, Flag(Holds(op, fth_ulong_long_ref(x) - fth_ulong_long_ref(y))))
\* Both parts must do.
ComplexTest(op, x, y) == Flag(FloatHolds(op, x.q, y.q) /\ FloatHolds(op, x.im, y.im))
BigTest(op, x, y) ==
    Given(BnFails(x) \/ BnFails(y), BN_ERROR_THROW, Flag(Holds(op, fth_to_bn(x) - fth_to_bn(y))))
\* Denominators of equal numerators, the wrong way round.
rt_cmpShort(q, r) == IF q[1] = r[1] THEN Sgn(q[2] - r[2]) ELSE Sgn(q[1] * r[2] - q[2] * r[1])
rt_cmp(q, r) == IF q[2] = r[2] THEN Sgn(q[1] - r[1]) ELSE Sgn(q[1] * r[2] - q[2] * r[1])
RatTest(op, x, y) ==
    Given(RtFails(x) \/ RtFails(y), BN_ERROR_THROW, Flag(Holds(op, rt_cmp(fth_to_rt(x), fth_to_rt(y)))))
Test(f, op, x, y) ==
    CASE f = "d" -> LongTest(op, x, y)
      [] f = "du" -> ULongTest(op, x, y)
      [] f = "f" -> Flag(FloatHolds(op, fth_float_ref(x), fth_float_ref(y)))
      [] f = "c" -> ComplexTest(op, fth_complex_ref(x), fth_complex_ref(y))
      [] f = "b" -> BigTest(op, x, y)
      [] f = "q" -> RatTest(op, x, y)

-----------------------------------------------------------------------------
(* Words of one number. *)

\* d>s, s>d, s>ud, s>f, s>c, s>b, s>q and their aliases, by what they make.
Convert(to, x) ==
    CASE to = "s" -> Given(Traps(x), Signal, Got(INT(fth_int_ref(x))))
      [] to = "d" -> Given(Traps(x), Signal, Got(LLONG(fth_long_long_ref(x))))
      [] to = "ud" -> IF Wild(x) THEN WildRead ELSE Given(Traps(x), Signal, Got(LLONG(fth_ulong_long_ref(x))))
      [] to = "f" -> Got(FLOAT(fth_float_ref(x)))
      [] to = "c" -> Got(fth_complex_ref(x))
      [] to = "b" -> Given(BnFails(x), BN_ERROR_THROW, Got(BIGNUM(fth_to_bn(x))))
      [] to = "q" -> Given(RtFails(x), BN_ERROR_THROW, Got(RATIO(fth_to_rt(x))))

\* dnegate dabs d2* d2/
LongFunction(op, d) ==
    Got(fth_make_int(ficlInteger(CASE op = "negate" -> -d [] op = "abs" -> Abs(d)
                                   [] op = "2*" -> d * 2 [] op = "2/" -> Quot(d, 2))))
\* fabs floor fceil ftrunc fround
FloatFunction(op, f) ==
    Got(FLOAT(IF op = "abs" THEN FAbs(f) ELSE IF ~Finite(f) THEN f
              ELSE FloatOf(CASE op = "floor" -> Floor(f) [] op = "ceil" -> Ceil(f)
                             [] op = "trunc" -> Quot(f[1], f[2]) [] op = "round" -> fth_rint(f))))
\* conj cabs2 1/c, real-ref and imag-ref
ComplexFunction(op, z) ==
    Got(CASE op = "conj" -> COMPLEX(z.q, FNeg(z.im))
          [] op = "abs2" -> COMPLEX(FAdd(FMul(z.q, z.q), FMul(z.im, z.im)), Zero)
          [] op = "1/" -> ComplexOp("/", COMPLEX(One, Zero), z)
          [] op = "real" -> FLOAT(z.q)
          [] op = "imag" -> FLOAT(z.im))
\* bnegate babs b2* b2/; a shift is one of the magnitude.
BigFunction(op, m) ==
    Got(BIGNUM(CASE op = "negate" -> -m [] op = "abs" -> Abs(m) [] op = "2*" -> m * 2 [] op = "2/" -> Quot(m, 2)))
\* qnegate qabs 1/q, qfloor and qceil, the last two for ratios only
Inverse1(f) == Given(Unreadable(f), BN_ERROR_THROW, Got(RATIO(fth_make_ratio_from_float(f))))
FloorToInt(op, f) ==
    INT(IF ~Finite(f) THEN MinInteger ELSE FloatToInt(FloatOf(IF op = "floor" THEN Floor(f) ELSE Ceil(f))))
RatFunction(op, x) ==
    CASE op = "1/" -> Inverse1(FDiv(One, fth_float_ref(x)))
      [] op \in {"floor", "ceil"} -> Given(Type(x) # "ratio", WildRead, Got(FloorToInt(op, rt_to_float(x.q))))
      [] op = "negate" -> Given(RtFails(x), BN_ERROR_THROW, Got(RATIO(FNeg(fth_to_rt(x)))))
      [] op = "abs" -> Given(RtFails(x), BN_ERROR_THROW, Got(RATIO(FAbs(fth_to_rt(x)))))

\* exact->inexact and inexact->exact
ExactFunction(op, x) ==
    CASE op = "->inexact" -> Got(IF FTH_EXACT_P(x) THEN FLOAT(fth_float_ref(x)) ELSE x)
      [] op = "inexact->" -> IF FTH_EXACT_P(x) THEN Got(x)
                             ELSE Given(Unreadable(x.q), BN_ERROR_THROW, Got(RATIO(fth_make_ratio_from_float(x.q))))

\* An unsigned word becomes an integer; what does not fit a word stays a bignum.
PartOf(n) == IF BN_get_word(n) < ULONG_MAX THEN fth_make_int(ficlInteger(n)) ELSE BIGNUM(n)
fth_numerator(x) == IF Whole(x) THEN x ELSE IF Type(x) = "ratio" THEN PartOf(x.q[1]) ELSE INT(0)
fth_denominator(x) == IF Type(x) = "ratio" THEN PartOf(x.q[2]) ELSE INT(1)

BN_is_prime(n) == n > 1 /\ \A k \in 2..(n - 1) : n % k # 0
\* odd? even? prime?
ParityTest(op, x) ==
    LET n == IF Type(x) = "bignum" THEN N(x) ELSE fth_int_ref(x)
    IN  Given(Traps(x), Signal,
              Flag(CASE op = "odd" -> n % 2 = 1 [] op = "even" -> n % 2 = 0 [] op = "prime" -> BN_is_prime(n)))
\* fixnum? long-long? ... inf? nan?
TypeTest(op, x) ==
    Flag(CASE op \in DOMAIN Rank -> Type(x) = op
           [] op = "ulong-long" -> Type(x) = "llong" /\ N(x) >= 0
           [] op = "unsigned" -> (Whole(x) \/ Type(x) = "bignum") /\ N(x) >= 0
           [] op = "integer" -> Whole(x) \/ Type(x) = "bignum"
           [] op = "number" -> TRUE
           [] op = "exact" -> FTH_EXACT_P(x)
           [] op = "inexact" -> FTH_INEXACT_P(x)
           [] op = "inf" -> fth_float_ref(x) \in {<<1, 0>>, <<-1, 0>>}
           [] op = "nan" -> fth_float_ref(x) = NaN)
\* d. ud. bn. q. c., by what they write
Written(op, x) ==
    Convert([d |-> "d", ud |-> "ud", bn |-> "b", c |-> "c", q |-> "q"][op],
            IF op = "q" /\ Type(x) \notin {"ratio", "bignum"} THEN FLOAT(fth_float_ref(x)) ELSE x)

-----------------------------------------------------------------------------
(* Words of two numbers. *)

\* dmin dmax bmin bmax
Least(op, a, b) == IF (a < b) = (op = "min") THEN a ELSE b
Choose(f, op, x, y) ==
    CASE f = "d" -> Given(Traps(x) \/ Traps(y), Signal,
                          Got(fth_make_int(Least(op, fth_long_long_ref(x), fth_long_long_ref(y)))))
      [] f = "b" -> Given(BnFails(x) \/ BnFails(y), BN_ERROR_THROW, Got(BIGNUM(Least(op, fth_to_bn(x), fth_to_bn(y)))))
\* bound: exponents
MaxPower == 3
Raised(n, k) == IF k = 0 THEN 1 ELSE n^k
\* b**: BN_exp does not look at the sign of the exponent.
ficl_bpow(m, n) == Got(BIGNUM(Raised(m, Abs(n))))
\* blshift brshift
BigShift(op, m, n) == Got(BIGNUM(IF op = "lshift" THEN m * 2^n ELSE Quot(m, 2^n)))
BigRatio(n, d) == IF d = 0 THEN Raise("math-error") ELSE Got(RATIO(Canonical(n, d)))
fth_make_ratio(x, y) ==
    IF Type(y) = "fixnum" /\ N(y) = 0 THEN Raise("math-error")
    ELSE Given(BnFails(x) \/ BnFails(y), BN_ERROR_THROW, BigRatio(fth_to_bn(x), fth_to_bn(y)))
fth_make_rectangular(x, y) == Got(COMPLEX(fth_float_ref(x), fth_float_ref(y)))
Rest(a, b) == Fl(a[1] * b[2] - Quot(a[1] * b[2], a[2] * b[1]) * b[1] * a[2], a[2] * b[2])
ficl_fmod(a, b) ==
    Got(FLOAT(IF ~Finite(a) \/ b[1] = 0 THEN NaN ELSE IF ~Finite(b) THEN a ELSE Rest(a, b)))
\* pow(3) of a whole exponent.
Power(a, n) ==
    IF n >= 0 THEN <<Raised(a[1], n), Raised(a[2], n)>>
    ELSE <<Raised(Sgn(a[1]), -n) * Raised(a[2], -n), Raised(Abs(a[1]), -n)>>
ficl_fpow(a, b) == LET q == Power(a, Floor(b)) IN Got(FLOAT(Fl(q[1], q[2])))

\* number_floor and number_inv of a ratio, by way of a float.
FloatFloor(f) == fth_make_ratio_from_float(IF Finite(f) THEN FloatOf(Floor(f)) ELSE f)
number_floor(q) == FloatFloor(rt_to_float(q))
number_inv(q) == FDiv(One, rt_to_float(q))
\* Term k of the continued fraction of 1/f: the fraction a1/b1, the one before, what is left to expand.
Term(a1, a2, b1, b2, rx, tt, end) ==
    [a1 |-> a1, a2 |-> a2, b1 |-> b1, b2 |-> b2, rx |-> rx, tt |-> tt, end |-> end]
Expanded(a1, a2, b1, b2, f) ==
    LET rx == fth_make_ratio_from_float(f)
    IN  Term(a1, a2, b1, b2, rx, number_floor(rx), IF Unreadable(f) THEN "bignum-error" ELSE "no")
\* A round of fth_rationalize: the next fraction a/b, or the next term.
Tried(s, a, b, fex, er) ==
    IF b # 0 /\ FSign(FAbs(FSub(fex, FDiv(FloatOf(a), FloatOf(b)))), er) <= 0
    THEN Term(a, s.a2, b, s.b2, s.rx, s.tt, "found")
    ELSE Expanded(a, s.a1, b, s.b1, number_inv(rt_addsub(s.rx, s.tt, -1)))
\* Every term is tried without the one before.
RoundStuck(s, fex, er) ==
    IF s.end # "no" THEN s
    ELSE IF RtTraps(s.tt) THEN [s EXCEPT !.end = "signal"]
    ELSE Tried(s, ficlInteger(s.a1 * rt_to_int(s.tt)), ficlInteger(s.b1 * rt_to_int(s.tt)), fex, er)
Round(s, fex, er) ==
    IF s.end # "no" THEN s
    ELSE IF RtTraps(s.tt) THEN [s EXCEPT !.end = "signal"]
    ELSE Tried(s, ficlInteger(s.a1 * rt_to_int(s.tt) + s.a2), ficlInteger(s.b1 * rt_to_int(s.tt) + s.b2), fex, er)
Rounds(f, fex, er) ==
    LET start == [Expanded(0, 1, 1, 0, f) EXCEPT !.tt = One]
        after[k \in Nat] == IF k = 0 THEN start ELSE Round(after[k - 1], fex, er)
    IN  after[MaxSteps]
\* A fraction within er of the ratio q; 0 when the rounds run out.
Nearest(dx, s) ==
    CASE s.end = "found" -> Got(RATIO(rt_addsub(dx, Canonical(s.a1, s.b1), 1)))
      [] s.end = "no" -> Got(INT(0))
      [] OTHER -> Raise(s.end)
Near(q, dx, er) ==
    IF rt_cmp(dx, q) = 0 THEN Got(RATIO(q))
    ELSE LET ex == rt_addsub(q, dx, -1) IN Nearest(dx, Rounds(number_inv(ex), rt_to_float(ex), er))
fth_rationalize(x, err) ==
    CASE Whole(x) -> Got(x)
      [] Type(x) = "bignum" -> Got(INT(0))
      [] OTHER -> Given(RtFails(x) \/ Unreadable(rt_to_float(fth_to_rt(x))), BN_ERROR_THROW,
                        Near(fth_to_rt(x), number_floor(fth_to_rt(x)), FAbs(fth_float_ref(err))))
Inexact(r) == IF r.k = "value" THEN ExactFunction("->inexact", r.v) ELSE r
ficl_rationalize(x, err) ==
    IF FTH_EXACT_P(x) /\ FTH_EXACT_P(err) THEN fth_rationalize(x, err) ELSE Inexact(fth_rationalize(x, err))

-----------------------------------------------------------------------------
(* Actions. *)

Running == did.res \notin {"wild", "signal"}
Numbers(n) == Len(data) >= n
X(n) == data[Len(data) - n]
Fits(x) == \A q \in {x.q, x.im} : Abs(q[1]) <= prog.bound /\ q[2] <= prog.bound
Errors == {"math-error", "bignum-error", "undefined-word", "stack-underflow", "signal", "wild"}
\* FTH_STACK_CHECK
Asks(w, n) == Running /\ w \in prog.words /\ Numbers(n)
\* What is left of the stack without the operands, and the result on it.
Ends(w, n, r, e) ==
    /\ Fits(r.v)
    /\ data' = IF r.k \in Errors THEN <<>>
               ELSE SubSeq(data, 1, Len(data) - n) \o IF r.k = "value" THEN <<r.v>> ELSE <<>>
    /\ did' = [word |-> w, res |-> r.k]
    /\ errno' = e
    /\ UNCHANGED prog
One1(w, r) == Asks(w, 1) /\ Ends(w, 1, r, errno)
Two1(w, r) == Asks(w, 2) /\ Ends(w, 2, r, errno)

Cmps == {"=", "<>", "<", ">", "<=", ">="}
Ops == {"+", "-", "*", "/"}

ToType == \E to \in {"s", "d", "ud", "f", "c", "b", "q"} : One1(<<">", to>>, Convert(to, X(0)))
LongOne == \E op \in {"negate", "abs", "2*", "2/"} :
    One1(<<"d", op>>, Given(Traps(X(0)), Signal, LongFunction(op, fth_long_long_ref(X(0)))))
FloatOne == \E op \in {"abs", "floor", "ceil", "trunc", "round"} :
    One1(<<"f", op>>, FloatFunction(op, fth_float_ref(X(0))))
ComplexOne == \E op \in {"conj", "abs2", "1/", "real", "imag"} :
    One1(<<"c", op>>, ComplexFunction(op, fth_complex_ref(X(0))))
BigOne == \E op \in {"negate", "abs", "2*", "2/"} :
    One1(<<"b", op>>, Given(BnFails(X(0)), BN_ERROR_THROW, BigFunction(op, fth_to_bn(X(0)))))
RatOne == \E op \in {"negate", "abs", "1/", "floor", "ceil"} : One1(<<"q", op>>, RatFunction(op, X(0)))
Exactness == \E op \in {"->inexact", "inexact->"} : One1(<<"e", op>>, ExactFunction(op, X(0)))
Numerator == One1(<<"e", "numerator">>, Got(fth_numerator(X(0))))
Denominator == One1(<<"e", "denominator">>, Got(fth_denominator(X(0))))
Parity == \E op \in {"odd", "even", "prime"} : One1(<<"is", op>>, ParityTest(op, X(0)))
IsType == \E op \in DOMAIN Rank \cup {"ulong-long", "unsigned", "integer", "number", "exact", "inexact", "inf", "nan"} :
    One1(<<"is", op>>, TypeTest(op, X(0)))
\* d0= and the like, a comparison with zero
ZeroTest == \E f \in {"d", "c", "b", "q"}, op \in Cmps :
    One1(<<[d |-> "d0", c |-> "c0", b |-> "b0", q |-> "q0"][f], op>>, Test(f, op, X(0), INT(0)))
Put(r) == IF r.k = "value" THEN [r EXCEPT !.k = "written"] ELSE r
Write == \E op \in {"d", "ud", "bn", "q", "c"} : One1(<<"write", op>>, Put(Written(op, X(0))))

Arithmetic == \E f \in {"d", "c", "b", "q", "n"}, op \in Ops :
    Two1(<<f, op>>, Calc(Family(f, X(1), X(0)), op, X(1), X(0)))
Comparison == \E f \in {"d", "du", "c", "b", "q", "n"}, op \in Cmps :
    Two1(<<f, op>>, Test(Family(f, X(1), X(0)), op, X(1), X(0)))
\* For cells that hold integers.
UnsignedComparison == \E op \in Cmps :
    /\ Numbers(2) /\ {X(0).t, X(1).t} = {"int"}
    /\ Two1(<<"u", op>>, UnsignedTest(op, X(1), X(0)))
MinMax == \E f \in {"d", "b"}, op \in {"min", "max"} : Two1(<<f, op>>, Choose(f, op, X(1), X(0)))
BigBinary(w, r) == Two1(w, Given(BnFails(X(1)) \/ BnFails(X(0)), BN_ERROR_THROW, r))
BPow ==
    /\ Numbers(2) /\ (~BnFails(X(0)) => Abs(fth_to_bn(X(0))) <= MaxPower)
    /\ BigBinary(<<"b", "**">>, ficl_bpow(fth_to_bn(X(1)), fth_to_bn(X(0))))
\* Counts are not negative.
Shift == \E op \in {"lshift", "rshift"} :
    /\ Numbers(1) /\ X(0).t = "int" /\ N(X(0)) \in 0..MaxPower
    /\ BigBinary(<<"b", op>>, BigShift(op, fth_to_bn(X(1)), N(X(0))))
MakeRatio == Two1(<<"make", "ratio">>, fth_make_ratio(X(1), X(0)))
MakeRectangular == Two1(<<"make", "rectangular">>, fth_make_rectangular(X(1), X(0)))
FMod == Two1(<<"f", "mod">>, ficl_fmod(fth_float_ref(X(1)), fth_float_ref(X(0))))
\* libm notes a result out of range in errno.
OutOfRange(a, r) == ~Finite(r.v.q) \/ (r.v.q = Zero /\ a # Zero)
PowerOf(a, b) ==
    /\ Finite(a) /\ Finite(b) /\ b[2] = 1 /\ Abs(b[1]) <= MaxPower
    /\ \E r \in {ficl_fpow(a, b)} : Ends(<<"f", "**">>, 2, r, IF OutOfRange(a, r) THEN "ERANGE" ELSE errno)
FPow == Asks(<<"f", "**">>, 2) /\ PowerOf(fth_float_ref(X(1)), fth_float_ref(X(0)))
Rationalize == Two1(<<"e", "rationalize">>, ficl_rationalize(X(1), X(0)))

\* A word that asks for more numbers than there are.
Arity(w) ==
    IF \/ w[1] \in {">", "is", "d0", "b0", "q0", "c0", "write"}
       \/ w[2] \in {"negate", "abs", "2*", "2/", "floor", "ceil", "trunc", "round", "conj", "abs2", "1/", "real",
                    "imag", "->inexact", "inexact->", "numerator", "denominator"}
    THEN 1 ELSE 2
Underflow == \E w \in prog.words :
    Running /\ ~Numbers(Arity(w)) /\ Ends(w, 0, Raise("stack-underflow"), errno)

\* The texts of numbers: form, value and, for integers, whether there are ten characters or more.
TEXT(form, q, i, long) == [form |-> form, q |-> q, im |-> i, long |-> long]
\* ficl_parse_number: strtol, strtod and so on, until one reads all of it without ERANGE; what
\* strtol says of an integer out of range stays for all of them.
ficl_parse_number(t) ==
    IF errno = "ERANGE" THEN <<>>
    ELSE IF t.form = "integer" /\ t.q[1] \in Word THEN <<INT(t.q[1])>>
    ELSE IF t.form = "decimal" THEN <<FLOAT(Fl(t.q[1], t.q[2]))>>
    ELSE <<>>
ficl_parse_complex(t) == IF t.form = "complex" THEN <<COMPLEX(Fl(t.q[1], t.q[2]), Fl(t.im[1], t.im[2]))>> ELSE <<>>
ficl_parse_bignum(t) == IF t.form = "integer" /\ t.long THEN <<BIGNUM(t.q[1])>> ELSE <<>>
ficl_parse_ratio(t) == IF t.form = "ratio" /\ t.q[2] # 0 THEN <<RATIO(Canonical(t.q[1], t.q[2]))>> ELSE <<>>
\* The parse steps in turn; the first clears errno.
Read(t) ==
    LET got == ficl_parse_number(t) \o ficl_parse_complex(t) \o ficl_parse_bignum(t) \o ficl_parse_ratio(t)
    IN  /\ Running /\ t \in prog.texts /\ Len(data) < prog.depth
        /\ Ends(<<"read", t.form>>, 0,
                IF got # <<>> THEN Got(got[1])
                ELSE Raise(IF t.form = "ratio" THEN "math-error" ELSE "undefined-word"), "0")

Init ==
    /\ prog \in Programs
    /\ data = <<>> /\ errno = "0" /\ did = [word |-> <<"none", "none">>, res |-> "none"]
Next ==
    \/ \E t \in prog.texts : Read(t)
    \/ ToType \/ LongOne \/ FloatOne \/ ComplexOne \/ BigOne \/ RatOne \/ Exactness \/ Numerator \/ Denominator
    \/ Parity \/ IsType \/ ZeroTest \/ Write
    \/ Arithmetic \/ Comparison \/ UnsignedComparison \/ MinMax \/ BPow
    \/ Shift \/ MakeRatio \/ MakeRectangular \/ FMod \/ FPow \/ Rationalize \/ Underflow
Spec == Init /\ [][Next]_vars

-----------------------------------------------------------------------------
(* Properties. *)

Rational == INSTANCE FthRational WITH vals <- data
\* Whatever types meet, exact operands give the exact result: the sums and products with
\* common divisors taken out beforehand (rt_addsub, rt_muldiv), the comparisons without a
\* division (rt_cmp) and the integers modulo a word are rational arithmetic.
RefinesRational == Rational!Spec

\* Integers are words, floats have no more bits than a float, a complex number has floats.
TypeOK ==
    \A k \in DOMAIN data :
        LET x == data[k]
        IN  /\ x.t \in {"int", "llong"} => N(x) \in Word /\ x.q[2] = 1
            /\ x.t = "bignum" => x.q[2] = 1
            /\ x.t \in {"float", "complex"} => \A q \in {x.q, x.im} : Fl(q[1], q[2]) = q

\* A ratio is in lowest terms with its sign in the numerator, whatever words made it:
\* rt_equal_p and rt_cmp compare numerators and denominators one by one.  (A division by
\* a ratio of zero leaves the denominator 0.)
LowestTerms == TypeOK /\
    \A k \in DOMAIN data : data[k].t = "ratio" =>
        LET q == data[k].q IN q[2] > 0 => BN_gcd(q[1], q[2]) = 1

\* Whether v was left for x and is within er of it, but for a float's rounding of x and of
\* what x has behind its point.
Within(x, v, er) ==
    LET off == Abs(v[1] * x[2] - x[1] * v[2])
        rounding == Abs(x[1]) + x[2]
    IN  did'.res = "value" /\ off * er[2] * 2^(Mantissa) <= v[2] * (x[2] * er[1] * 2^(Mantissa) + er[2] * rounding)
\* rationalize of X(1), a number it is for, within no less than a float can tell apart.
Rationalizes ==
    /\ did'.word = <<"e", "rationalize">> /\ did'.res # "stack-underflow" /\ Type(X(1)) # "bignum"
    /\ LET er == FAbs(fth_float_ref(X(0))) IN er[1] * 2^Mantissa >= er[2]
\* rationalize gives a number within ERR of X, whatever the way of its continued fraction
\* through floats, when numerator and denominator of X are words: it neither gives up nor fails.
RationalizeWithin == [][
    Rationalizes /\ Abs(X(1).q[1]) <= ULONG_MAX /\ X(1).q[2] <= ULONG_MAX
    => Within(X(1).q, X(0)'.q, FAbs(fth_float_ref(X(0))))]_vars
=============================================================================
