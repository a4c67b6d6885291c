---------------------------- MODULE MCFthNumber ----------------------------
(***************************************************************************)
(* Families of programs for the number words: each has the words of one    *)
(* kind of number and texts on both sides of a fixnum (-16..15), of a word *)
(* (-32..31), of an unsigned word (63) and of what a float can hold (four  *)
(* bits).                                                                  *)
(***************************************************************************)
EXTENDS FthNumber

Program(words, texts, bound) == [words |-> words, texts |-> texts, depth |-> 2, bound |-> bound]
Integer(n) == TEXT("integer", <<n, 1>>, Zero, n \notin -16..15)
Decimal(n, d) == TEXT("decimal", <<n, d>>, Zero, FALSE)
Complex(n, m) == TEXT("complex", <<n, 1>>, <<m, 1>>, FALSE)
Ratio(n, d) == TEXT("ratio", <<n, d>>, Zero, FALSE)
Words(f, ops) == {<<f, op>> : op \in ops}
Integers(S) == {Integer(n) : n \in S}

LongProgram == Program(
    Words("d", Ops \cup Cmps \cup {"negate", "abs", "2*", "2/", "min", "max"}) \cup Words("d0", Cmps)
        \cup Words("u", Cmps) \cup Words("du", Cmps) \cup Words(">", {"s", "d", "ud"}),
    Integers({-33, -32, -17, -16, -1, 0, 1, 15, 16, 31, 32, 70}), 70)
BigProgram == Program(
    Words("b", Ops \cup Cmps \cup {"negate", "**", "lshift", "rshift"}) \cup Words("b0", Cmps)
        \cup Words(">", {"s", "d", "ud", "f", "b"}) \cup Words("write", {"d", "ud", "bn", "q", "c"})
        \cup Words("is", {"odd", "even", "prime", "unsigned", "bignum"}),
    Integers({-65, 0, 2, 32}) \cup {Decimal(5, 2)}, 66)
BigUnaryProgram == Program(
    Words("b", {"negate", "abs", "2*", "2/", "min", "max"}) \cup Words(">", {"f", "b"}),
    Integers({-65, 0, 3, 32}) \cup {Decimal(5, 2)}, 66)
RatioProgram == Program(
    Words("q", Ops \cup Cmps \cup {"negate", "abs"}) \cup Words("q0", Cmps) \cup {<<"make", "ratio">>}
        \cup Words("e", {"numerator", "denominator"}) \cup Words(">", {"s", "q"}),
    Integers({0, 3}) \cup {Ratio(1, 2), Ratio(-6, 4), Ratio(5, 6)}, 8)
FloatProgram == Program(
    Words("f", {"abs", "floor", "ceil", "trunc", "round", "mod", "**"}) \cup Words("q", {"1/", "floor", "ceil"})
        \cup Words(">", {"f", "b", "q"}) \cup Words("e", {"->inexact", "inexact->"})
        \cup Words("is", {"inf", "nan", "exact", "inexact", "float", "ratio"}),
    Integers({0, 3, 32}) \cup {Decimal(-5, 2), Ratio(1, 3), Ratio(5, 0)}, 6)
ComplexProgram == Program(
    Words("c", Ops \cup {"=", "<>", "conj", "abs2", "1/", "real", "imag"}) \cup Words("c0", {"=", "<>"})
        \cup {<<"make", "rectangular">>} \cup Words(">", {"c"}),
    Integers({0, 2}) \cup {Complex(1, 1)}, 3)
MixedProgram == Program(
    Words("n", Ops \cup {"=", "<"}) \cup Words("is", DOMAIN Rank \cup {"integer", "unsigned", "ulong-long", "number"}),
    Integers({0, 3, 31, 40}) \cup {Decimal(1, 2), Complex(1, 0), Ratio(1, 2)}, 40)
\* Numbers on both sides of what a word can hold of
\* their numerators and denominators (63), and errors down to what a float can tell apart.
RationalizeProgram == Program(
    Words("e", {"rationalize"}),
    Integers({0, 3, 31, 70}) \cup {Ratio(n, d) : n \in {-62, -7, -1, 1, 5, 31}, d \in {3, 7, 12, 60, 61, 63}}
        \cup {Decimal(n, 8) : n \in -15..15} \cup {Decimal(n, 16) : n \in -15..15}
        \cup {Decimal(n, d) : n \in {-9, 11, 13, 15}, d \in {32, 64, 128, 256, 512}}, 1024)
MCPrograms == {LongProgram, BigProgram, BigUnaryProgram, RatioProgram, FloatProgram, ComplexProgram,
               MixedProgram, RationalizeProgram}
=============================================================================
