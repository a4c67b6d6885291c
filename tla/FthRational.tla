---------------------------- MODULE FthRational ----------------------------
(***************************************************************************)
(* What the number words promise: rational arithmetic, in the schoolbook   *)
(* way, on exact numbers; arithmetic modulo 2^Width where a word calculates *)
(* with machine integers; and nothing where floats take part, but that the *)
(* numbers below the operands stay.                                        *)
(***************************************************************************)
EXTENDS Integers, Sequences

CONSTANTS Width, Programs

VARIABLES
    vals,   \* numbers [t, q, im], top last: type and value <<n, d>>
    errno, did, prog
vars == <<vals, errno, did, prog>>

Word == -(2^(Width - 1))..(2^(Width - 1) - 1)
Integers == {"int", "llong"}
Exact(x) == x.t \in Integers \cup {"bignum", "ratio"} /\ x.q[2] # 0
Whole(x) == x.t \in Integers \cup {"bignum"}

Magnitude(n) == IF n < 0 THEN -n ELSE n
Sign(n) == IF n < 0 THEN -1 ELSE 1
Cut(a, b) == Sign(a) * Sign(b) * (Magnitude(a) \div Magnitude(b))

\* The same number, and sums, products and quotients as they are taught.
Same(q, r) == q[2] # 0 /\ r[2] # 0 /\ q[1] * r[2] = r[1] * q[2]
Schoolbook(op, q, r) ==
    CASE op = "+" -> <<q[1] * r[2] + r[1] * q[2], q[2] * r[2]>>
      [] op = "-" -> <<q[1] * r[2] - r[1] * q[2], q[2] * r[2]>>
      [] op = "*" -> <<q[1] * r[1], q[2] * r[2]>>
      [] op = "/" -> <<q[1] * r[2], q[2] * r[1]>>
InOrder(op, q, r) ==
    LET a == q[1] * r[2]
        b == r[1] * q[2]
    IN  CASE op = "=" -> a = b [] op = "<>" -> a # b [] op = "<" -> a < b
          [] op = ">" -> a > b [] op = "<=" -> a <= b [] op = ">=" -> a >= b
\* An integer calculation: the quotient is cut.
Integral(op, a, b) == IF op = "/" THEN Cut(a, b) ELSE Schoolbook(op, <<a, 1>>, <<b, 1>>)[1]

Ops == {"+", "-", "*", "/"}
Cmps == {"=", "<>", "<", ">", "<=", ">="}

Depth == Len(vals)
Below(n) == SubSeq(vals, 1, Depth - n)
First == vals[Depth - 1]
Second == vals[Depth]
Top == vals'[Len(vals')]

\* One number comes of n operands.
Comes(n, Types, Right(_)) ==
    /\ did'.res = "value"
    /\ SubSeq(vals', 1, Depth - n) = Below(n) /\ Len(vals') = Depth - n + 1
    /\ Top.t \in Types /\ Right(Top.q)
Says(n, b) == did'.res = (IF b THEN "true" ELSE "false") /\ vals' = Below(n)
Fails(e) == did'.res = e /\ vals' = <<>>

\* The type that calculates: a ratio before a bignum before integers.
Calculates(f, x, y) ==
    IF f # "n" THEN f
    ELSE IF "ratio" \in {x.t, y.t} THEN "q" ELSE IF "bignum" \in {x.t, y.t} THEN "b" ELSE "d"
\* Operands the family promises something about.
Covers(f, x, y) ==
    CASE f \in {"q", "n"} -> Exact(x) /\ Exact(y)
      [] f = "b" -> Whole(x) /\ Whole(y)
      [] f = "d" -> {x.t, y.t} \subseteq Integers
      [] OTHER -> FALSE

Calculation(w) ==
    LET f == Calculates(w[1], First, Second)
        a == First.q
        b == Second.q
    IN  CASE w[2] = "/" /\ b[1] = 0 /\ f = "d" -> Fails("signal")
          [] w[2] = "/" /\ b[1] = 0 /\ f = "b" -> Fails("bignum-error")
          \* The smallest integer over -1 is not an integer.
          [] w[2] = "/" /\ f = "d" /\ Integral("/", a[1], b[1]) \notin Word -> Fails("signal")
          [] w[2] = "/" /\ b[1] = 0 /\ f = "q" -> did'.res = "bignum-error" \/ Top.q[2] = 0
          [] f = "d" -> Comes(2, Integers, LAMBDA q : q[1] \in Word /\ (q[1] - Integral(w[2], a[1], b[1])) % 2^Width = 0)
          [] f = "b" -> Comes(2, {"bignum"}, LAMBDA q : q = <<Integral(w[2], a[1], b[1]), 1>>)
          [] f = "q" -> Comes(2, {"ratio"}, LAMBDA q : Same(q, Schoolbook(w[2], a, b)))

Making ==
    LET a == First.q[1]
        b == Second.q[1]
    IN  IF b = 0 THEN Fails("math-error") ELSE Comes(2, {"ratio"}, LAMBDA q : Same(q, <<a, b>>))

\* The promise of a word of one number.
Unary(w) ==
    LET x == Second
        n == x.q[1]
        d == x.q[2]
    IN  CASE w \in {<<"q", "negate">>, <<"b", "negate">>} -> Comes(1, {"ratio", "bignum"}, LAMBDA q : Same(q, <<-n, d>>))
          [] w \in {<<"q", "abs">>, <<"b", "abs">>} -> Comes(1, {"ratio", "bignum"}, LAMBDA q : Same(q, <<Magnitude(n), d>>))
          [] w \in {<<">", "q">>, <<">", "b">>} -> Comes(1, {"ratio", "bignum"}, LAMBDA q : Same(q, x.q))
          [] w = <<"d", "negate">> -> Comes(1, Integers, LAMBDA q : q[1] \in Word /\ (q[1] + n) % 2^Width = 0)
          [] w[1] \in {"q0", "b0", "d0"} -> Says(1, InOrder(w[2], x.q, <<0, 1>>))
          [] OTHER -> TRUE
UnaryCovers(w) ==
    \/ (w[1] = "q0" \/ w \in {<<"q", "negate">>, <<"q", "abs">>}) /\ Exact(Second)
    \/ (w[1] = "b0" \/ w \in {<<"b", "negate">>, <<"b", "abs">>}) /\ Whole(Second)
    \/ (w[1] = "d0" \/ w = <<"d", "negate">>) /\ Second.t \in Integers
    \/ w = <<">", "q">> /\ Exact(Second)
    \/ w = <<">", "b">> /\ Whole(Second)

Binary(w) == Depth >= 2 /\ w[1] \in {"d", "b", "q", "n"} /\ w[2] \in Ops \cup Cmps /\ Covers(w[1], First, Second)

\* What the word executed promises.
Promise ==
    LET w == did'.word
    IN  IF did'.res = "stack-underflow" THEN vals' = <<>>
        ELSE IF w[1] = "read" THEN vals' = <<>> \/ Below(0) = SubSeq(vals', 1, Depth)
        ELSE IF Binary(w) /\ w[2] \in Ops THEN Calculation(w)
        ELSE IF Binary(w) THEN Says(2, InOrder(w[2], First.q, Second.q))
        ELSE IF w = <<"make", "ratio">> /\ Whole(First) /\ Whole(Second) THEN Making
        ELSE IF UnaryCovers(w) THEN Unary(w)
        ELSE vals' = <<>> \/ SubSeq(vals', 1, Depth - 2) = Below(2)

Init == prog \in Programs /\ vals = <<>> /\ errno = "0" /\ did = [word |-> <<"none", "none">>, res |-> "none"]
Next == Promise /\ UNCHANGED prog
Spec == Init /\ [][Next]_vars
=============================================================================
