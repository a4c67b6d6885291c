----------------------------- MODULE FthEffects -----------------------------
(***************************************************************************)
(* What the instructions of the inner interpreter promise, by their stack  *)
(* effects ( x1 ... xn -- ... ): on a stack that is a sequence, with       *)
(* numbers for cells, and on a return stack of items: return addresses,    *)
(* loops, local frames and single cells.                                   *)
(*                                                                         *)
(* An instruction that has not its operands or no room raises and empties  *)
(* both stacks.  A program that breaks into an item of the return stack,   *)
(* or uses one that is not on top, is on its own: nothing is promised.     *)
(* Where an access may leave the stacks and the memory the program has,    *)
(* the word has that outcome, Lost or Ended; no other word may.            *)
(***************************************************************************)
EXTENDS Integers, Sequences, FiniteSets

CONSTANTS
    Width,      \* bits of a cell
    IntWidth    \* bits of an int

VARIABLES
    stack,      \* sequence of cells, top last
    rstack,     \* sequence of items [k, c], top last
    frame,      \* the item that is the frame in use, 0 for none
    ip,
    did,        \* [word, res, args]
    prog
vars == <<stack, rstack, frame, ip, did, prog>>

Size == prog.nData
Word == -(2^(Width - 1))..(2^(Width - 1) - 1)
int_MAX == 2^(IntWidth - 1) - 1
Wrap(n) == CHOOSE m \in Word : (m - n) % 2^Width = 0

\* The operands x1 ... xn and the cells below them.
Operands(n) == SubSeq(stack, Len(stack) - n + 1, Len(stack))
Below(n) == SubSeq(stack, 1, Len(stack) - n)
Last(s) == s[Len(s)]

-----------------------------------------------------------------------------
(* Return stack items. *)

Lengths == [ip |-> 1, cell |-> 1, frame |-> 1, loop |-> 3]
Complete(i) == Len(i.c) = Lengths[i.k]
Tags == [ip |-> "ip", frame |-> "frame", leave |-> "loop"]
Item(c) == [k |-> IF c.t \in DOMAIN Tags THEN Tags[c.t] ELSE "cell", c |-> <<c>>]
LoopItem(b, limit, index) == [k |-> "loop", c |-> <<[t |-> "leave", v |-> b], limit, index>>]
\* The item n places from the top is of kind k.
Is(n, k) == n <= Len(rstack) /\ rstack[Len(rstack) - n + 1].k = k
Top(n) == rstack[Len(rstack) - n + 1]
Index(n) == Top(n).c[3]
Pop(n) == SubSeq(rstack, 1, Len(rstack) - n)
\* Every item is whole and the frame in use is one of them.
Defined ==
    /\ \A j \in DOMAIN rstack : Complete(rstack[j])
    /\ frame # 0 => frame <= Len(rstack) /\ rstack[frame].k = "frame"

-----------------------------------------------------------------------------
Errors == {"stack-underflow", "stack-overflow", "return-stack-overflow", "wrong-number-of-args",
           "numeric-argument", "signal"}
Raises(e) == did'.res = e /\ stack' = <<>> /\ rstack' = <<>> /\ ip' = 0

Quiet == UNCHANGED <<rstack, frame, ip>>

\* The stack effect with in operands; Room cells are asked for beyond what is left.
Effect(w, in, out, room, Then) ==
    /\ did'.word = w
    /\ UNCHANGED prog
    /\ \/ Len(stack) < in /\ Raises("stack-underflow")
       \/ Len(stack) >= in /\ Len(stack) - in + out + room > Size /\ Raises("stack-overflow")
       \/ Len(stack) >= in /\ Len(stack) - in + out + room <= Size /\ Then

\* ( x1 ... xn -- xs[1] ... ), and whether a free cell is asked for though none is used.
Shuffles == {
    <<"dup", 1, <<1, 1>>, 0>>,          <<"swap", 2, <<2, 1>>, 0>>,
    <<"drop", 1, <<>>, 0>>,             <<"nip", 2, <<2>>, 0>>,
    <<"tuck", 2, <<2, 1, 2>>, 0>>,      <<"2drop", 2, <<>>, 0>>,
    <<"2dup", 2, <<1, 2, 1, 2>>, 0>>,   <<"over", 2, <<1, 2, 1>>, 0>>,
    <<"2over", 4, <<1, 2, 3, 4, 1, 2>>, 0>>,
    <<"2swap", 4, <<3, 4, 1, 2>>, 0>>,
    <<"rot", 3, <<2, 3, 1>>, 1>>,       <<"-rot", 3, <<3, 1, 2>>, 1>>}
Shuffle == \E s \in Shuffles :
    Effect(s[1], s[2], Len(s[3]), s[4],
           /\ did'.res = "ok" /\ Quiet
           /\ stack' = Below(s[2]) \o [k \in 1..Len(s[3]) |-> Operands(s[2])[s[3][k]]])

\* An index that is no int, or the last one, may get past the checks; what is not there is
\* then read or moved, or there is an error of the one kind or the other.
Lost == did'.res = "wild"
Cut(n) == n >= int_MAX
\* ( xn ... x1 n -- xn ... x1 xn ), where 0 pick gives 0 and a negative n stays.
Pick ==
    Effect("pick", 1, 0, 0,
        LET n == Last(stack).v
        IN  \/ n < 0 /\ did'.res = "ok" /\ Quiet /\ UNCHANGED stack
            \/ n >= 0 /\ Len(stack) < n + 1 /\ Raises("stack-underflow")
            \/ Cut(n) /\ Len(stack) < n + 1 /\ Lost
            \/ n >= 0 /\ Len(stack) = Size /\ Raises("stack-overflow")
            \/ /\ n >= 0 /\ Len(stack) >= n + 1 /\ did'.res = "ok" /\ Quiet
               /\ stack' = Append(Below(1), IF n = 0 THEN Last(stack) ELSE stack[Len(stack) - n]))
\* ( xn ... x0 n -- xn-1 ... x0 xn ) and its inverse.
Roll(w) ==
    Effect(w, 1, 0, 0,
        LET n == Last(stack).v
            xs == SubSeq(Below(1), Len(stack) - n - 1, Len(stack) - 1)
        IN  \/ n < 1 /\ did'.res = "ok" /\ Quiet /\ stack' = Below(1)
            \/ n >= 1 /\ Len(stack) - 1 < n + 1 /\ Raises("stack-underflow")
            \/ Cut(n) /\ Len(stack) - 1 < n + 1 /\ Lost
            \/ /\ n >= 1 /\ Len(stack) - 1 >= n + 1 /\ did'.res = "ok" /\ Quiet
               /\ stack' = SubSeq(stack, 1, Len(stack) - n - 2)
                           \o IF w = "roll" THEN Append(Tail(xs), Head(xs))
                              ELSE <<Last(xs)>> \o SubSeq(xs, 1, n))

-----------------------------------------------------------------------------
(* Laws of arithmetic: x, y, z are the operands and p, q the results. *)

\* x = k * y + r with the remainder on the side of x, and k the quotient q as a word.
SymmetricLaw(x, y, q, r) == \E k \in {q, q + 2^Width} :
    x = k * y + r /\ r * x >= 0 /\ r * r < y * y
Unsigned(n) == n % 2^Width
Rests(y) == {r \in Word : r * r < y * y}
\* um/mod leaves the quotient p below the remainder q (its help has them the other way around).
UnsignedLaw(x, y, p, q) == x = p * y + q /\ q < y
FlooredLaw(x, y, q, r) == x = q * y + r /\ r * y >= 0 /\ r * r < y * y
\* abs is promised for ints alone, as it cuts its operand to one.
Holds1(w, x, p) ==
    CASE w = "1+" -> x = Wrap(p - 1)      [] w = "1-" -> x = Wrap(p + 1)
      [] w = "2+" -> x = Wrap(p - 2)      [] w = "2-" -> x = Wrap(p + 2)
      [] w = "2*" -> p = Wrap(x + x)      [] w = "2/" -> x - 2 * p \in {0, 1}
      [] w = "negate" -> Wrap(x + p) = 0  [] w = "invert" -> x + p = -1
      [] w = "abs" -> x \in -int_MAX..int_MAX => p >= 0 /\ p \in {x, -x}
Holds2(w, x, y, p) ==
    CASE w = "+" -> p = Wrap(x + y)       [] w = "-" -> x = Wrap(p + y)
      [] w = "*" -> p = Wrap(x * y)       [] w = "m*" -> p = Wrap(x * y)
      [] w = "m+" -> p = Wrap(x + y)
      [] w = "/" -> \E r \in Rests(y) : SymmetricLaw(x, y, p, r)
      [] w = "mod" -> \E q \in Word : SymmetricLaw(x, y, q, p)
      [] w = "max" -> p \in {x, y} /\ p >= x /\ p >= y
      [] w = "min" -> p \in {x, y} /\ p <= x /\ p <= y
Holds22(w, x, y, p, q) ==
    CASE w \in {"/mod", "sm/rem"} -> SymmetricLaw(x, y, q, p)
      [] w = "fm/mod" -> FlooredLaw(x, y, q, p)
      [] w = "um/mod" -> UnsignedLaw(Unsigned(x), Unsigned(y), Unsigned(p), Unsigned(q))
\* */ and */mod divide the product as a word.
Holds3(w, x, y, z, p) ==
    CASE w = "*/" -> \E r \in Rests(z) : SymmetricLaw(Wrap(x * y), z, p, r)
      [] w = "m*/" -> \E r \in Rests(z) : SymmetricLaw(Wrap(x * y), z, p, r)
Unary == {"1+", "1-", "2+", "2-", "2*", "2/", "negate", "invert", "abs"}
Operators == {
    <<Unary, 1, 1>>, <<{"+", "-", "*", "/", "mod", "max", "min", "m*", "m+"}, 2, 1>>,
    <<{"/mod", "sm/rem", "fm/mod", "um/mod"}, 2, 2>>, <<{"*/", "m*/"}, 3, 1>>, <<{"*/mod"}, 3, 2>>}
Arithmetic == \E o \in Operators : LET w == did'.word  in == o[2]  out == o[3] IN
    /\ w \in o[1]
    /\ Effect(w, in, out, 0,
        LET x(k) == Operands(in)[k].v
            p(k) == stack'[Len(stack') - out + k].v
        IN  \/ did'.res \in {"signal", "numeric-argument"} /\ Raises(did'.res) /\ in > 1 /\ x(in) <= 0
            \/ /\ did'.res = "ok" /\ Quiet
               /\ Len(stack') = Len(stack) - in + out
               /\ SubSeq(stack', 1, Len(stack) - in) = Below(in)
               /\ CASE in = 1 -> Holds1(w, x(1), p(1))
                    [] in = 2 /\ out = 1 -> Holds2(w, x(1), x(2), p(1))
                    [] in = 2 /\ out = 2 -> Holds22(w, x(1), x(2), p(1), p(2))
                    [] in = 3 /\ out = 1 -> Holds3(w, x(1), x(2), x(3), p(1))
                    [] in = 3 /\ out = 2 -> SymmetricLaw(Wrap(x(1) * x(2)), x(3), p(2), p(1)))

\* Every other word: n operands for m results, whatever they are, and nothing else touched.
Arity == {
    <<{"literal", "variable", "false", "true", "0e", "1e", "-1e", "depth"}, 0, 1>>, <<{"stringlit"}, 0, 2>>,
    <<{"0=", "0<>", "0<", "0>",
       "0<=", "0>=", "not", "fnegate", "f2*", "f2/", "1/f", "f0=", "f0<>", "f0<", "f0>", "f0<=",
       "f0>=", "@", "c@"}, 1, 1>>,
    <<{"xor", "and", "or", "&&", "||", "lshift", "rshift", "=", "<>", "<", ">", "<=", ">=",
       "f+", "f-", "f*", "f/", "fmax", "fmin", "f=", "f<>", "f<", "f>", "f<=", "f>="}, 2, 1>>,
    <<{"within"}, 3, 1>>, <<{"!", "c!"}, 2, 0>>, <<{"fill", "move"}, 3, 0>>,
    <<{"compare", "compare-insensitive"}, 4, 1>>}
\* The words that are given an address and a length.
Spans == {"fill", "move", "compare", "compare-insensitive"}
Plain == \E a \in Arity : LET w == did'.word IN
    /\ w \in a[1]
    /\ Effect(w, a[2], a[3], 0,
        \/ w \in Spans /\ Lost
        \/ /\ did'.res = "ok" /\ Quiet
           /\ Len(stack') = Len(stack) - a[2] + a[3]
           /\ SubSeq(stack', 1, Len(stack) - a[2]) = Below(a[2]))
QuestionDup ==
    Effect("?dup", 1, 1, 1,
        /\ did'.res = "ok" /\ Quiet
        /\ stack' \in {stack, Append(stack, Last(stack))}
        /\ stack' = stack <=> Last(stack).t \in {"int", "bool", "nil"} /\ Last(stack).v = 0)

-----------------------------------------------------------------------------
(* The return stack, code and frames. *)

\* The words that ask the stacks they change.
Checked == {">r", "r>", "r@", "2>r", "2r>", "2r@", "branch", "branch0", "of"}
\* No cell of the data stack for a word of in operands, or not three of the return stack.
CellsUsed == LET upto[n \in 0..Len(rstack)] == IF n = 0 THEN 0 ELSE upto[n - 1] + Len(rstack[n].c)
             IN  upto[Len(rstack)]
Tight(in) == Len(stack) < in \/ Len(stack) = Size \/ CellsUsed + 3 > prog.nReturn
Ended == did'.res \in {"wild", "overrun"}
\* Word w with in operands: an error, or Then if the program may use it here.  Without the
\* operands, the room or the right to, control or an access may go wrong: the end.
Controls(w, in, May, Then) ==
    /\ did'.word = w /\ UNCHANGED prog
    /\ \/ Ended /\ w \notin Checked /\ (Tight(in) \/ ~(Defined /\ May))
       \/ did'.res \in {"stack-underflow", "stack-overflow", "return-stack-overflow"} /\ Raises(did'.res)
       \/ /\ did'.res = "ok" /\ Len(stack) >= in
          /\ (Defined /\ May) => Then
KeepsReturn == UNCHANGED <<rstack, frame, ip>>
Gives(in, out) == stack' = Below(in) \o out

\* The program may move n items off the return stack: cells and return addresses; and it
\* may put there what is no part of a loop or a frame.
Movable(n) == \A j \in 1..n : Is(j, "cell") \/ Is(j, "ip")
Loose(n) == \A j \in 1..n : Operands(n)[j].t \notin {"frame", "leave"}
TopCell == Last(Top(1).c)
Moves ==
    \/ Controls(">r", 1, Loose(1),
           rstack' = Append(rstack, Item(Last(stack))) /\ Gives(1, <<>>) /\ UNCHANGED <<frame, ip>>)
    \/ Controls("r>", 0, Movable(1),
           rstack' = Pop(1) /\ Gives(0, <<TopCell>>) /\ UNCHANGED <<frame, ip>>)
    \/ Controls("r@", 0, rstack # <<>> /\ ~Is(1, "frame"), Gives(0, <<TopCell>>) /\ KeepsReturn)
    \/ Controls("2>r", 2, Loose(2),
           /\ rstack' = rstack \o <<Item(Operands(2)[1]), Item(Operands(2)[2])>>
           /\ Gives(2, <<>>) /\ UNCHANGED <<frame, ip>>)
    \/ Controls("2r>", 0, Movable(2),
           /\ rstack' = Pop(2) /\ Gives(0, <<Top(2).c[1], Top(1).c[1]>>) /\ UNCHANGED <<frame, ip>>)
    \/ Controls("2r@", 0, Movable(2), Gives(0, <<Top(2).c[1], Top(1).c[1]>>) /\ KeepsReturn)

Jumps(w, in) == Controls(w, in, TRUE, Gives(in, <<>>) /\ UNCHANGED <<rstack, frame>>)
Flow ==
    \/ Controls("call", 0, TRUE,
           rstack' = Append(rstack, Item([t |-> "ip", v |-> ip])) /\ UNCHANGED <<stack, frame>>)
    \/ Controls("dodoes", 0, TRUE,
           /\ rstack' = Append(rstack, Item([t |-> "ip", v |-> ip]))
           /\ SubSeq(stack', 1, Len(stack)) = stack /\ UNCHANGED frame)
    \/ Controls("exit", 0, Is(1, "ip"),
           rstack' = Pop(1) /\ ip' = TopCell.v /\ UNCHANGED <<stack, frame>>)
    \/ Jumps("branch", 0) \/ Jumps("branch0", 1)
    \/ Controls("of", 2, TRUE,
           IF Operands(2)[1] = Operands(2)[2] THEN Gives(2, <<>>) /\ KeepsReturn
           ELSE Gives(2, <<Operands(2)[1]>>) /\ UNCHANGED <<rstack, frame>>)

Loop(b) == LoopItem(b, Operands(2)[1], Operands(2)[2])
\* A loop with the step n: over again while the index has not passed the limit.
Again(n) == IF n < 0 THEN Wrap(Index(1).v + n) >= Top(1).c[2].v
            ELSE Wrap(Index(1).v + n) < Top(1).c[2].v
Steps(in, n) ==
    /\ Gives(in, <<>>) /\ UNCHANGED frame
    /\ \/ /\ ~Again(n) /\ rstack' = Pop(1) /\ UNCHANGED ip
       \/ /\ Again(n) /\ Len(rstack') = Len(rstack) /\ Pop(1) = SubSeq(rstack', 1, Len(rstack) - 1)
          /\ LET top == rstack'[Len(rstack)]
             IN  top.c[3].v = Wrap(Index(1).v + n) /\ top.c[1] = Top(1).c[1] /\ top.c[2] = Top(1).c[2]
Iteration ==
    \/ Controls("do", 2, TRUE,
           (\E b \in prog.blocks : rstack' = Append(rstack, Loop(b))) /\ Gives(2, <<>>)
           /\ UNCHANGED <<frame, ip>>)
    \/ Controls("?do", 2, TRUE,
           /\ Gives(2, <<>>) /\ UNCHANGED frame
           /\ IF Operands(2)[1].v = Operands(2)[2].v THEN UNCHANGED rstack
              ELSE (\E b \in prog.blocks : rstack' = Append(rstack, Loop(b))) /\ UNCHANGED ip)
    \/ Controls("loop", 0, Is(1, "loop"), Steps(0, 1))
    \/ Controls("+loop", 1, Is(1, "loop"), Steps(1, Last(stack).v))
    \/ Controls("leave", 0, Is(1, "loop"),
           rstack' = Pop(1) /\ ip' = Top(1).c[1].v /\ UNCHANGED <<stack, frame>>)
    \/ Controls("unloop", 0, Is(1, "loop"), rstack' = Pop(1) /\ UNCHANGED <<stack, frame, ip>>)
    \/ Controls("i", 0, Is(1, "loop"), Gives(0, <<Index(1)>>) /\ KeepsReturn)
    \/ Controls("j", 0, Is(1, "loop") /\ Is(2, "loop"), Gives(0, <<Index(2)>>) /\ KeepsReturn)
    \/ Controls("k", 0, Is(1, "loop") /\ Is(2, "loop") /\ Is(3, "loop"),
           Gives(0, <<Index(3)>>) /\ KeepsReturn)

\* A frame has its locals above it, as cells.
IsLocal(n) == frame # 0 /\ frame + n < Len(rstack) /\ rstack[frame + n + 1].k = "cell"
               /\ \A j \in 1..n : rstack[frame + j].k = "cell"
Locals ==
    \/ Controls("link", 0, TRUE,
           /\ \E n \in 1..2 : Len(rstack') = Len(rstack) + 1 + n
           /\ SubSeq(rstack', 1, Len(rstack)) = rstack
           /\ frame' = Len(rstack) + 1 /\ rstack'[frame'] = Item([t |-> "frame", v |-> frame]) /\ UNCHANGED <<stack, ip>>)
    \/ Controls("unlink", 0, frame # 0,
           rstack' = SubSeq(rstack, 1, frame - 1) /\ frame' = rstack[frame].c[1].v /\ UNCHANGED <<stack, ip>>)
    \/ Controls("@local", 0, IsLocal(0) /\ IsLocal(1),
           (\E n \in 0..1 : Gives(0, rstack[frame + n + 1].c)) /\ KeepsReturn)
    \/ Controls("tolocal", 1, IsLocal(0) /\ IsLocal(1) /\ Loose(1),
           /\ \E n \in 0..1 : rstack' = [rstack EXCEPT ![frame + n + 1] = Item(Last(stack))]
           /\ Gives(1, <<>>) /\ UNCHANGED <<frame, ip>>)

\* +! and +to change an object that other cells may hold: what else changes is not said.
Adds == \E w \in {"+!", "f+!", "+tolocal", "f+tolocal"} :
    /\ did'.word = w /\ UNCHANGED prog
    /\ \/ did'.res = "stack-underflow" /\ Raises(did'.res)
       \/ Ended /\ w \in {"+tolocal", "f+tolocal"}
          /\ (stack = <<>> \/ ~(Defined /\ IsLocal(0) /\ IsLocal(1)))
       \/ did'.res = "ok" /\ Len(stack') = Len(stack) - (IF w \in {"+tolocal", "f+tolocal"} THEN 1 ELSE 2)
          /\ Len(rstack') = Len(rstack) /\ UNCHANGED ip

-----------------------------------------------------------------------------
\* A C function with req, opt and rest: each argument is what the caller pushed for it, in
\* the order in which it was pushed, a missing optional one is undefined, and nil for
\* the rest stands for none.
Undef == [t |-> "undef", v |-> 0]
Nil == [t |-> "nil", v |-> 0]
Passed(f) ==
    LET all == f.req + f.opt
        given == IF f.rest /\ stack # <<>> /\ Last(stack) = Nil THEN Len(stack) - 1 ELSE Len(stack)
        n == IF given < all THEN given ELSE all
        taken == IF f.rest THEN IF given < Len(stack) THEN n ELSE given ELSE n
        base == given - taken
    IN  /\ did'.args = [k \in 1..all |-> IF k <= n THEN stack[base + k] ELSE Undef]
                       \o SubSeq(stack, base + n + 1, base + taken)
        /\ Len(stack') >= base /\ SubSeq(stack', 1, base) = SubSeq(stack, 1, base)
Calls == \E f \in prog.funcs, w \in {"func", "void-func"} :
    /\ did'.word = w /\ UNCHANGED prog
    /\ \/ Len(stack) < f.req /\ Raises("wrong-number-of-args")
       \/ Len(stack) >= f.req /\ did'.res = "ok" /\ Passed(f) /\ KeepsReturn
       \/ did'.res = "overrun" /\ w = "func" /\ Len(stack) = Size
       \/ did'.res = "wild" /\ f.rest /\ stack # <<>> /\ Last(stack) = Nil /\ Len(stack) <= f.req + f.opt
User == Controls("user", 0, TRUE, SubSeq(stack', 1, Len(stack)) = stack /\ KeepsReturn)

Init ==
    /\ stack = <<>> /\ rstack = <<>> /\ frame = 0 /\ ip = 0
    /\ did = [word |-> "none", res |-> "ok", args |-> <<>>]
Next ==
    \/ Shuffle \/ Pick \/ Roll("roll") \/ Roll("-roll") \/ Arithmetic \/ Plain \/ QuestionDup
    \/ Moves \/ Flow \/ Iteration \/ Locals \/ Adds \/ Calls \/ User

Spec == Init /\ [][Next]_vars
=============================================================================
