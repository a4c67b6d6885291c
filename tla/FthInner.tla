------------------------------ MODULE FthInner ------------------------------
(***************************************************************************)
(* The inner interpreter (ficlVmInnerLoop in ficl/vm.c) and the arithmetic *)
(* words of ficl/primitives.c: instructions on the data stack, the return  *)
(* stack, local frames and memory.                                         *)
(*                                                                         *)
(* An action is one instruction.  A program is the set of instructions and *)
(* operands it is made of, in any order (`prog'): compiled words and what  *)
(* a user types at the prompt are both such sequences.  Instructions that  *)
(* call CHECK_STACK raise and reset the VM when a stack has not the cells  *)
(* or the room; the others trust the program.  `did' is the instruction    *)
(* executed last and what came of it.                                      *)
(*                                                                         *)
(* Floats and integers too large for a fixnum are objects (mem.objs); a    *)
(* cell holds which one, and copies of the cell share it.  ip is the block *)
(* of code that runs, 0 at the prompt.                                     *)
(***************************************************************************)
EXTENDS FthStack, FiniteSetsExt, SequencesExt, Bitwise

CONSTANTS
    Width,      \* bits of a ficlInteger
    IntWidth,   \* bits of an int
    Floats,     \* float values, in halves
    MaxObjects, \* bound: numbers that are objects at a time
    CharWidth,  \* bits of a char
    Lower,      \* tolower(3)
    Programs    \* [words, literals, objs, blocks, funcs, nData, nReturn, chars, cells]

ASSUME InnerAssumption ==
    /\ IntWidth \in Nat /\ Width \in Nat /\ 1 < IntWidth /\ IntWidth <= Width
    /\ Floats \subseteq Int /\ {-2, 0, 2} \subseteq Floats
    /\ MaxObjects \in Nat
    /\ CharWidth \in Nat /\ 1 < CharWidth /\ CharWidth <= IntWidth

VARIABLES data, ret, ip, mem, did, prog
vars == <<data, ret, ip, mem, did, prog>>

-----------------------------------------------------------------------------
(* Machine integers and numbers in cells. *)

Wrapped(n, bits) == ((n + 2^(bits - 1)) % 2^bits) - 2^(bits - 1)
ficlInteger(n) == Wrapped(n, Width)
int(n) == Wrapped(n, IntWidth)
ficlUnsigned(n) == n % 2^Width
Word == -(2^(Width - 1))..(2^(Width - 1) - 1)
char(n) == Wrapped(n, CharWidth)
MinInteger == -(2^(Width - 1))
\* A fixnum has one bit less than a cell.
FIXABLE_P(n) == n = Wrapped(n, Width - 1)

IsInt(c) == c.t = "int"
\* The type of what a cell stands for: ficl_to_fth.
Type(c) == IF c.t = "obj" THEN mem.objs[c.v].t ELSE c.t
Numeric(c) == Type(c) \in {"int", "llong", "float"}
Value(c) == IF c.t = "obj" THEN mem.objs[c.v].v ELSE c.v
Sign(n) == IF n < 0 THEN -1 ELSE 1
\* / of C, cut towards zero.
Trunc(a, b) == Sign(a) * Sign(b) * ((Sign(a) * a) \div (Sign(b) * b))
\* rint(3) of a number of halves: a tie goes to the even integer.
Rint(h) == (h \div 2) + IF h % 2 = 1 /\ (h \div 2) % 2 = 1 THEN 1 ELSE 0
\* fth_long_long_ref and fth_float_ref; a float is a number of halves.
LongRef(c) == IF Type(c) = "float" THEN Rint(Value(c)) ELSE Value(c)
FloatRef(c) == IF Type(c) = "float" THEN Value(c) ELSE 2 * Value(c)
Whole(c) == Type(c) \in {"int", "llong"}

\* New objects; Boxed puts them into mem.objs.
FLOAT(n) == CELL("float", n)
LLONG(n) == CELL("llong", n)
\* ficlStackPush2Integer
DOUBLE(n) == IF FIXABLE_P(n) THEN INT(n) ELSE LLONG(n)

VM_FALSE_OR_NULL_P(c) == c \in {INT(0), BOOL_TO_FTH(FALSE), FTH_NIL}
VM_NOT_FALSE_P(c) == ~VM_FALSE_OR_NULL_P(c)
fth_instance_p(c) == c.t \in {"bool", "nil", "undef", "obj"}

\* ficl2IntegerDivideSymmetric, by the unsigned division of the absolute values.
Magnitude(n) == ficlUnsigned(ficlInteger(Sign(n) * n))
Quotient(num, den) ==
    ficlInteger(Sign(num) * Sign(den) * ficlInteger(Magnitude(num) \div Magnitude(den)))
Remainder(num, den) == ficlInteger(Sign(num) * ficlInteger(Magnitude(num) % Magnitude(den)))

-----------------------------------------------------------------------------
(* What an instruction leaves. *)

Running == did.res \notin {"overrun", "wild"}
Executes(w) == Running /\ w \in prog.words
\* FICL_WORD_COMPILE_ONLY: only found in code.
Compiled(w) == Executes(w) /\ ip # 0

Done(w, r, a) == did' = [word |-> w, res |-> r, args |-> a] /\ UNCHANGED prog

\* ficlVmThrow out of the loop and ficlVmReset by the outer interpreter; frame stays.
Raise(w, e) ==
    /\ data' = ficlStackReset(data) /\ ret' = ficlStackReset(ret) /\ ip' = 0
    /\ Done(w, e, <<>>)
    /\ UNCHANGED mem
\* Undefined: control or an access went where no code or memory of the program is.
Wild(w) == Done(w, "wild", <<>>) /\ UNCHANGED <<data, ret, ip, mem>>

Cells(s) == {s.cells[j] : j \in DOMAIN s.cells}
MemCells(m) == {m.cells[j] : j \in DOMAIN m.cells}
\* The objects in use by cells and by literals; the others are collected some time.
UsedObjs(d, r, m) ==
    {c.v : c \in {c \in Cells(d) \cup Cells(r) \cup MemCells(m) : c.t = "obj"}}
        \cup 1..Len(prog.objs)
Fresh(d, r, m) == {c \in Cells(d) \cup Cells(r) \cup MemCells(m) : c.t \in {"float", "llong"}}
NoObj == CELL("none", 0)
\* c is boxed as object k.
BoxIn(s, c, k) == [s EXCEPT !.cells = [j \in DOMAIN @ |-> IF @[j] = c THEN CELL("obj", k) ELSE @[j]]]

\* A top that left its stack has had memory of something else overwritten.
Outcome(d, r) == IF InBounds(d) /\ InBounds(r) THEN "ok" ELSE "overrun"
Leave(w, d0, r0, i, m, a) ==
    LET d == Settle(d0)
        r == Settle(r0)
        new == Fresh(d, r, m)
        used == UsedObjs(d, r, m)
        free == (1..MaxObjects) \ used
        k == CHOOSE k \in free : \A j \in free : k <= j
        c == CHOOSE c \in new : TRUE
        kept == [j \in 1..MaxObjects |-> IF j \in used THEN m.objs[j] ELSE NoObj]
    IN  /\ ip' = i
        /\ Done(w, Outcome(d0, r0), a)
        /\ IF new = {}
           THEN data' = d /\ ret' = r /\ mem' = [m EXCEPT !.objs = kept]
           ELSE /\ free # {}
                /\ data' = BoxIn(d, c, k) /\ ret' = BoxIn(r, c, k)
                /\ mem' = BoxIn([m EXCEPT !.objs = [kept EXCEPT ![k] = c]], c, k)
LeaveData(w, d) == Leave(w, d, ret, ip, mem, <<>>)

\* CHECK_STACK(pop, push) on stack s, or what follows it.
Check(w, s, pop, push, overflow, Then) ==
    \/ StackUnderflow(s, pop) /\ Raise(w, "stack-underflow")
    \/ StackOverflow(s, pop, push) /\ Raise(w, overflow)
    \/ ~StackUnderflow(s, pop) /\ ~StackOverflow(s, pop, push) /\ Then
CHECK_STACK(w, pop, push, Then) == Check(w, data, pop, push, "stack-overflow", Then)
CHECK_RETURN_STACK(w, pop, push, Then) == Check(w, ret, pop, push, "return-stack-overflow", Then)

\* dataTop[-n] and returnTop[-n]
D(n) == ficlStackFetch(data, n)
R(n) == ficlStackFetch(ret, n)
PushAll(s, cs) ==
    LET push[n \in 0..Len(cs)] == IF n = 0 THEN s ELSE ficlStackPush(push[n - 1], cs[n])
    IN  push[Len(cs)]
\* The data stack with n cells dropped and the cells cs pushed.
Replace(n, cs) == PushAll(ficlStackDrop(data, n), cs)
Operands(n, P(_)) == \A k \in 0..(n - 1) : P(D(k))

\* An instruction that takes n cells off the data stack and puts cs there.
Instruction(w, n, cs) ==
    Executes(w) /\ CHECK_STACK(w, n, Len(cs), LeaveData(w, Replace(n, cs)))
\* The same on operands of one type: programs do arithmetic on numbers only.
Typed(w, n, P(_), cs) ==
    Executes(w) /\ CHECK_STACK(w, n, Len(cs), Operands(n, P) /\ LeaveData(w, Replace(n, cs)))

-----------------------------------------------------------------------------
(* Literals and the data stack. *)

Literal == \E c \in prog.literals : Instruction("literal", 0, <<c>>)
StringLiteral == \E a \in DOMAIN mem.chars, n \in {1, 2} :
    Instruction("stringlit", 0, <<CELL("addr", a), INT(n)>>)
\* (variable), (create) and (user): the address of a cell.  (user) does not check.
Variable == \E a \in DOMAIN mem.cells : Instruction("variable", 0, <<CELL("var", a)>>)
User == \E a \in DOMAIN mem.cells :
    Executes("user") /\ LeaveData("user", ficlStackPush(data, CELL("var", a)))
False == Instruction("false", 0, <<INT(0)>>)
True == Instruction("true", 0, <<INT(-1)>>)

Dup == Instruction("dup", 1, <<D(0), D(0)>>)
QuestionDup ==
    /\ Executes("?dup")
    /\ CHECK_STACK("?dup", 1, 2,
           LeaveData("?dup", IF VM_NOT_FALSE_P(D(0)) THEN ficlStackPush(data, D(0)) ELSE data))
Swap == Instruction("swap", 2, <<D(0), D(1)>>)
Drop == Instruction("drop", 1, <<>>)
Nip == Instruction("nip", 2, <<D(0)>>)
Tuck == Instruction("tuck", 2, <<D(0), D(1), D(0)>>)
TwoDrop == Instruction("2drop", 2, <<>>)
TwoDup == Instruction("2dup", 2, <<D(1), D(0), D(1), D(0)>>)
Over == Instruction("over", 2, <<D(1), D(0), D(1)>>)
TwoOver == Instruction("2over", 4, <<D(3), D(2), D(1), D(0), D(3), D(2)>>)
TwoSwap == Instruction("2swap", 4, <<D(1), D(0), D(3), D(2)>>)
Depth == Instruction("depth", 0, <<INT(STKDEPTH(data))>>)

\* CHECK_STACK((int)i + 1, (int)i + 2) and the access that follows, which goes by the
\* whole cell i.  The sums are ints: past the largest one they have gone around, or, by a
\* compiler that takes them to have not, are as if an int were wider.
int_MAX == 2^(IntWidth - 1) - 1
CheckIndex(w, s, i, Then) ==
    \E pop \in {int(int(i) + 1), int(i) + 1} :
        Check(w, s, pop, pop + 1, "stack-overflow", IF Reaches(s, i) THEN Then ELSE Wild(w))
\* The index stays on the stack and is overwritten; the check asks for a cell more.
Pick ==
    /\ Executes("pick")
    /\ CHECK_STACK("pick", 1, 0,
        /\ IsInt(D(0))
        /\ \/ D(0).v < 0 /\ LeaveData("pick", data)
           \/ /\ D(0).v >= 0
              /\ CheckIndex("pick", data, D(0).v, LeaveData("pick", ficlStackSetTop(data, D(D(0).v)))))

\* From the label ROLL, for s with the index dropped: again a cell more.
RollFrom(w, s, i, dir) == CheckIndex(w, s, i, LeaveData(w, ficlStackRoll(s, dir * i)))
Rot == Executes("rot") /\ RollFrom("rot", data, 2, 1)
MinusRot == Executes("-rot") /\ RollFrom("-rot", data, 2, -1)
RollWord(w, dir) ==
    /\ Executes(w)
    /\ CHECK_STACK(w, 1, 0,
        /\ IsInt(D(0))
        /\ \/ D(0).v < 1 /\ LeaveData(w, ficlStackPop(data))
           \/ D(0).v >= 1 /\ RollFrom(w, ficlStackPop(data), D(0).v, dir))
Roll == RollWord("roll", 1)
MinusRoll == RollWord("-roll", -1)

-----------------------------------------------------------------------------
(* Integer arithmetic, on raw cells.  A division may end in SIGFPE. *)

\* X below Y, the top of the stack.
X == D(1).v
Y == D(0).v
Arith(w, n, cs) == Typed(w, n, IsInt, cs)

Plus == Arith("+", 2, <<INT(ficlInteger(X + Y))>>)
Minus == Arith("-", 2, <<INT(ficlInteger(X - Y))>>)
Star == Arith("*", 2, <<INT(ficlInteger(X * Y))>>)
Add(w, n) == Arith(w, 1, <<INT(ficlInteger(Y + n))>>)
OnePlus == Add("1+", 1)
OneMinus == Add("1-", -1)
TwoPlus == Add("2+", 2)
TwoMinus == Add("2-", -2)
TwoStar == Arith("2*", 1, <<INT(ficlInteger(2 * Y))>>)
TwoSlash == Arith("2/", 1, <<INT(Y \div 2)>>)
Negate == Arith("negate", 1, <<INT(ficlInteger(-Y))>>)
\* abs(3) of the int that the cell is cut to.
Abs == Arith("abs", 1, <<INT(int(Sign(int(Y)) * int(Y)))>>)
Max2 == Arith("max", 2, <<INT(IF X > Y THEN X ELSE Y)>>)
Min2 == Arith("min", 2, <<INT(IF X < Y THEN X ELSE Y)>>)
LogicXor == Arith("xor", 2, <<INT(ficlInteger(ficlUnsigned(X) ^^ ficlUnsigned(Y)))>>)
Invert == Arith("invert", 1, <<INT(-1 - Y)>>)
\* A shift by Width bits or more is undefined: the build takes the count modulo Width, or all bits out.
ShiftCounts == IF ficlUnsigned(Y) < Width THEN {ficlUnsigned(Y)} ELSE {ficlUnsigned(Y) % Width, Width}
LShift == \E n \in ShiftCounts : Arith("lshift", 2, <<INT(ficlInteger(ficlUnsigned(X) * 2^n))>>)
RShift == \E n \in ShiftCounts : Arith("rshift", 2, <<INT(ficlInteger(ficlUnsigned(X) \div 2^n))>>)

\* / and % of C trap for a zero divisor and where the quotient has no word.
Traps == Y = 0 \/ (LongRef(D(1)) = MinInteger /\ Y = -1)
Divided(w, P(_), out, cs) ==
    /\ Executes(w)
    /\ CHECK_STACK(w, 2, out,
        /\ IsInt(D(0)) /\ P(D(1))
        /\ \/ Traps /\ Raise(w, "signal")
           \/ ~Traps /\ LeaveData(w, Replace(2, cs)))
Rest(a, b) == a - b * Trunc(a, b)
Slash == Divided("/", IsInt, 1, <<INT(Trunc(X, Y))>>)
Mod == Divided("mod", IsInt, 1, <<INT(Rest(X, Y))>>)
\* The double D1 is one cell, or an llong.  Floored, from / and % of C.
D1 == LongRef(D(1))
FMSlashMod ==
    Divided("fm/mod", Whole, 2,
        IF (D1 < 0) # (Y < 0) /\ Rest(D1, Y) # 0
        THEN <<INT(Rest(D1, Y) + Y), INT(Trunc(D1, Y) - 1)>>
        ELSE <<INT(Rest(D1, Y)), INT(Trunc(D1, Y))>>)
\* The symmetric division of ficl2IntegerDivideSymmetric traps for zero only.
Symmetric(w, n, P(_), out, cs) ==
    /\ Executes(w)
    /\ CHECK_STACK(w, n, out,
        /\ Operands(n, P) /\ IsInt(D(0))
        /\ \/ Y = 0 /\ Raise(w, "signal")
           \/ Y # 0 /\ LeaveData(w, Replace(n, cs)))
\* x * y for */ is one cell wide before it is divided.
Product == ficlInteger(D(2).v * X)
SlashMod == Symmetric("/mod", 2, Whole, 2, <<INT(Remainder(D1, Y)), INT(Quotient(D1, Y))>>)
SMSlashRem == Symmetric("sm/rem", 2, Whole, 2, <<INT(Remainder(D1, Y)), INT(Quotient(D1, Y))>>)
StarSlash == Symmetric("*/", 3, IsInt, 1, <<INT(Quotient(Product, Y))>>)
StarSlashMod ==
    Symmetric("*/mod", 3, IsInt, 2, <<INT(Remainder(Product, Y)), INT(Quotient(Product, Y))>>)
\* The quotient is pushed first.
UMSlashMod ==
    LET ud == ficlUnsigned(D1)
        u == ficlUnsigned(Y)
    IN  Symmetric("um/mod", 2, Whole, 2, <<INT(ficlInteger(ud \div u)), INT(ficlInteger(ud % u))>>)
MStar == Arith("m*", 2, <<DOUBLE(ficlInteger(X * Y))>>)
MPlus ==
    /\ Executes("m+")
    /\ CHECK_STACK("m+", 2, 1, IsInt(D(0)) /\ Whole(D(1))
                   /\ LeaveData("m+", Replace(2, <<DOUBLE(ficlInteger(D1 + Y))>>)))
\* D2 D1 n -- : the double is divided after the product was cut to a cell.
MStarSlash ==
    /\ Executes("m*/")
    /\ CHECK_STACK("m*/", 3, 1,
        /\ IsInt(D(0)) /\ IsInt(D(1)) /\ Whole(D(2))
        /\ \/ Y <= 0 /\ Raise("m*/", "numeric-argument")
           \/ Y > 0 /\ LeaveData("m*/",
                  Replace(3, <<DOUBLE(Trunc(ficlInteger(LongRef(D(2)) * X), Y))>>)))

-----------------------------------------------------------------------------
(* Flags.  Comparisons leave the objects #t and #f. *)

Compares(w, n, b) == Arith(w, n, <<BOOL_TO_FTH(b)>>)
Equals == Compares("=", 2, X = Y)
NotEquals == Compares("<>", 2, X # Y)
Less == Compares("<", 2, X < Y)
GreaterThan == Compares(">", 2, X > Y)
LessEql == Compares("<=", 2, X <= Y)
GreaterEql == Compares(">=", 2, X >= Y)
ZeroEquals == Compares("0=", 1, Y = 0)
ZeroNotEquals == Compares("0<>", 1, Y # 0)
ZeroLess == Compares("0<", 1, Y < 0)
ZeroGreater == Compares("0>", 1, Y > 0)
ZeroLessEql == Compares("0<=", 1, Y <= 0)
ZeroGreaterEql == Compares("0>=", 1, Y >= 0)

BothOf(x, y) == IF VM_NOT_FALSE_P(x) /\ VM_NOT_FALSE_P(y) THEN y ELSE BOOL_TO_FTH(FALSE)
EitherOf(x, y) ==
    IF VM_NOT_FALSE_P(x) THEN x ELSE IF VM_NOT_FALSE_P(y) THEN y ELSE BOOL_TO_FTH(FALSE)
BoolAnd == Instruction("&&", 2, <<BothOf(D(1), D(0))>>)
BoolOr == Instruction("||", 2, <<EitherOf(D(1), D(0))>>)
BoolNot == Instruction("not", 1, <<BOOL_TO_FTH(VM_FALSE_OR_NULL_P(D(0)))>>)
\* and, or: of flags when the top is an object, else of bits.
FlagsOrBits(w, flags, Bits(_, _)) ==
    \/ fth_instance_p(D(0)) /\ Instruction(w, 2, <<flags>>)
    \/ ~fth_instance_p(D(0)) /\ Arith(w, 2, <<INT(ficlInteger(Bits(ficlUnsigned(X), ficlUnsigned(Y))))>>)
LogicAnd == FlagsOrBits("and", BothOf(D(1), D(0)), LAMBDA a, b : a & b)
LogicOr == FlagsOrBits("or", EitherOf(D(1), D(0)), LAMBDA a, b : a | b)

\* fth_number_less_p
NumberLess(a, b) == FloatRef(a) < FloatRef(b)
Within ==
    Typed("within", 3, Numeric, <<BOOL_TO_FTH(~NumberLess(D(2), D(1)) /\ NumberLess(D(2), D(0)))>>)

-----------------------------------------------------------------------------
(* Floats.  Each result is a new object; Floats bounds its value. *)

FX == FloatRef(D(1))
FY == FloatRef(D(0))
Bounded(n) == n \in Floats
FloatOp(w, n, v) == Bounded(v) /\ Typed(w, n, Numeric, <<FLOAT(v)>>)
FloatZero == Instruction("0e", 0, <<FLOAT(0)>>)
FloatOne == Instruction("1e", 0, <<FLOAT(2)>>)
FloatNegOne == Instruction("-1e", 0, <<FLOAT(-2)>>)
FPlus == FloatOp("f+", 2, FX + FY)
FMinus == FloatOp("f-", 2, FX - FY)
FStar == (FX * FY) % 2 = 0 /\ FloatOp("f*", 2, (FX * FY) \div 2)
FSlash == FY # 0 /\ Rest(2 * FX, FY) = 0 /\ FloatOp("f/", 2, Trunc(2 * FX, FY))
FNegate == FloatOp("fnegate", 1, -FY)
FTwoStar == FloatOp("f2*", 1, 2 * FY)
FTwoSlash == FY % 2 = 0 /\ FloatOp("f2/", 1, FY \div 2)
OneSlashF == FY # 0 /\ Rest(4, FY) = 0 /\ FloatOp("1/f", 1, Trunc(4, FY))
FMax == FloatOp("fmax", 2, IF FX > FY THEN FX ELSE FY)
FMin == FloatOp("fmin", 2, IF FX < FY THEN FX ELSE FY)
FCompares(w, n, b) == Typed(w, n, Numeric, <<BOOL_TO_FTH(b)>>)
FEquals == FCompares("f=", 2, FX = FY)
FNotEquals == FCompares("f<>", 2, FX # FY)
FLess == FCompares("f<", 2, FX < FY)
FGreater == FCompares("f>", 2, FX > FY)
FLessEql == FCompares("f<=", 2, FX <= FY)
FGreaterEql == FCompares("f>=", 2, FX >= FY)
FZeroEquals == FCompares("f0=", 1, FY = 0)
FZeroNotEquals == FCompares("f0<>", 1, FY # 0)
FZeroLess == FCompares("f0<", 1, FY < 0)
FZeroGreater == FCompares("f0>", 1, FY > 0)
FZeroLessEql == FCompares("f0<=", 1, FY <= 0)
FZeroGreaterEql == FCompares("f0>=", 1, FY >= 0)

-----------------------------------------------------------------------------
(* The return stack. *)

\* To and from the return stack: both stacks are checked before either changes.
Transfer(w, dpop, dpush, rpop, rpush, d, r) ==
    /\ Compiled(w)
    /\ CHECK_STACK(w, dpop, dpush, CHECK_RETURN_STACK(w, rpop, rpush, Leave(w, d, r, ip, mem, <<>>)))
ToRStack == Transfer(">r", 1, 0, 0, 1, ficlStackPop(data), ficlStackPush(ret, D(0)))
FromRStack == Transfer("r>", 0, 1, 1, 0, ficlStackPush(data, R(0)), ficlStackPop(ret))
FetchRStack == Transfer("r@", 0, 1, 1, 1, ficlStackPush(data, R(0)), ret)
TwoToR == Transfer("2>r", 2, 0, 0, 2, ficlStackDrop(data, 2), PushAll(ret, <<D(1), D(0)>>))
TwoRFrom == Transfer("2r>", 0, 2, 2, 0, PushAll(data, <<R(1), R(0)>>), ficlStackDrop(ret, 2))
TwoRFetch == Transfer("2r@", 0, 2, 2, 2, PushAll(data, <<R(1), R(0)>>), ret)

-----------------------------------------------------------------------------
(* Code: calls, branches and loops.  A block that goes on keeps ip. *)

\* EXIT_FUNCTION with return stack r: what is on top is taken for code.
Exits(w, d, r) ==
    \/ ficlStackFetch(r, 0).t \in {"ip", "leave"}
       /\ Leave(w, d, ficlStackPop(r), ficlStackFetch(r, 0).v, mem, <<>>)
    \/ ficlStackFetch(r, 0).t \notin {"ip", "leave"} /\ Wild(w)
ColonParen == \E b \in prog.blocks :
    /\ Executes("call")
    /\ Leave("call", data, ficlStackPush(ret, CELL("ip", ip)), b, mem, <<>>)
DoDoes == \E b \in prog.blocks, a \in DOMAIN mem.cells :
    /\ Executes("dodoes")
    /\ CHECK_STACK("dodoes", 0, 1,
           Leave("dodoes", ficlStackPush(data, CELL("var", a)),
                 ficlStackPush(ret, CELL("ip", ip)), b, mem, <<>>))
ExitParen == Compiled("exit") /\ Exits("exit", data, ret)
BranchParen == \E b \in prog.blocks : Compiled("branch") /\ Leave("branch", data, ret, b, mem, <<>>)
Branch0Paren == \E b \in prog.blocks :
    /\ Compiled("branch0")
    /\ CHECK_STACK("branch0", 1, 0,
           Leave("branch0", ficlStackPop(data), ret,
                 IF VM_NOT_FALSE_P(D(0)) THEN ip ELSE b, mem, <<>>))
OfParen == \E b \in prog.blocks :
    /\ Compiled("of")
    /\ CHECK_STACK("of", 2, 1,
           IF D(0) = D(1) THEN Leave("of", ficlStackDrop(data, 2), ret, ip, mem, <<>>)
           ELSE Leave("of", ficlStackPop(data), ret, b, mem, <<>>))

\* The three cells of a loop, pushed without a look at the return stack.
LoopCells(b, limit, index) == <<CELL("leave", b), limit, index>>
DoParen == \E b \in prog.blocks :
    /\ Compiled("do")
    /\ CHECK_STACK("do", 2, 0,
        /\ Operands(2, Whole)
        /\ Leave("do", ficlStackDrop(data, 2), PushAll(ret, LoopCells(b, D(1), D(0))), ip, mem, <<>>))
QDoParen == \E b \in prog.blocks :
    /\ Compiled("?do")
    /\ CHECK_STACK("?do", 2, 0,
        /\ Operands(2, Whole)
        /\ IF LongRef(D(0)) = LongRef(D(1))
           THEN Leave("?do", ficlStackDrop(data, 2), ret, b, mem, <<>>)
           ELSE Leave("?do", ficlStackDrop(data, 2), PushAll(ret, LoopCells(b, D(1), D(0))),
                      ip, mem, <<>>))

\* A loop that ends at its limit whatever the direction.
LoopEndsAtLimit(index, limit, incr) == index >= limit
\* Whether a loop ends that has come to index: past the limit, in the direction of incr.
LoopEnds(index, limit, incr) == (incr < 0) # (index >= limit)
\* (loop) and (+loop) to block b, for data stack d.
Loops(w, d, incr, b) ==
    LET index == ficlInteger(LongRef(R(0)) + incr)
    IN  \/ (~Whole(R(0)) \/ ~Whole(R(1))) /\ Wild(w)
        \/ /\ Whole(R(0)) /\ Whole(R(1))
           /\ IF LoopEnds(index, LongRef(R(1)), incr)
              THEN Leave(w, d, ficlStackDrop(ret, 3), ip, mem, <<>>)
              ELSE Leave(w, d, ficlStackSetTop(ret, DOUBLE(index)), b, mem, <<>>)
LoopParen == \E b \in prog.blocks : Compiled("loop") /\ Loops("loop", data, 1, b)
PlusLoopParen == \E b \in prog.blocks :
    /\ Compiled("+loop")
    /\ CHECK_STACK("+loop", 1, 0, IsInt(D(0)) /\ Loops("+loop", ficlStackPop(data), D(0).v, b))
\* leave drops index and limit and goes on as exit does.
LeaveLoop == Compiled("leave") /\ Exits("leave", data, ficlStackDrop(ret, 2))
Unloop == Compiled("unloop") /\ Leave("unloop", data, ficlStackDrop(ret, 3), ip, mem, <<>>)
\* i, j and k look at fixed places of the return stack, and check neither stack.
LoopIndex(w, n) ==
    Compiled(w) /\ IF Reaches(ret, n) THEN LeaveData(w, ficlStackPush(data, R(n))) ELSE Wild(w)
I == LoopIndex("i", 0)
J == LoopIndex("j", 3)
K == LoopIndex("k", 6)

-----------------------------------------------------------------------------
(* Local frames.  None of these checks a stack. *)

LinkParen == \E n \in 1..2 :
    Compiled("link") /\ Leave("link", data, ficlStackLink(ret, n), ip, mem, <<>>)
UnlinkParen ==
    /\ Compiled("unlink")
    /\ LET u == [ret EXCEPT !.top = ret.frame - 1]
       IN  IF ficlStackFetch(u, 0).t = "frame"
           THEN Leave("unlink", data, ficlStackUnlink(ret), ip, mem, <<>>)
           ELSE Wild("unlink")
\* frame[n], when that is a cell of the stack
Local(n) == ret.cells[ret.frame + n]
HasLocal(n) == ret.frame >= 0 /\ ret.frame + n <= ret.top
GetLocal == \E n \in 0..1 :
    Compiled("@local") /\ IF HasLocal(n) THEN LeaveData("@local", ficlStackPush(data, Local(n)))
                          ELSE Wild("@local")
SetLocal(n, c) == [ret EXCEPT !.cells[ret.frame + n] = c]
ToLocal == \E n \in 0..1 :
    /\ Compiled("tolocal")
    /\ IF HasLocal(n) THEN Leave("tolocal", ficlStackPop(data), SetLocal(n, D(0)), ip, mem, <<>>)
       ELSE Wild("tolocal")

\* POP_LOCAL_VAR_ADD and +!: a float or an llong is changed as an object, an integer as a cell.
ObjPlus(c) == [mem EXCEPT !.objs[c.v].v = IF Type(c) = "float" THEN @ + FY
                                              ELSE ficlInteger(@ + LongRef(D(0)))]
Addable(c) == Numeric(D(0)) /\ IF Type(c) = "float" THEN Bounded(Value(c) + FY) ELSE TRUE
PlusToLocal == \E n \in 0..1 :
    /\ Compiled("+tolocal")
    /\ \/ ~(HasLocal(n) /\ Reaches(data, 0)) /\ Wild("+tolocal")
       \/ /\ HasLocal(n) /\ Reaches(data, 0) /\ Addable(Local(n))
          /\ \/ Local(n).t = "obj" /\ Leave("+tolocal", ficlStackPop(data), ret, ip, ObjPlus(Local(n)), <<>>)
             \/ IsInt(Local(n)) /\ IsInt(D(0))
                /\ Leave("+tolocal", ficlStackPop(data),
                         SetLocal(n, INT(ficlInteger(Local(n).v + Y))), ip, mem, <<>>)

FPlusToLocal == \E n \in 0..1 :
    /\ Compiled("f+tolocal")
    /\ \/ ~(HasLocal(n) /\ Reaches(data, 0)) /\ Wild("f+tolocal")
       \/ /\ HasLocal(n) /\ Reaches(data, 0) /\ Numeric(Local(n)) /\ Numeric(D(0)) /\ Bounded(FloatRef(Local(n)) + FY)
          /\ IF Type(Local(n)) = "float"
             THEN Leave("f+tolocal", ficlStackPop(data), ret, ip, ObjPlus(Local(n)), <<>>)
             ELSE Leave("f+tolocal", ficlStackPop(data),
                        SetLocal(n, FLOAT(FloatRef(Local(n)) + FY)), ip, mem, <<>>)

-----------------------------------------------------------------------------
(* Memory. *)

IsVar(c) == c.t = "var"
At(w, pop, push, n, P(_), Then) ==
    Executes(w) /\ CHECK_STACK(w, pop, push, P(D(n)) /\ Then)
CellOf(c) == mem.cells[c.v]
Stored(c, x) == [mem EXCEPT !.cells[c.v] = x]
Fetch == At("@", 1, 1, 0, IsVar, LeaveData("@", Replace(1, <<CellOf(D(0))>>)))
Store == At("!", 2, 0, 0, IsVar,
            Leave("!", ficlStackDrop(data, 2), ret, ip, Stored(D(0), D(1)), <<>>))
\* The address is popped first: the number is then on top.
PlusStore ==
    At("+!", 2, 0, 0, IsVar,
        LET c == CellOf(D(0))
            d == ficlStackDrop(data, 2)
        IN  /\ Numeric(D(1)) /\ Numeric(c)
            /\ \/ /\ Type(c) = "float" /\ Bounded(Value(c) + FX)
                  /\ Leave("+!", d, ret, ip, [mem EXCEPT !.objs[c.v].v = @ + FX], <<>>)
               \/ /\ Type(c) = "llong"
                  /\ Leave("+!", d, ret, ip, [mem EXCEPT !.objs[c.v].v = ficlInteger(@ + LongRef(D(1)))], <<>>)
               \/ /\ IsInt(c) /\ IsInt(D(1))
                  /\ Leave("+!", d, ret, ip, Stored(D(0), INT(ficlInteger(c.v + X))), <<>>))
FPlusStore ==
    At("f+!", 2, 0, 0, IsVar,
        LET c == CellOf(D(0))
            d == ficlStackDrop(data, 2)
        IN  /\ Numeric(D(1)) /\ Numeric(c) /\ Bounded(FloatRef(c) + FX)
            /\ \/ /\ Type(c) = "float"
                  /\ Leave("f+!", d, ret, ip, [mem EXCEPT !.objs[c.v].v = @ + FX], <<>>)
               \/ /\ Type(c) # "float"
                  /\ Leave("f+!", d, ret, ip, Stored(D(0), FLOAT(FloatRef(c) + FX)), <<>>))

IsAddr(c) == c.t = "addr"
\* u chars from a on are chars of the program's memory.
InMemory(a, u) == a + u - 1 <= Len(mem.chars) /\ a >= 1
CFetch == At("c@", 1, 1, 0, IsAddr,
             LeaveData("c@", Replace(1, <<INT(mem.chars[Y] % 2^CharWidth)>>)))
CStore == At("c!", 2, 0, 0, IsAddr,
             /\ IsInt(D(1))
             /\ Leave("c!", ficlStackDrop(data, 2), ret, ip, [mem EXCEPT !.chars[Y] = char(X)], <<>>))
Fill ==
    At("fill", 3, 0, 2, IsAddr,
        LET a == D(2).v
            u == ficlUnsigned(X)
        IN  /\ IsInt(D(0)) /\ IsInt(D(1))
            /\ IF u = 0 \/ InMemory(a, u)
               THEN Leave("fill", ficlStackDrop(data, 3), ret, ip,
                          [mem EXCEPT !.chars = [j \in DOMAIN @ |->
                              IF j \in a..(a + u - 1) THEN char(Y) ELSE @[j]]], <<>>)
               ELSE Wild("fill"))
Move ==
    At("move", 3, 0, 2, IsAddr,
        LET from == D(2).v
            to == X
            u == ficlUnsigned(Y)
        IN  /\ IsAddr(D(1)) /\ IsInt(D(0))
            /\ IF u = 0 \/ (InMemory(from, u) /\ InMemory(to, u))
               THEN Leave("move", ficlStackDrop(data, 3), ret, ip,
                          [mem EXCEPT !.chars = [j \in DOMAIN @ |->
                              IF j \in to..(to + u - 1) THEN @[from + j - to] ELSE @[j]]], <<>>)
               ELSE Wild("move"))

\* The loop of COMPARE: the first difference of the chars, or of the lengths.
Difference(a1, u1, a2, u2, Fold(_)) ==
    LET uMin == IF u1 < u2 THEN u1 ELSE u2
        diff(k) == Fold(mem.chars[a1 + k]) - Fold(mem.chars[a2 + k])
        apart == {k \in 0..(uMin - 1) : diff(k) # 0}
    IN  IF apart = {} THEN u1 - u2
        ELSE diff(CHOOSE k \in apart : \A j \in apart : k <= j)
CompareWord(w, Fold(_)) ==
    At(w, 4, 1, 3, IsAddr,
        LET n == Difference(D(3).v, ficlUnsigned(D(2).v), X, ficlUnsigned(Y), Fold)
        IN  /\ IsInt(D(2)) /\ IsAddr(D(1)) /\ IsInt(D(0))
            /\ IF InMemory(D(3).v, ficlUnsigned(D(2).v)) /\ InMemory(X, ficlUnsigned(Y))
               THEN LeaveData(w, Replace(4, <<INT(IF n < 0 THEN -1 ELSE IF n > 0 THEN 1 ELSE 0)>>))
               ELSE Wild(w))
Compare == CompareWord("compare", LAMBDA c : c)
CompareInsensitive == CompareWord("compare-insensitive", LAMBDA c : Lower[c])

-----------------------------------------------------------------------------
(* C functions called with cells of the stack: FUNC_ARGS. *)

Lesser(a, b) == IF a < b THEN a ELSE b
\* How many cells the call takes: rest arguments, or a nil that stands for them; then
\* the required and optional ones, as many as there were before.
RestTaken(all, rest) ==
    IF ~rest THEN 0
    ELSE IF D(0) = FTH_NIL THEN 1
    ELSE IF STKDEPTH(data) > all THEN STKDEPTH(data) - all ELSE 0
FuncArgs(all, rest) ==
    LET r == RestTaken(all, rest)
        n == Lesser(STKDEPTH(data), all)
        arg(k) == IF k <= n THEN D(r + n - k) ELSE FTH_UNDEF
    IN  [k \in 1..all |-> arg(k)]
        \o IF rest /\ D(0) # FTH_NIL THEN [k \in 1..r |-> D(r - k)] ELSE <<>>
Taken(all, rest) == RestTaken(all, rest) + Lesser(STKDEPTH(data), all)
\* A function f with req, opt and rest; the result, if any, is pushed without a check.
Calls(w, f, result) ==
    LET all == f.req + f.opt
    IN  /\ Executes(w)
        /\ \/ f.req > STKDEPTH(data) /\ Raise(w, "wrong-number-of-args")
           \/ /\ f.req <= STKDEPTH(data)
              /\ IF Taken(all, f.rest) > STKDEPTH(data) THEN Wild(w)
                 ELSE Leave(w, Replace(Taken(all, f.rest), result), ret, ip, mem,
                            FuncArgs(all, f.rest))
ExecuteFunc == \E f \in prog.funcs, c \in prog.literals : Calls("func", f, <<c>>)
ExecuteVoidFunc == \E f \in prog.funcs : Calls("void-func", f, <<>>)

-----------------------------------------------------------------------------
Init ==
    \E p \in Programs :
        /\ prog = p
        /\ data = ficlStackCreate(p.nData) /\ ret = ficlStackCreate(p.nReturn)
        /\ ip = 0
        /\ mem = [chars |-> p.chars, cells |-> p.cells,
                  objs |-> [k \in 1..MaxObjects |-> IF k <= Len(p.objs) THEN p.objs[k] ELSE NoObj]]
        /\ did = [word |-> "none", res |-> "ok", args |-> <<>>]

Next ==
    \/ Literal \/ StringLiteral \/ Variable \/ User \/ False \/ True
    \/ Dup \/ QuestionDup \/ Swap \/ Drop \/ Nip \/ Tuck \/ TwoDrop \/ TwoDup \/ Over \/ TwoOver
    \/ TwoSwap \/ Depth \/ Pick \/ Rot \/ MinusRot \/ Roll \/ MinusRoll
    \/ Plus \/ Minus \/ Star \/ OnePlus \/ OneMinus \/ TwoPlus \/ TwoMinus \/ TwoStar \/ TwoSlash
    \/ Negate \/ Abs \/ Max2 \/ Min2 \/ LogicXor \/ Invert \/ LShift \/ RShift \/ Slash \/ Mod
    \/ FMSlashMod \/ SlashMod \/ SMSlashRem \/ StarSlash \/ StarSlashMod \/ UMSlashMod
    \/ MStar \/ MPlus \/ MStarSlash
    \/ Equals \/ NotEquals \/ Less \/ GreaterThan \/ LessEql \/ GreaterEql \/ ZeroEquals
    \/ ZeroNotEquals \/ ZeroLess \/ ZeroGreater \/ ZeroLessEql \/ ZeroGreaterEql
    \/ BoolAnd \/ BoolOr \/ BoolNot \/ LogicAnd \/ LogicOr \/ Within
    \/ FloatZero \/ FloatOne \/ FloatNegOne \/ FPlus \/ FMinus \/ FStar \/ FSlash \/ FNegate \/ FTwoStar
    \/ FTwoSlash \/ OneSlashF \/ FMax \/ FMin \/ FEquals \/ FNotEquals \/ FLess \/ FGreater
    \/ FLessEql \/ FGreaterEql \/ FZeroEquals \/ FZeroNotEquals \/ FZeroLess \/ FZeroGreater
    \/ FZeroLessEql \/ FZeroGreaterEql
    \/ ToRStack \/ FromRStack \/ FetchRStack \/ TwoToR \/ TwoRFrom \/ TwoRFetch
    \/ ColonParen \/ DoDoes \/ ExitParen \/ BranchParen \/ Branch0Paren \/ OfParen
    \/ DoParen \/ QDoParen \/ LoopParen \/ PlusLoopParen \/ LeaveLoop \/ Unloop \/ I \/ J \/ K
    \/ LinkParen \/ UnlinkParen \/ GetLocal \/ ToLocal \/ PlusToLocal \/ FPlusToLocal
    \/ Fetch \/ Store \/ PlusStore \/ FPlusStore \/ CFetch \/ CStore \/ Fill \/ Move
    \/ Compare \/ CompareInsensitive \/ ExecuteFunc \/ ExecuteVoidFunc

Spec == Init /\ [][Next]_vars

-----------------------------------------------------------------------------
(* The stacks as FthEffects has them. *)

\* Objects are numbers there.
Seen(c) == IF c.t = "obj" THEN mem.objs[c.v] ELSE IF c.t = "frame" THEN CELL("frame", 0) ELSE c
\* Where an item of the return stack begins: the two cells behind a leave address are its own.
Own(p) == ret.cells[p].t \in {"ip", "frame", "leave"}
Behind(p) == \/ p > 0 /\ ret.cells[p - 1].t = "leave"
             \/ p > 1 /\ ret.cells[p - 2].t = "leave" /\ ~Own(p - 1)
Begins == {p \in 0..ret.top : Own(p) \/ ~Behind(p)}
\* The item that is the frame f, for a frame below place p; 0 for an address that is no frame.
FrameItem(f, p) ==
    IF f \in 1..p /\ ret.cells[f - 1].t = "frame" THEN Cardinality({q \in Begins : q < f}) ELSE 0
ItemCell(p) ==
    IF ret.cells[p].t = "frame" THEN CELL("frame", FrameItem(ret.cells[p].v, p)) ELSE Seen(ret.cells[p])
Kind(c) == CASE c.t = "leave" -> "loop" [] c.t \in {"ip", "frame"} -> c.t [] OTHER -> "cell"
\* The items of the cells up to place p: a cell begins one or belongs to the one before.
Items ==
    LET upto[p \in -1..ret.top] ==
            IF p = -1 THEN <<>>
            ELSE IF Own(p) \/ ~Behind(p)
                 THEN Append(upto[p - 1], [k |-> Kind(ret.cells[p]), c |-> <<ItemCell(p)>>])
            ELSE [upto[p - 1] EXCEPT ![Len(upto[p - 1])].c = Append(@, ItemCell(p))]
    IN  upto[ret.top]
Effects == INSTANCE FthEffects WITH
    stack <- [j \in 1..STKDEPTH(data) |-> Seen(data.cells[j - 1])],
    rstack <- Items, frame <- FrameItem(ret.frame, STKDEPTH(ret)), prog <- [prog EXCEPT !.objs = <<>>],
    did <- [did EXCEPT !.args = [k \in DOMAIN did.args |-> Seen(did.args[k])]]
\* The interpreter does what the stack effects of its words say.
RefinesEffects == Effects!Spec

\* Cells hold machine integers, block numbers and objects that exist.
TypeOK ==
    /\ Running => InBounds(data) /\ InBounds(ret)
    /\ \A c \in Cells(data) \cup Cells(ret) \cup MemCells(mem) :
          /\ c.t = "obj" => mem.objs[c.v].t \in {"float", "llong"}
          /\ c.t = "int" => c.v \in Word
    /\ \A k \in DOMAIN mem.objs : mem.objs[k].t = "llong" => mem.objs[k].v \in Word
    /\ ip \in prog.blocks \cup {0}

\* The instructions that ask neither stack, or not the one they push to.
Trusting == {"user", "call", "dodoes", "do", "?do", "i", "j", "k", "link", "unlink", "@local",
             "tolocal", "+tolocal", "f+tolocal", "loop", "+loop", "leave", "unloop", "exit", "func"}
\* The instructions that go to an address of the program's own.
Addressing == {"fill", "move", "compare", "compare-insensitive", "void-func"}
\* An index that CHECK_STACK was not asked about, but about what its int or a sum left of it.
Indexed == {"pick", "roll", "-roll"}
CutIndex == did.word \in Indexed /\ D(0).v >= int_MAX
\* Whatever the program, an instruction with a CHECK_STACK or a CHECK_RETURN_STACK never
\* leaves its stacks, but by an index of pick, roll and -roll that is no int, or has none
\* after it: the check passes for what the cast has left of it.
ChecksHold ==
    /\ TypeOK
    /\ did.res = "overrun" => did.word \in Trusting
    /\ did.res = "wild" => did.word \in Trusting \cup Addressing \/ CutIndex
=============================================================================
