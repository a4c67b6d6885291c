----------------------------- MODULE MCFthInner -----------------------------
(***************************************************************************)
(* Families of small programs for the inner interpreter: each has the      *)
(* words of one part and as many cells as its widest word needs, and one   *)
(* more, so that every check of a stack is met from both sides.            *)
(***************************************************************************)
EXTENDS FthInner

None == [words |-> {}, literals |-> {}, objs |-> <<>>, blocks |-> {}, funcs |-> {},
         nData |-> 0, nReturn |-> 0, chars |-> <<>>, cells |-> <<>>]
Ints(S) == {INT(n) : n \in S}
\* Integers around the edges of a word, of an int and of their halves.
Edges == {-32, -31, -17, -16, -15, -9, -8, -7, -3, -2, -1, 0, 1, 2, 3, 5, 7, 8, 15, 16, 30, 31}
Values == {INT(0), INT(1), BOOL_TO_FTH(FALSE), FTH_NIL}
Func(q, o, r) == [req |-> q, opt |-> o, rest |-> r]

ShuffleProgram == [None EXCEPT
    !.words = {"literal", "dup", "?dup", "swap", "drop", "nip", "tuck", "2drop", "2dup", "over",
               "2over", "2swap", "pick", "rot", "-rot", "roll", "-roll"},
    !.literals = Ints({-1, 0, 2}), !.nData = 6]
\* Indices around the largest int, and ones that an int takes for -1, 0 and 1.
IndexProgram == [None EXCEPT
    !.words = {"literal", "drop", "pick", "roll", "-roll"},
    !.literals = Ints({0, 1, 2, 6, 7, 8, 15, 16, 17, 31}), !.nData = 4]
UnaryProgram == [None EXCEPT
    !.words = {"literal", "1+", "1-", "2+", "2-", "2*", "2/", "negate", "abs", "invert"},
    !.literals = Ints(Word), !.nData = 1]
ArithmeticProgram == [None EXCEPT
    !.words = {"literal", "+", "-", "*", "max", "min", "xor", "m+"}, !.literals = Ints(Edges), !.nData = 2]
ShiftProgram == [None EXCEPT
    !.words = {"literal", "lshift", "rshift"}, !.literals = Ints({-32, -1, 0, 1, 5, 6, 7}), !.nData = 2]
DivisionProgram == [None EXCEPT
    !.words = {"literal", "/", "mod", "fm/mod", "/mod", "sm/rem", "um/mod", "m*"},
    !.literals = Ints(Edges), !.nData = 2]
ScaleProgram == [None EXCEPT
    !.words = {"literal", "*/", "*/mod", "m*/"}, !.literals = Ints({-32, -31, -3, -1, 0, 1, 2, 5, 7, 31}),
    !.nData = 3]
FlagProgram == [None EXCEPT
    !.words = {"literal", "false", "true", "=", "<>", "<", ">", "<=", ">=", "0=", "0<>", "0<", "0>",
               "0<=", "0>=", "&&", "||", "not", "and", "or", "within", "depth"},
    !.literals = Ints({-1, 0, 3}) \cup {FTH_NIL}, !.nData = 3]
FloatProgram == [None EXCEPT
    !.words = {"literal", "0e", "1e", "-1e", "f+", "f-", "f*", "f/", "fnegate", "f2*", "f2/", "1/f", "fmax",
               "fmin", "f=", "f<>", "f<", "f>", "f<=", "f>=", "f0=", "f0<>", "f0<", "f0>", "f0<=",
               "f0>="},
    !.literals = {INT(1), CELL("obj", 1)}, !.objs = <<FLOAT(1)>>, !.nData = 2]
LoopProgram == [None EXCEPT
    !.words = {"literal", "call", "exit", "branch", "branch0", "do", "?do", "loop", "+loop", "leave",
               "unloop", "i"},
    !.literals = Ints({-1, 1}), !.blocks = {1}, !.nData = 2, !.nReturn = 5]
\* Loops nested three deep.
NestProgram == [None EXCEPT
    !.words = {"literal", "call", "do", "i", "j", "k"},
    !.literals = Ints({0, 1}), !.blocks = {1}, !.nData = 2, !.nReturn = 10]
TransferProgram == [None EXCEPT
    !.words = {"literal", "call", "exit", "of", ">r", "r>", "r@", "2>r", "2r>", "2r@"},
    !.literals = {INT(1)}, !.blocks = {1}, !.nData = 2, !.nReturn = 4]
LocalProgram == [None EXCEPT
    !.words = {"literal", "call", "exit", "link", "unlink", "@local", "tolocal", "+tolocal"},
    !.literals = {INT(MinInteger), CELL("obj", 1)}, !.objs = <<FLOAT(2)>>, !.blocks = {1}, !.nData = 1,
    !.nReturn = 5]
FLocalProgram == [LocalProgram EXCEPT
    !.words = {"literal", "call", "link", "@local", "tolocal", "f+tolocal"}, !.nReturn = 3]
VariableProgram == [None EXCEPT
    !.words = {"literal", "variable", "user", "@", "!", "+!", "f+!", "m*", "dodoes"},
    !.literals = {INT(20), CELL("obj", 1)}, !.objs = <<FLOAT(1)>>, !.nData = 2,
    !.blocks = {1}, !.nReturn = 1, !.cells = <<INT(0)>>]
CharProgram == [None EXCEPT
    !.words = {"literal", "stringlit", "c@", "c!", "fill", "move", "compare", "compare-insensitive"},
    !.literals = Ints({0, 2}), !.nData = 4, !.chars = <<1, -1>>]
FuncProgram == [None EXCEPT
    !.words = {"literal", "func", "void-func"}, !.literals = {INT(1), INT(2), FTH_NIL},
    !.funcs = {Func(1, 0, FALSE), Func(1, 1, FALSE), Func(0, 0, TRUE), Func(1, 1, TRUE), Func(2, 0, FALSE)},
    !.nData = 4]
MCPrograms == {ShuffleProgram, IndexProgram, UnaryProgram, ArithmeticProgram, ShiftProgram,
               DivisionProgram, ScaleProgram, FlagProgram, FloatProgram, LoopProgram,
               NestProgram, TransferProgram, LocalProgram, FLocalProgram, VariableProgram,
               CharProgram, FuncProgram}
MCFloats == {-4, -2, -1, 0, 1, 2, 4}
MCLower == [c \in -2..1 |-> IF c = 1 THEN 0 ELSE c]
=============================================================================
