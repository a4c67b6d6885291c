------------------------------ MODULE MCFthProc ------------------------------
(***************************************************************************)
(* FthHook on small programs: one that asks for its arguments on every     *)
(* stack of at most MaxArgs cells, one that makes and runs procs, one that *)
(* changes hooks while they run, one that traces a variable, and one with  *)
(* a proc that looks for arguments below its own.                          *)
(***************************************************************************)
EXTENDS FthHook

CONSTANTS MaxArgs, ArgsBound, ProcBound, HookBound, TraceBound, BelowBound

Nothings == [words |-> {}, bound |-> 0, cells |-> {}, defs |-> {}, args |-> {}, arities |-> {}, stacks |-> {<<>>}]

Pair(k) == [key |-> KEY(k), default |-> INT(20 + k)]
Def(req, keys, n) == [req |-> req, keys |-> keys, opts |-> [k \in 1..n |-> INT(30 + k)]]
\* A value on the stack is known by its place.
Argument(n) == {INT(n), KEY(1), KEY(2), FTH_UNDEF}
Stacks == UNION {{q \in [1..len -> UNION {Argument(n) : n \in 1..len}] : \A n \in 1..len : q[n] \in Argument(n)} :
                    len \in 0..MaxArgs}
ArgsSession == [Nothings EXCEPT
    !.words = {"get-optkey", "get-optarg", "get-optkeys", "get-optargs", "locals"},
    !.bound = ArgsBound, !.cells = {KEY(1), INT(9), FTH_UNDEF}, !.stacks = Stacks,
    !.defs = {Def(1, <<Pair(1), Pair(2)>>, 2), Def(2, <<>>, 1), Def(0, <<Pair(1)>>, 0), Def(1, <<Pair(2)>>, 2),
              Def(0, <<>>, 2)}]

ProcSession == [Nothings EXCEPT
    !.words = {"push", "drop", "return", "throw", "make-proc", "<{", "proc?", "proc-apply", "xt-call"},
    !.bound = ProcBound, !.cells = {INT(1)}, !.defs = {Def(1, <<Pair(1)>>, 1)},
    !.args = {<<>>, <<INT(2)>>, <<INT(2), INT(3)>>}, !.arities = {ARITY(1, 0, 0)}, !.stacks = {<<>>, <<INT(4)>>}]

HookSession == [Nothings EXCEPT
    !.words = {"push", "return", "make-hook", "add-hook!", "remove-hook!", "hook-clear", "hook=", "run-hook"},
    !.bound = HookBound, !.cells = {FTH_FALSE}, !.args = {<<>>, <<INT(2)>>}, !.arities = {NoArity, ARITY(1, 0, 0)}]

TraceSession == [Nothings EXCEPT
    !.words = {"push", "return", "trace-var", "untrace-var", "to", "compile-to", "variable-set", "make-proc"},
    !.bound = TraceBound, !.cells = {INT(1), INT(2)}, !.arities = {NoArity}]

\* A proc that takes a keyword argument from below its own.
BelowSession == [Nothings EXCEPT
    !.words = {"push", "return", "xt-call", "get-optkey"}, !.bound = BelowBound, !.cells = {KEY(1), INT(1)},
    !.args = {<<INT(2), INT(3)>>}, !.stacks = {<<KEY(1), INT(4)>>}]

MCSessions == {ArgsSession, ProcSession, HookSession, TraceSession, BelowSession}
=============================================================================
