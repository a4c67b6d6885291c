------------------------------- MODULE FthProc -------------------------------
(***************************************************************************)
(* Procs (src/proc.c), hooks (src/hook.c) and traced variables.            *)
(*                                                                         *)
(* A proc is a word of the dictionary that has an arity: making one        *)
(* changes the word.  A hook is a list of procs (a simple_array of         *)
(* src/utils.c), run one after another; a traced variable has a hook that  *)
(* `to' runs.  A proc that runs is a frame, and while it runs the program  *)
(* may execute any word: use the stack, make procs, run and change hooks,  *)
(* this one too, and set variables.  An exception ends at the prompt.      *)
(*                                                                         *)
(* `did' has what the word executed last was given and gave.  In a frame,  *)
(* start, called, edits, below and low are history, and so is remade.      *)
(***************************************************************************)
EXTENDS FthArgs

CONSTANTS
    Words,     \* words of the program
    Vars,      \* its global variables
    Hooks,     \* bound: hooks
    MaxFrames, \* bound: procs that run inside of one another
    MaxProcs,  \* bound: procs of a hook
    MaxSites,  \* bound: compiled uses of `to'
    StackSize, \* cells of the data stack
    Sessions   \* [words, bound, ...]: what a program uses and how far it goes

Cell == [t : {"int", "bool", "nil", "undef", "key", "array", "junk"}, v : Int]
Arities == [req : Nat, opt : Nat, rest : {0, 1}]
Definitions == [req : Nat, keys : Seq([key : Cell, default : Cell]), opts : Seq(Cell)]
ASSUME ProcAssumption ==
    /\ Words \cap Vars = {} /\ Hooks \subseteq Nat \ {0}
    /\ MaxFrames \in Nat /\ MaxProcs \in Nat /\ MaxSites \in Nat /\ StackSize \in Nat
    /\ \A s \in Sessions :
          /\ s.cells \subseteq Cell /\ s.args \subseteq Seq(Cell) /\ s.arities \subseteq Arities
          /\ s.defs \subseteq Definitions /\ s.stacks \subseteq Seq(Cell)
          /\ \A q \in s.stacks : Len(q) <= StackSize

VARIABLES st, word, hook, var, sites, frames, remade, did, sess, steps
vars == <<st, word, hook, var, sites, frames, remade, did, sess, steps>>

ARITY(req, opt, rest) == [req |-> req, opt |-> opt, rest |-> rest]
NoArity == ARITY(0, 0, 0)
FICL_WORD_LENGTH(a) == a.req + a.opt + a.rest
FTH_PROC_P(w) == word[w].kind = "proc"
Arity(w) == word[w].arity
FTH_FALSE == BOOL_TO_FTH(FALSE)
NoHook == [made |-> FALSE, arity |-> NoArity, procs |-> <<>>]
FreeHooks == {h \in Hooks : ~hook[h].made}
NewHook == Min(FreeHooks)

Nothing == [op |-> "none", ok |-> TRUE, v |-> <<>>]
Word(op) == op \in sess.words /\ steps < sess.bound
\* How many cells, from the bottom, are in T as they are in S.
Untouched(s, t) ==
    Max({n \in 0..Min({STKDEPTH(s), STKDEPTH(t)}) : \A j \in 0..(n - 1) : t.cells[j] = s.cells[j]})
\* A word that ends well or is about to run a proc.  `low' of the frames follows the stack: as
\* much as no word has taken, changed or moved since the proc began.
Ends(op, s, fs, v) ==
    /\ steps' = steps + 1 /\ UNCHANGED sess
    /\ InBounds(s) /\ st' = s
    /\ frames' = [k \in DOMAIN fs |-> [fs[k] EXCEPT !.low = Min({@, Untouched(st, s)})]]
    /\ did' = [op |-> op, ok |-> TRUE, v |-> v]
\* A word that raises: nothing catches it, the prompt empties the stack.
Raises(op) ==
    /\ steps' = steps + 1 /\ UNCHANGED sess
    /\ st' = ficlStackReset(st) /\ frames' = <<>> /\ did' = [op |-> op, ok |-> FALSE, v |-> <<>>]
Here(op, s, v) == Ends(op, s, frames, v) /\ UNCHANGED <<word, hook, var, sites, remade>>
Fails(op) == Raises(op) /\ UNCHANGED <<word, hook, var, sites, remade>>

-----------------------------------------------------------------------------
(* Words on the stack. *)

Push == \E c \in sess.cells : Word("push") /\ Here("push", ficlStackPush(st, c), <<>>)
Drop == Word("drop") /\ STKDEPTH(st) > 0 /\ Here("drop", ficlStackDrop(st, 1), <<>>)
OnStack(op, given, r) ==
    IF r.ok THEN Here(op, r.s, [given |-> given, before |-> ficlStackWalk(st, TRUE)]) ELSE Fails(op)
\* Their last arguments, as they are on the stack when the word begins.
GetOptkey == \E key, def \in sess.cells : Word("get-optkey") /\
    OnStack("get-optkey", [key |-> key, default |-> def],
            ficl_get_optkey(ficlStackPush(ficlStackPush(st, key), def)))
GetOptarg == \E req \in 0..2, def \in sess.cells : Word("get-optarg") /\
    OnStack("get-optarg", [req |-> req, default |-> def],
            ficl_get_optarg(ficlStackPush(ficlStackPush(st, INT(req)), def)))
\* The same in C, with the value pushed afterwards.
Pushed(r) == Ok(ficlStackPush(r.s, r.v))
OptkeyC == \E key, def \in sess.cells : Word("get-optkey") /\
    OnStack("get-optkey", [key |-> key, default |-> def], Pushed(fth_get_optkey(st, key, def)))
OptargC == \E req \in 0..2, def \in sess.cells : Word("get-optarg") /\
    OnStack("get-optarg", [req |-> req, default |-> def], Pushed(fth_get_optarg(st, req, def)))
GetOptkeysWord == \E d \in sess.defs : Word("get-optkeys") /\
    OnStack("get-optkeys", d, ficl_get_optkeys(st, d.keys, d.req))
GetOptargs == \E d \in sess.defs : Word("get-optargs") /\
    OnStack("get-optargs", d, args_optional_paren(st, d.opts, d.req))
\* A word with <{ ... }> begins, and has its locals.
EnterLocals == \E d \in sess.defs : Word("locals") /\ \E r \in {RunLocals(st, d)} :
    IF r.ok THEN Here("locals", r.s, [given |-> d, before |-> ficlStackWalk(st, TRUE), env |-> r.env])
    ELSE Fails("locals")

-----------------------------------------------------------------------------
(* Making procs. *)

fth_make_proc(words, w, a) == [words EXCEPT ![w] = [kind |-> "proc", arity |-> a]]
FICL_WORD_P(w) == word[w].kind \in {"word", "proc"}
Makes(op, w, a) ==
    /\ word' = fth_make_proc(word, w, a)
    /\ remade' = IF FTH_PROC_P(w) /\ Arity(w) # a THEN remade \cup {w} ELSE remade
    /\ Ends(op, st, frames, <<>>) /\ UNCHANGED <<hook, var, sites>>
MakeProc == \E w \in Words \cup Vars, a \in sess.arities : Word("make-proc") /\
    IF FICL_WORD_P(w) THEN Makes("make-proc", w, a) ELSE Fails("make-proc")
\* <{}> and <{ ... }> in a definition leave a word that is a proc alone.
ExtendedArgs == \E w \in Words, a \in {NoArity} \cup {ExtendedArity(d) : d \in sess.defs} : Word("<{") /\
    IF FTH_PROC_P(w) THEN Here("<{", st, <<>>) ELSE Makes("<{", w, a)
\* proc?, thunk?, xt? and word?; proc-arity is an array or #f.
Thunk(w) == FTH_PROC_P(w) /\ Arity(w) = NoArity
AskProc == \E w \in Words \cup Vars : Word("proc?") /\
    \E c \in {BOOL_TO_FTH(FTH_PROC_P(w)), BOOL_TO_FTH(Thunk(w)), BOOL_TO_FTH(word[w].kind = "word"),
             BOOL_TO_FTH(FICL_WORD_P(w)), IF FTH_PROC_P(w) THEN CELL("array", 3) ELSE FTH_FALSE} :
        Here("proc?", ficlStackPush(st, c), <<>>)

-----------------------------------------------------------------------------
(* Running procs. *)

FRAME(kind, h, args, len) ==
    [kind |-> kind, hook |-> h, args |-> args, i |-> 0, len |-> len, got |-> <<>>, depth |-> 0,
     start |-> IF h = 0 THEN <<>> ELSE hook[h].procs, called |-> <<>>, edits |-> {},
     below |-> <<>>, low |-> 0]

\* fth_proc_apply of proc W, as the next of F: its arguments are pushed, no more than its arity
\* has, and F notes the depth below them.
Pushes(s, args) == FoldLeft(ficlStackPush, s, args)
DepthWithArgs(s, args) == STKDEPTH(Pushes(s, args))
DepthBefore(s, args) == STKDEPTH(s)
Runs(op, w, f, rest, s, given) ==
    LET g == [f EXCEPT !.depth = DepthBefore(s, given), !.called = Append(@, w),
                       !.below = ficlStackWalk(s, TRUE), !.low = STKDEPTH(Pushes(s, given))]
    IN  Len(rest) < MaxFrames /\ Ends(op, Pushes(s, given), Append(rest, g), <<>>)
Calls(op, w, a, f, rest, s) ==
    IF a.req > Len(f.args) THEN Raises(op)
    ELSE Runs(op, w, f, rest, s, SubSeq(f.args, 1, Min({Len(f.args), FICL_WORD_LENGTH(a)})))

\* execute_proc: what is above that depth is the result, several values are an array.
Result(s, depth) ==
    LET n == STKDEPTH(s) - depth
    IN  IF n <= 0 THEN [s |-> s, v |-> FTH_FALSE]
        ELSE [s |-> ficlStackDrop(s, n), v |-> IF n = 1 THEN ficlStackFetch(s, 0) ELSE CELL("array", n)]

\* fth_hook_apply has the number of procs from before, fth_run_hook_again and fth_run_hook_bool
\* ask for it each time; a proc behind the last one is NULL and gives #f.
LimitNow(f) == Len(hook[f.hook].procs)
Limit(f) == IF f.kind \in {"hook", "trace"} THEN f.len ELSE Len(hook[f.hook].procs)
HookResult(f) ==
    CASE f.kind = "hook" -> <<CELL("array", Limit(f))>>
      [] f.kind = "again" -> <<f.args[1]>>
      [] f.kind = "bool" -> <<BOOL_TO_FTH(FTH_FALSE \notin Range(f.got))>>
      [] OTHER -> <<>>
\* The next proc of F, or its end: what a hook has are procs, they stay procs.
Continues(op, f, rest, s) ==
    LET procs == hook[f.hook].procs
        end == [f EXCEPT !.got = @ \o [k \in 1..Max({0, Limit(f) - f.i}) |-> FTH_FALSE]]
    IN  IF f.i < Limit(f) /\ f.i < Len(procs) THEN Calls(op, procs[f.i + 1], Arity(procs[f.i + 1]), f, rest, s)
        ELSE Ends("hook-done", Pushes(s, HookResult(end)), rest, [frame |-> end, s |-> s])
Went(f, v) ==
    [f EXCEPT !.i = @ + 1, !.got = Append(@, v),
              !.args = IF f.kind = "again" THEN [@ EXCEPT ![1] = v] ELSE @]
Return ==
    /\ Word("return") /\ frames # <<>> /\ UNCHANGED <<word, hook, var, sites, remade>>
    /\ \E f \in {Last(frames)}, rest \in {Front(frames)}, r \in {Result(st, Last(frames).depth)} :
          IF f.kind = "apply" THEN Ends("proc-done", ficlStackPush(r.s, r.v), rest, [frame |-> f, s |-> r.s])
          ELSE Continues("hook-next", Went(f, r.v), rest, r.s)

\* proc-apply: an xt becomes a proc of as many arguments as there are.
ProcApply == \E w \in Words \cup Vars, args \in sess.args :
    /\ Word("proc-apply") /\ UNCHANGED <<hook, var, sites, remade>>
    /\ \E a \in {IF FTH_PROC_P(w) THEN Arity(w) ELSE ARITY(Len(args), 0, 0)} :
          IF FICL_WORD_P(w)
          THEN word' = fth_make_proc(word, w, a) /\ Calls("proc-apply", w, a, FRAME("apply", 0, args, 1), frames, st)
          ELSE UNCHANGED word /\ Ends("proc-apply", ficlStackPush(st, FTH_FALSE), frames, <<>>)
\* fth_xt_call and fth_xt_apply run any word, with all they are given.
XtCall == \E w \in Words, args \in sess.args :
    Word("xt-call") /\ Runs("xt-call", w, FRAME("apply", 0, args, 1), frames, st, args)
    /\ UNCHANGED <<word, hook, var, sites, remade>>
\* A proc raises.
Throw == Word("throw") /\ frames # <<>> /\ Fails("throw")
=============================================================================
