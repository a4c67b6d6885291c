------------------------------ MODULE FthHook ------------------------------
(***************************************************************************)
(* The words on hooks and traced variables, and the specification of procs *)
(* and hooks together.                                                     *)
(***************************************************************************)
EXTENDS FthProc

make_hook(hooks, h, a) == [hooks EXCEPT ![h] = [made |-> TRUE, arity |-> a, procs |-> <<>>]]
MakeHook == \E a \in sess.arities :
    /\ Word("make-hook") /\ FreeHooks # {}
    /\ hook' = make_hook(hook, NewHook, a)
    /\ Ends("make-hook", st, frames, <<>>) /\ UNCHANGED <<word, var, sites, remade>>

\* proc_from_proc_or_xt: an xt becomes a proc of arity A, a proc must have it.
Suits(w, a) == FICL_WORD_P(w) /\ (FTH_PROC_P(w) => Arity(w) = a)
\* Whoever runs a hook that changes has seen it change.
Edited(fs, h, edit) == [k \in DOMAIN fs |-> IF fs[k].hook = h THEN [fs[k] EXCEPT !.edits = @ \cup {edit}] ELSE fs[k]]
AddHook == \E h \in Hooks, w \in Words \cup Vars :
    /\ Word("add-hook!") /\ hook[h].made /\ UNCHANGED <<var, sites, remade>>
    /\ IF Suits(w, hook[h].arity)
       THEN /\ Len(hook[h].procs) < MaxProcs
            /\ word' = fth_make_proc(word, w, hook[h].arity)
            /\ hook' = [hook EXCEPT ![h].procs = Append(@, w)]
            /\ Ends("add-hook!", st, Edited(frames, h, "added"), <<>>)
       ELSE UNCHANGED <<word, hook>> /\ Raises("add-hook!")
simple_array_index(procs, w) == SelectInSeq(procs, LAMBDA p : p = w)
simple_array_delete(procs, w) ==
    IF simple_array_index(procs, w) = 0 THEN procs ELSE RemoveAt(procs, simple_array_index(procs, w))
RemoveHook == \E h \in Hooks, w \in Words :
    /\ Word("remove-hook!") /\ hook[h].made /\ UNCHANGED <<word, var, sites, remade>>
    /\ hook' = [hook EXCEPT ![h].procs = simple_array_delete(@, w)]
    /\ Ends("remove-hook!", st, Edited(frames, h, "removed"), <<>>)
HookClear == \E h \in Hooks :
    /\ Word("hook-clear") /\ hook[h].made /\ UNCHANGED <<word, var, sites, remade>>
    /\ hook' = [hook EXCEPT ![h].procs = <<>>]
    /\ Ends("hook-clear", st, Edited(frames, h, "removed"), <<>>)
hk_equal_p(h, k) == hook[h].arity = hook[k].arity /\ hook[h].procs = hook[k].procs
\* hook=, hook-member?, hook-empty?, hook->array and hook-names.
AskHook == \E h \in Hooks, k \in Hooks, w \in Words :
    /\ Word("hook=") /\ hook[h].made /\ hook[k].made
    /\ \E c \in {BOOL_TO_FTH(hk_equal_p(h, k)), BOOL_TO_FTH(simple_array_index(hook[h].procs, w) # 0),
                 BOOL_TO_FTH(hook[h].procs = <<>>), CELL("array", Len(hook[h].procs))} :
          Here("hook=", ficlStackPush(st, c), <<>>)

\* run-hook and fth_hook_apply; what is not an array is no argument.
HookApply == \E h \in Hooks, args \in sess.args :
    /\ Word("run-hook") /\ hook[h].made /\ UNCHANGED <<word, hook, var, sites, remade>>
    /\ Continues("run-hook", FRAME("hook", h, args, Len(hook[h].procs)), frames, st)
\* fth_run_hook, fth_run_hook_again and fth_run_hook_bool look at the hook's arity first.
RunHook == \E h \in Hooks, kind \in {"hook", "again", "bool"}, args \in sess.args :
    /\ Word("run-hook") /\ hook[h].made /\ args # <<>> /\ UNCHANGED <<word, hook, var, sites, remade>>
    /\ IF hook[h].arity.req > Len(args) THEN Raises("run-hook")
       ELSE Continues("run-hook", FRAME(kind, h, args, Len(hook[h].procs)), frames, st)

-----------------------------------------------------------------------------
(* Variables. *)

\* trace-var: the hook is made and gets its proc before the variable has it.
TraceVar == \E v \in Vars, w \in Words :
    /\ Word("trace-var") /\ UNCHANGED <<sites, remade>>
    /\ var[v].hook # 0 \/ FreeHooks # {}
    /\ \E h \in {IF var[v].hook # 0 THEN var[v].hook ELSE NewHook} :
       \E hooks \in {IF var[v].hook # 0 THEN hook ELSE make_hook(hook, h, ARITY(1, 0, 0))} :
          IF Suits(w, hooks[h].arity)
          THEN /\ Len(hooks[h].procs) < MaxProcs
               /\ word' = [fth_make_proc(word, w, hooks[h].arity) EXCEPT ![v].kind = "trace"]
               /\ hook' = [hooks EXCEPT ![h].procs = Append(@, w)]
               /\ var' = [var EXCEPT ![v].hook = h]
               /\ Ends("trace-var", st, Edited(frames, h, "added"), <<>>)
          ELSE hook' = hooks /\ UNCHANGED <<word, var>> /\ Raises("trace-var")
UntraceVar == \E v \in Vars :
    /\ Word("untrace-var") /\ UNCHANGED <<hook, sites, remade>>
    /\ IF word[v].kind = "trace"
       THEN /\ word' = [word EXCEPT ![v].kind = "variable"] /\ var' = [var EXCEPT ![v].hook = 0]
            /\ Ends("untrace-var", st, frames, <<>>)
       ELSE UNCHANGED <<word, var>> /\ Raises("untrace-var")
\* The value is stored, then the hook runs with it.
SetVar(v, traced) ==
    /\ STKDEPTH(st) > 0 /\ UNCHANGED <<word, hook, sites, remade>>
    /\ var' = [var EXCEPT ![v].val = ficlStackFetch(st, 0)]
    /\ IF traced /\ word[v].kind = "trace"
       THEN Continues("to", FRAME("trace", var[v].hook, <<ficlStackFetch(st, 0)>>, Len(hook[var[v].hook].procs)),
                      frames, ficlStackPop(st))
       ELSE Ends("to", ficlStackPop(st), frames, <<>>)
To == \E v \in Vars : Word("to") /\ SetVar(v, TRUE)
\* Compiled, `to' runs the hook only if the variable was traced then.
CompileTo == \E v \in Vars :
    /\ Word("compile-to") /\ Len(sites) < MaxSites
    /\ sites' = Append(sites, [var |-> v, traced |-> word[v].kind = "trace"])
    /\ Ends("compile-to", st, frames, <<>>) /\ UNCHANGED <<word, hook, var, remade>>
RunTo == \E n \in DOMAIN sites : Word("compile-to") /\ SetVar(sites[n].var, sites[n].traced)
\* fth_variable_set: no hook runs.
VariableSet == \E v \in Vars, c \in sess.cells :
    /\ Word("variable-set") /\ var' = [var EXCEPT ![v].val = c]
    /\ Ends("variable-set", st, frames, <<>>) /\ UNCHANGED <<word, hook, sites, remade>>

-----------------------------------------------------------------------------

Init ==
    /\ sess \in Sessions /\ steps = 0 /\ did = Nothing
    /\ \E q \in sess.stacks : st = Pushes(ficlStackCreate(StackSize), q)
    /\ word = [w \in Words \cup Vars |-> [kind |-> IF w \in Vars THEN "variable" ELSE "word", arity |-> NoArity]]
    /\ hook = [h \in Hooks |-> NoHook]
    /\ var = [v \in Vars |-> [val |-> INT(0), hook |-> 0]]
    /\ sites = <<>> /\ frames = <<>> /\ remade = {}
ProcNext ==
    \/ Push \/ Drop \/ GetOptkey \/ GetOptarg \/ OptkeyC \/ OptargC \/ GetOptkeysWord \/ GetOptargs \/ EnterLocals
    \/ MakeProc \/ ExtendedArgs \/ AskProc \/ Return \/ ProcApply \/ XtCall \/ Throw
HookNext ==
    \/ MakeHook \/ AddHook \/ RemoveHook \/ HookClear \/ AskHook \/ HookApply \/ RunHook
    \/ TraceVar \/ UntraceVar \/ To \/ CompileTo \/ RunTo \/ VariableSet
Next == ProcNext \/ HookNext
Spec == Init /\ [][Next]_vars

-----------------------------------------------------------------------------
(* Properties. *)

\* The stack stays in its bounds, a traced variable has a hook, and what a hook has are procs
\* of the hook's arity, as long as the program gives none of them another (make-proc changes
\* the word, in every hook that has it).
TypeOK ==
    /\ InBounds(st) /\ Len(frames) <= MaxFrames
    /\ \A v \in Vars : word[v].kind = "trace" <=> var[v].hook # 0
    /\ \A h \in Hooks : \A w \in Range(hook[h].procs) \ remade :
          hook[h].made /\ FTH_PROC_P(w) /\ Arity(w) = hook[h].arity

\* Whatever is on the stack, get-optkey, get-optarg, get-optargs and a word with <{ ... }> find
\* the same arguments in it, keywords before or among the others, undef in their place, too few
\* or more than they take, as one finds in a sequence of arguments, and leave what is before them.
\* A keyword is not a value: its like as a value would be taken for a key.
KeysAreNoValues(q) == \A n \in 1..Len(q) : q[n].t = "key" => n < Len(q) /\ q[n + 1].t # "key"
ArgumentsFound(q, given, now) ==
    CASE did.op = "get-optkey" ->
            LET r == TakeKey(q, given) IN now = Append(r.q, r.v)
      [] did.op = "get-optarg" ->
            now = IF Len(q) > given.req
                  THEN Append(Front(q), Else(Last(q), given.default)) ELSE Append(q, given.default)
      [] did.op = "get-optargs" ->
            LET r == TakeOptionals(q, given.opts, given.req)
            IN  given.opts # <<>> => now = r.q \o r.req \o r.v
      [] did.op = "locals" ->
            LET r == Arguments(q, given)
            IN  now = r.left /\ Bound(did.v.env, given) = [keys |-> r.keys, opts |-> r.opts, req |-> r.req]
ArgumentsBound ==
    did.op \in {"get-optkey", "get-optarg", "get-optargs", "locals"} /\ did.ok /\ KeysAreNoValues(did.v.before)
        => ArgumentsFound(did.v.before, did.v.given, ficlStackWalk(st, TRUE))

\* A run of a hook that nobody takes procs from while it runs calls each proc once, in order:
\* those it had at the beginning, and with fth_run_hook_again and fth_run_hook_bool those added
\* since; and run-hook has as many results as the hook had procs when it began, whatever its
\* procs do to it.
RunsEachOnce == TypeOK /\
    (did.op = "hook-done" =>
        LET f == did.v.frame
            n == IF f.kind \in {"hook", "trace"} THEN f.len ELSE Len(f.called)
        IN  /\ "removed" \notin f.edits => /\ f.len <= n /\ Len(f.called) = n
                                           /\ SubSeq(f.called, 1, f.len) = f.start
            /\ f.kind \in {"hook", "trace"} => Len(f.got) = f.len)

\* A proc that leaves the stack below its arguments alone is one value for its caller, and a
\* run of a hook one array, whatever the procs take or leave, and whatever runs inside of them.
StackKept ==
    /\ did.op = "proc-done" /\ did.v.frame.low >= Len(did.v.frame.below) =>
          LET f == did.v.frame IN Front(ficlStackWalk(st, TRUE)) = f.below
    /\ did.op = "hook-done" /\ did.v.frame.called # <<>> /\ did.v.frame.low >= Len(did.v.frame.below) =>
          ficlStackWalk(did.v.s, TRUE) = did.v.frame.below
=============================================================================
