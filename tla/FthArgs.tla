------------------------------- MODULE FthArgs -------------------------------
(***************************************************************************)
(* Optional and keyword arguments (src/proc.c).  A word finds them on the  *)
(* data stack: a keyword argument is a keyword with its value above it,    *)
(* anywhere among the others; an optional one is there when the stack is   *)
(* deeper than the arguments that are required; undef stands for one that  *)
(* is to have its default.  <{ ... }> compiles the code that puts all of   *)
(* them where the locals of the word expect them.                          *)
(***************************************************************************)
EXTENDS FthStack, SequencesExt

KEY(k) == CELL("key", k)
Ok(s) == [s |-> s, ok |-> TRUE]
Raise(s) == [s |-> s, ok |-> FALSE]
\* FTH_STACK_CHECK looks at the depth only, never at the room.
FTH_STACK_CHECK(s, pop, r) == IF StackUnderflow(s, pop) THEN Raise(s) ELSE r

\* The index of the topmost KEY at index i or deeper, or 0.
KeyIndex(s, key, i) ==
    LET at == {j \in i..s.top : ficlStackFetch(s, j) = key} IN IF at = {} THEN 0 ELSE Min(at)
\* The key is rolled up and dropped, then its value is rolled up.
ValueUp(s, j) == ficlStackRoll(ficlStackDrop(ficlStackRoll(s, j), 1), j - 1)
\* Of a value on top and a default below it, what is left; an undef gives way to the default.
NipDefaultKept(s) == ficlStackDrop(ficlStackRoll(s, 1), 1)
NipDefault(s) ==
    ficlStackDrop(IF ficlStackFetch(s, 0) # FTH_UNDEF THEN ficlStackRoll(s, 1) ELSE s, 1)
\* With the default on top of the stack: the value of KEY in its place.
KeyOrDefault(s, key) ==
    LET j == KeyIndex(s, key, 2) IN IF j = 0 THEN s ELSE NipDefault(ValueUp(s, j))

\* C: the value of KEY is taken off the stack.
fth_get_optkey(s, key, def) ==
    LET j == KeyIndex(s, key, 1)
        up == ValueUp(s, j)
        val == ficlStackFetch(up, 0)
    IN  IF j = 0 THEN [s |-> s, v |-> def]
        ELSE [s |-> ficlStackPop(up), v |-> IF val = FTH_UNDEF THEN def ELSE val]
fth_get_optarg(s, req, def) ==
    LET val == ficlStackFetch(s, 0)
    IN  IF STKDEPTH(s) > req
        THEN [s |-> ficlStackPop(s), v |-> IF val = FTH_UNDEF THEN def ELSE val]
        ELSE [s |-> s, v |-> def]

\* get-optkey ( key def -- val )
ficl_get_optkey(s) ==
    LET key == ficlStackFetch(s, 1)
    IN  FTH_STACK_CHECK(s, 2, Ok(KeyOrDefault(ficlStackPop(ficlStackRoll(s, 1)), key)))
\* get-optarg ( req def -- val )
ficl_get_optarg(s) ==
    LET req == ficlStackFetch(s, 1).v
        d == ficlStackPop(ficlStackRoll(s, 1))
    IN  FTH_STACK_CHECK(s, 2, Ok(
            IF STKDEPTH(d) - 1 > req
            THEN ficlStackDrop(IF ficlStackFetch(d, 1) = FTH_UNDEF THEN ficlStackRoll(d, 1) ELSE d, 1)
            ELSE d))

\* get-optkeys ( ary req -- vals ): the value is rolled up from where the pair stands in ary.
GetOptkeys(s, pairs) ==
    LET one(t, n) ==
            LET p == ficlStackPush(t, pairs[n].default)
                j == KeyIndex(p, pairs[n].key, 2)
            IN  IF j = 0 THEN p
                ELSE NipDefault(ficlStackRoll(ficlStackDrop(ficlStackRoll(p, j), 1), 2 * (n - 1) - 1))
    IN  FoldLeftDomain(one, s, pairs)
ficl_get_optkeys(s, pairs, req) ==
    IF pairs = <<>> THEN Ok(s) ELSE FTH_STACK_CHECK(s, req, Ok(GetOptkeys(s, pairs)))

\* (args-keys): the keys in their order, each default on top before its key is looked for.
args_keys_paren(s, pairs, req) ==
    LET one(t, pair) == KeyOrDefault(ficlStackPush(t, pair.default), pair.key)
    IN  FTH_STACK_CHECK(s, req, Ok(FoldLeft(one, s, pairs)))

\* get-optargs and (args-optional): undef among the optional arguments is replaced, and the
\* missing ones are pushed.  For a missing one, j is below 0: a dead cell is looked at.
Missing(s, req, n) == STKDEPTH(s) < req + n
Optionals(s, defs, req) ==
    LET given == Min({STKDEPTH(s) - req, Len(defs)})
        one(t, n) ==
            LET j == given - n
                u == IF ficlStackFetch(t, j) = FTH_UNDEF THEN ficlStackStore(t, j, defs[n]) ELSE t
            IN  IF Missing(u, req, n) THEN ficlStackPush(u, defs[n]) ELSE u
    IN  FoldLeftDomain(one, s, defs)
args_optional_paren(s, defs, req) ==
    IF defs = <<>> THEN Ok(s) ELSE FTH_STACK_CHECK(s, req, Ok(Optionals(s, defs, req)))

-----------------------------------------------------------------------------
(* <{ req :key keys :optional opts -- }>: the names are pushed on the stack  *)
(* while they are parsed, and (local) takes one off for each local it makes. *)

KeyName(n) == <<"key", n>>
OptName(n) == <<"opt", n>>
ReqName(n) == <<"req", n>>
Names(name(_), len) == [n \in 1..len |-> name(n)]
Instr(op, args, name) == [op |-> op, args |-> args, name |-> name]
\* n of the names on the stack become locals, the last one first.
LocalsOf(names, n) == [k \in 1..n |-> Instr("local", <<>>, names[Len(names) - k + 1])]
ficl_extended_args(def) ==
    LET req == Names(ReqName, def.req)
        keys == Names(KeyName, Len(def.keys))
        opts == Names(OptName, Len(def.opts))
    IN  (IF def.keys = <<>> THEN <<>>
         ELSE <<Instr("(args-keys)", def.keys, "")>> \o LocalsOf(req \o keys, Len(keys)))
        \o (IF def.opts = <<>> THEN <<>>
            ELSE <<Instr("(args-optional)", def.opts, "")>> \o LocalsOf(req \o opts, Len(opts)))
        \o LocalsOf(req, Len(req))
\* The proc it makes of the word: keywords count as one argument.
ExtendedArity(def) == [req |-> def.req, opt |-> Len(def.opts), rest |-> IF def.keys # <<>> THEN 1 ELSE 0]

\* The code runs: the stack, the locals, and whether nothing was raised.
WithLocal(env, name, c) == [n \in DOMAIN env \cup {name} |-> IF n = name THEN c ELSE env[n]]
RunLocals(s, def) ==
    LET code == ficl_extended_args(def)
        start == [s |-> s, env |-> <<>>, ok |-> TRUE]
        with(x, r) == [x EXCEPT !.s = r.s, !.ok = r.ok]
        one(x, i) ==
            IF ~x.ok THEN x
            ELSE CASE i.op = "(args-keys)" -> with(x, args_keys_paren(x.s, i.args, def.req))
                   [] i.op = "(args-optional)" -> with(x, args_optional_paren(x.s, i.args, def.req))
                   [] OTHER -> IF StackUnderflow(x.s, 1) THEN [x EXCEPT !.ok = FALSE]
                               ELSE [x EXCEPT !.s = ficlStackPop(@),
                                              !.env = WithLocal(@, i.name, ficlStackFetch(x.s, 0))]
    IN  FoldLeft(one, start, code)

-----------------------------------------------------------------------------
(* What the arguments of a word are, without a stack: a keyword argument is   *)
(* the last of its name, without keywords the last req + opts values are the  *)
(* arguments, those that are missing or undef have their defaults, and what   *)
(* is before them is left.                                                    *)

Place(q, key) == SelectLastInSubSeq(q, 1, Len(q) - 1, LAMBDA c : c = key)
Without(q, p) == RemoveAt(RemoveAt(q, p), p)
Else(c, def) == IF c = FTH_UNDEF THEN def ELSE c
TakeKey(q, pair) ==
    LET p == Place(q, pair.key)
    IN  IF p = 0 THEN [q |-> q, v |-> pair.default]
        ELSE [q |-> Without(q, p), v |-> Else(q[p + 1], pair.default)]
TakeKeys(q, pairs) ==
    FoldLeft(LAMBDA x, pair : LET r == TakeKey(x.q, pair) IN [q |-> r.q, v |-> Append(x.v, r.v)],
             [q |-> q, v |-> <<>>], pairs)
TakeOptionals(q, defs, req) ==
    LET n == Min({Len(q), req + Len(defs)})
        left == Len(q) - n
    IN  [q |-> SubSeq(q, 1, left), req |-> SubSeq(q, left + 1, left + req),
         v |-> [k \in 1..Len(defs) |-> IF req + k <= n THEN Else(q[left + req + k], defs[k]) ELSE defs[k]]]
Arguments(q, def) ==
    LET k == TakeKeys(q, def.keys)
        o == TakeOptionals(k.q, def.opts, def.req)
    IN  [left |-> o.q, keys |-> k.v, opts |-> o.v, req |-> o.req]
Bound(env, def) ==
    [keys |-> [n \in 1..Len(def.keys) |-> env[KeyName(n)]],
     opts |-> [n \in 1..Len(def.opts) |-> env[OptName(n)]],
     req |-> [n \in 1..def.req |-> env[ReqName(n)]]]
=============================================================================
