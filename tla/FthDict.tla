------------------------------- MODULE FthDict ------------------------------
(***************************************************************************)
(* The dictionary (ficl/dictionary.c, hash.c, search.c): words one after    *)
(* the other in memory, linked newest first into the buckets of word lists, *)
(* a stack of word lists to search, and the word defined last, smudge.      *)
(*                                                                          *)
(* A word with its header and body, or a word list, takes one address.      *)
(* Where a step leaves pointers to memory behind here, or a link to itself, *)
(* what follows is undefined: broken says why, and the behaviour ends; so   *)
(* nothing reads what memory behind here keeps, and it counts as blank.     *)
(***************************************************************************)
EXTENDS Naturals, Sequences

CONSTANTS
    Name, Symbol,         \* names; those of symbols ('name) among them
    Nameless,               \* the name of a word made by lambda: or :noname
    Wid, Forth, NoWid,    \* word lists, forth-wordlist, and none
    Bucket, BucketOf,     \* hash->table, and each name's place in it
    MAX_WORDLISTS,        \* FICL_MAX_WORDLISTS
    MaxMem                \* bound of the model: words and word lists in memory

VARIABLES
    here,      \* the next free address
    word,      \* memory as words: [name, link, smudged, does]
    lists,     \* the word lists: [at, table, parent]
    order,     \* wordlists[0..wordlistCount-1], the first to be searched last
    current,   \* compilationWordlist
    smudge,    \* the word defined last, 0 for NULL
    mode,      \* vm->state
    begun,     \* history: the definition in progress, or 0
    created,   \* history: the word a running defining word has made, or 0
    broken
dictvars == <<here, word, lists, order, current, smudge, mode, begun, created, broken>>

Memory == 1..MaxMem
Blank == [name |-> Nameless, link |-> 0, smudged |-> FALSE, does |-> FALSE]
ficlHashReset == [b \in Bucket |-> 0]

Init ==
    /\ here = 1
    /\ word = [a \in Memory |-> Blank]
    /\ lists = [w \in {Forth} |-> [at |-> 0, table |-> ficlHashReset, parent |-> NoWid]]
    /\ order = <<Forth>> /\ current = Forth
    /\ smudge = 0 /\ mode = "interpret" /\ begun = 0 /\ created = 0
    /\ broken = "no"

-----------------------------------------------------------------------------
(* Lookup. *)

\* The words of a chain from address a on, as far as memory goes.
ChainFrom(a) ==
    LET walk[k \in 0..MaxMem] ==
            IF k = 0 THEN a ELSE IF walk[k - 1] = 0 THEN 0 ELSE word[walk[k - 1]].link
    IN  {walk[k] : k \in 0..MaxMem} \ {0}
\* The first word with that name: in a chain addresses go down.
FirstIn(as, n) ==
    LET hits == {a \in as : word[a].name = n}
    IN  IF hits = {} THEN 0 ELSE CHOOSE a \in hits : \A b \in hits : b <= a
InList(w, n) == FirstIn(ChainFrom(lists[w].table[BucketOf[n]]), n)
\* hash->link: lists inherit from lists that inherit from none.
ficlHashLookup(w, n) ==
    IF InList(w, n) # 0 \/ lists[w].parent = NoWid THEN InList(w, n) ELSE InList(lists[w].parent, n)
\* A lookup that begins with the list pushed first.
LookupOrderReversed(hits) == CHOOSE i \in hits : \A j \in hits : i <= j
LookupOrder(hits) == CHOOSE i \in hits : \A j \in hits : j <= i
ficlDictionaryLookup(n) ==
    LET hits == {i \in DOMAIN order : ficlHashLookup(order[i], n) # 0}
    IN  IF hits = {} THEN 0 ELSE ficlHashLookup(order[LookupOrder(hits)], n)

-----------------------------------------------------------------------------
(* Words. *)

\* An unsmudge that forgets what the bucket had.
LinkedEmpty(ws, a) == [ws EXCEPT ![a].smudged = FALSE, ![a].link = 0]
Linked(ws, a) ==
    [ws EXCEPT ![a].smudged = FALSE,
               ![a].link = lists[current].table[BucketOf[ws[a].name]]]
\* Nameless words never get linked.
ficlDictionaryUnsmudge(ws, a) ==
    IF ws[a].name = Nameless
    THEN word' = [ws EXCEPT ![a].smudged = FALSE] /\ UNCHANGED lists
    ELSE /\ word' = Linked(ws, a)
         /\ lists' = [lists EXCEPT ![current].table[BucketOf[ws[a].name]] = a]
\* ficlDictionaryAppendWord, for a word that stays hidden and for one that does not
Appended(n) == [word EXCEPT ![here] = [Blank EXCEPT !.name = n, !.smudged = TRUE]]
AppendWord(n) ==
    /\ here \in Memory
    /\ smudge' = here /\ here' = here + 1
    /\ UNCHANGED <<order, current, broken>>

\* : lambda: :noname
Colon(n) ==
    /\ mode = "interpret" /\ AppendWord(n)
    /\ word' = Appended(n)
    /\ mode' = "compile" /\ begun' = here /\ created' = 0
    /\ UNCHANGED lists
\* ; links the word in smudge.  That is not the definition if a word was created
\* inside of it, which then is linked a second time, to itself.
Semicolon ==
    /\ mode = "compile"
    /\ ficlDictionaryUnsmudge(word, smudge)
    /\ broken' = IF smudge = begun THEN "no" ELSE "relinked"
    /\ mode' = "interpret" /\ begun' = 0
    /\ UNCHANGED <<here, order, current, smudge, created>>
\* create, variable, constant, value, word-create; an immediate word may run
\* one in compile state
Create(n) ==
    /\ AppendWord(n)
    /\ ficlDictionaryUnsmudge(Appended(n), here)
    /\ created' = here
    /\ UNCHANGED <<mode, begun>>
\* A symbol is made when it is first used; in compile state that waits until the
\* definition runs (symbol-intern).
MakeSymbol(n) ==
    /\ mode = "interpret" /\ ficlDictionaryLookup(n) = 0
    /\ AppendWord(n)
    /\ ficlDictionaryUnsmudge(Appended(n), here)
    /\ UNCHANGED <<mode, begun, created>>
\* does> in the defining word that has made created
Does ==
    /\ mode = "interpret" /\ created # 0
    /\ word' = [word EXCEPT ![smudge].does = TRUE]
    /\ created' = 0
    /\ UNCHANGED <<here, lists, order, current, smudge, mode, begun, broken>>

-----------------------------------------------------------------------------
(* Word lists and the search order. *)

Arranges(o, c) ==
    /\ order' = o /\ current' = c
    /\ UNCHANGED <<here, word, smudge, mode, begun, created>>
\* ficl-wordlist
MakeWordlist(w) ==
    /\ here \in Memory /\ w \in Wid \ DOMAIN lists
    /\ here' = here + 1
    /\ lists' = [x \in DOMAIN lists \cup {w} |->
                   IF x = w THEN [at |-> here, table |-> ficlHashReset, parent |-> NoWid] ELSE lists[x]]
    /\ UNCHANGED <<word, order, current, smudge, mode, begun, created, broken>>
SetCurrent(w) == w \in DOMAIN lists /\ Arranges(order, w) /\ UNCHANGED <<lists, broken>>
Definitions == order # <<>> /\ Arranges(order, order[Len(order)]) /\ UNCHANGED <<lists, broken>>
\* >search checks for more lists than fit, so it stores one behind the last,
\* where wordlistCount is.
SearchPush(w) ==
    /\ w \in DOMAIN lists
    /\ \/ Len(order) < MAX_WORDLISTS /\ Arranges(Append(order, w), current) /\ UNCHANGED broken
       \/ Len(order) = MAX_WORDLISTS /\ Arranges(order, current) /\ broken' = "overflow"
    /\ UNCHANGED lists
SearchPop == order # <<>> /\ Arranges(SubSeq(order, 1, Len(order) - 1), current) /\ UNCHANGED <<lists, broken>>
\* A set-order that takes any number of lists.
OrderFitsAny(s) == TRUE
OrderFits(s) == Len(s) <= MAX_WORDLISTS
SetOrder(s) ==
    /\ OrderFits(s) /\ \A i \in DOMAIN s : s[i] \in DOMAIN lists
    /\ Arranges(s, current) /\ UNCHANGED <<lists, broken>>
\* -1 set-order
SetOrderMinimum == Arranges(<<Forth>>, Forth) /\ UNCHANGED <<lists, broken>>
\* wid-set-super, without the cycles that a lookup would not come out of
SetParent(p, c) ==
    /\ {p, c} \subseteq DOMAIN lists /\ p # c
    /\ lists[p].parent = NoWid /\ \A w \in DOMAIN lists : lists[w].parent # c
    /\ lists' = [lists EXCEPT ![c].parent = p]
    /\ Arranges(order, current) /\ UNCHANGED broken

-----------------------------------------------------------------------------
(* Errors and forget. *)

\* An error at the top, and quit: the definition stays hidden and its memory
\* stays used; an error also resets the search order
\* (ficlDictionaryResetSearchOrder).
Leave(o, c) ==
    /\ mode' = "interpret" /\ begun' = 0 /\ created' = 0
    /\ order' = o /\ current' = c
    /\ UNCHANGED <<here, word, lists, smudge, broken>>
Error == Leave(<<Forth>>, Forth)
Quit == Leave(order, current)

\* A forget that unlinks only what is behind the word.
BehindOff(a, where) == a > where
Behind(a, where) == a >= where
\* The bucket's first word that is not behind where
ficlHashForget(t, where) ==
    [b \in Bucket |-> LET kept == {a \in ChainFrom(t[b]) : ~Behind(a, where)}
                      IN  IF kept = {} THEN 0 ELSE CHOOSE a \in kept : \A x \in kept : x <= a]
\* What forget leaves alone and still uses memory from where on: words of other
\* lists, and lists.
Dangling(where) ==
    \/ \E w \in DOMAIN lists \ {current} :
         lists[w].at < where /\ \E b \in Bucket : \E a \in ChainFrom(lists[w].table[b]) : a >= where
    \/ \E w \in DOMAIN lists : lists[w].at >= where /\
         (w = current \/ (\E i \in DOMAIN order : order[i] = w) \/ \E x \in DOMAIN lists : lists[x].parent = w)
\* forget finds the word by the search order and unlinks it, and what is behind
\* it, from the compilation word list.
Forget(n) ==
    LET where == ficlDictionaryLookup(n) IN
    /\ mode = "interpret" /\ where # 0
    /\ here' = where
    /\ lists' = [w \in {x \in DOMAIN lists : lists[x].at < where \/ x = current} |->
                   IF w = current THEN [lists[w] EXCEPT !.table = ficlHashForget(lists[w].table, where)]
                   ELSE lists[w]]
    /\ broken' = IF Dangling(where) THEN "forgotten" ELSE "no"
    /\ created' = 0
    /\ word' = [a \in Memory |-> IF a < where THEN word[a] ELSE Blank]
    /\ UNCHANGED <<order, current, smudge, mode, begun>>

Orders == {<<>>} \cup {<<v>> : v \in Wid} \cup {<<v, w>> : v, w \in Wid} \cup {<<Forth, v, Forth>> : v \in Wid}
Step ==
    \/ \E n \in Name : Colon(n) \/ Create(n) \/ Forget(n)
    \/ Colon(Nameless) \/ Semicolon \/ Does \/ \E n \in Symbol : MakeSymbol(n)
    \/ \E w \in Wid : MakeWordlist(w) \/ SetCurrent(w) \/ SearchPush(w)
    \/ \E p, c \in Wid : SetParent(p, c)
    \/ \E s \in Orders : SetOrder(s)
    \/ SetOrderMinimum \/ Definitions \/ SearchPop \/ Error \/ Quit
Next == broken = "no" /\ Step
Spec == Init /\ [][Next]_dictvars

-----------------------------------------------------------------------------
\* Type correctness; the search order fits its array.
TypeOK ==
    /\ here \in 1..(MaxMem + 1) /\ smudge \in 0..MaxMem
    /\ word \in [Memory -> [name : Name \cup {Nameless}, link : 0..MaxMem,
                            smudged : BOOLEAN, does : BOOLEAN]]
    /\ DOMAIN lists \subseteq Wid
    /\ \A w \in DOMAIN lists : lists[w] \in [at : 0..MaxMem, table : [Bucket -> 0..MaxMem],
                                             parent : Wid \cup {NoWid}]
    /\ order \in Seq(Wid) /\ Len(order) <= MAX_WORDLISTS
    /\ current \in Wid
    /\ mode \in {"interpret", "compile"}
    /\ broken \in {"no", "relinked", "forgotten", "overflow"}

\* Every chain ends: its addresses go down, it holds complete words of its own
\* bucket and nothing from free memory, through definitions that are given up,
\* reused memory and lists made and forgotten in between.
ChainsEnd ==
    broken = "no" =>
        \A w \in DOMAIN lists, b \in Bucket : \A a \in ChainFrom(lists[w].table[b]) :
            /\ a < here
            /\ word[a].link < a
            /\ ~word[a].smudged
            /\ word[a].name # Nameless /\ BucketOf[word[a].name] = b

Names == INSTANCE FthNames WITH
    parents <- [w \in Wid |-> IF w \in DOMAIN lists THEN lists[w].parent ELSE NoWid],
    defs <- UNION {{[at |-> a, name |-> word[a].name, wid |-> w] :
                    a \in UNION {ChainFrom(lists[w].table[b]) : b \in Bucket}} : w \in DOMAIN lists}
NamesStep == broken' # "no" \/ Names!Next

\* A lookup gives the word defined last in the first list of the search order
\* that has the name, itself or by inheritance.
FindsMeaning == broken = "no" => \A n \in Name : ficlDictionaryLookup(n) = Names!Meaning(n)
=============================================================================
