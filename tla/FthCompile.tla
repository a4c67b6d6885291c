----------------------------- MODULE FthCompile -----------------------------
(***************************************************************************)
(* The compiler: colon definitions, the immediate words that build control *)
(* structures, and local variables (ficl/primitives.c, src/proc.c).  A      *)
(* structure word compiles a branch, leaves its address and a tag on the    *)
(* data stack, and the word that closes the structure takes them again.     *)
(*                                                                          *)
(* An instruction and its operand are one element of code.  A branch holds  *)
(* the index it goes to, Open while it waits to be patched.                 *)
(***************************************************************************)
EXTENDS Naturals, Sequences, FiniteSets

CONSTANTS
    LocalName,         \* names of locals
    Dummy,             \* the local that : and lambda: declare themselves
    MAX_LOCALS,        \* FICL_MAX_LOCALS
    MaxCode,           \* bounds of the model: the instructions of a definition,
    MaxLeft            \* and both what errors may leave in the locals dictionary
                       \* and the instructions of a definition that finds it there

ASSUME CompileAssumption ==
    /\ Dummy \notin LocalName
    /\ MAX_LOCALS \in Nat \ {0}
    /\ MaxCode \in Nat /\ MaxLeft \in Nat

VARIABLES
    state,        \* vm->state
    opened,       \* history: how the definition in progress began
    code,         \* what it has compiled
    stack,        \* vm->dataStack
    localsCount,  \* how many locals the definition has
    locals,       \* the locals dictionary, the newest name last
    localsFixup,  \* the (link) instruction that holds the number of locals
    wild,         \* endcase has written to what is no address: undefined from there
    done          \* history: the definition in progress or accepted last
vars == <<state, opened, code, stack, localsCount, locals, localsFixup, wild, done>>

Open == 0
Ins(op, to) == [op |-> op, to |-> to]
here == Len(code) + 1
Patch(c, a, to) == [c EXCEPT ![a].to = to]

Tag(t) == <<"tag", t>>
Addr(a) == <<"addr", a>>
Num(n) == <<"num", n>>
Xt == <<"xt", 0>>
FromTop(k) == stack[Len(stack) + 1 - k]
Below(k) == SubSeq(stack, 1, Len(stack) - k)
Matches(k, tag) == Len(stack) >= k /\ FromTop(k) = Tag(tag)
Holds(k) == FromTop(k)[2]        \* the address or number k cells down
markBranch(a, tag) == <<Addr(a), Tag(tag)>>

\* What is known of a definition: how it began, on which stack, whether an error
\* had left locals behind, whether a while stood outside of begin, and, once ;
\* has accepted it, its code and the stack it left.
None == [how |-> "none", found |-> <<>>, clean |-> TRUE, loose |-> FALSE,
         code |-> <<>>, left |-> <<>>]

Init ==
    /\ state = "interpret" /\ opened = "none"
    /\ code = <<>> /\ stack = <<>>
    /\ localsCount = 0 /\ locals = <<>> /\ localsFixup = 0
    /\ wild = FALSE
    /\ done = None

-----------------------------------------------------------------------------
(* Local variables: what (local) compiles for a name, followed by 0 0       *)
(* (local), which stores the number of locals in the (link).                *)

\* A (local) that does not store the number again.
LocalParenUnfixed(c, count, fixup) ==
    IF count = 0 THEN c \o <<Ins("link", 1), Ins("tolocal", 0)>>
    ELSE Append(c, Ins("tolocal", count))
\* fixup is 0 when it points into another definition, which an error has ended.
LocalParen(c, count, fixup) ==
    LET linked == IF count = 0 THEN Append(c, Ins("link", 0)) ELSE c
        at == IF count = 0 THEN Len(linked) ELSE fixup
        stored == Append(linked, Ins("tolocal", count))
    IN  IF at = 0 THEN stored ELSE Patch(stored, at, count + 1)
FixupOf(c, count, fixup) == IF count = 0 THEN Len(c) + 1 ELSE fixup

\* ficl_init_locals declares the dummy: a definition is linked at its beginning.
ficl_init_locals(c) == LocalParen(c, 0, 0)

\* Places of a name in the locals dictionary; the newest is found.
LocalPlaces(n) == {i \in DOMAIN locals : locals[i].name = n}
ficlSystemLookupLocal(n) ==
    IF localsCount = 0 \/ LocalPlaces(n) = {} THEN <<>>
    ELSE <<locals[CHOOSE i \in LocalPlaces(n) : \A j \in LocalPlaces(n) : j <= i].index>>

-----------------------------------------------------------------------------
(* Definitions. *)

\* The two instructions that : and lambda: compile themselves do not count.
Limit == (IF done.clean THEN MaxCode ELSE MaxLeft) + (IF opened = "noname" THEN 0 ELSE 2)
Begin(how, below) ==
    /\ state = "interpret" /\ opened = "none" /\ Len(locals) <= MaxLeft
    /\ state' = "compile"
    /\ opened' = how
    /\ done' = [None EXCEPT !.how = how, !.found = below,
                           !.clean = locals = <<>> /\ (how = "noname" => localsCount = 0)]
    /\ UNCHANGED wild

\* : (ficl_begin_definition) and lambda: (ficl_lambda_definition)
Colon(how, below) ==
    /\ Begin(how, below)
    /\ stack' = below \o (IF how = "lambda" THEN <<Xt>> ELSE <<>>) \o <<Tag("colon")>>
    /\ code' = ficl_init_locals(<<>>)
    /\ localsCount' = 1
    /\ locals' = Append(locals, [name |-> Dummy, index |-> 0])
    /\ localsFixup' = FixupOf(<<>>, 0, 0)
\* :noname (ficlPrimitiveColonNoName) leaves localsCount as it is.
NoName(below) ==
    /\ Begin("noname", below)
    /\ stack' = below \o <<Xt, Tag("colon")>>
    /\ code' = <<>>
    /\ localsFixup' = 0
    /\ UNCHANGED <<localsCount, locals>>

Unlink == IF localsCount > 0 THEN <<Ins("unlink", 0)>> ELSE <<>>
\* ; and does> empty the locals dictionary when the definition has locals.
LocalsAtEnd == IF localsCount > 0 THEN <<>> ELSE locals
\* A ; that does not look at the tag.
SemicolonTagUnchecked == Len(stack) > 0
SemicolonTag == Matches(1, "colon")
Semicolon ==
    /\ state = "compile" /\ SemicolonTag
    /\ done' = [done EXCEPT !.code = code \o Unlink \o <<Ins("semi", 0)>>, !.left = Below(1)]
    /\ locals' = LocalsAtEnd
    /\ localsCount' = 0 /\ localsFixup' = 0
    /\ state' = "interpret" /\ opened' = "none"
    /\ code' = <<>> /\ stack' = <<>>
    /\ UNCHANGED wild

\* An error, in compile state (a tag that does not match, too few cells, too many
\* locals, a name not found) or of a word between [ and ], reaches
\* ficlVmExecuteString: the definition is given up and the stack reset; the
\* locals dictionary is emptied in compile state only, and localsCount stays.
\* Brackets without an error change nothing here.
Error(at) ==
    /\ state = "compile"
    /\ locals' = IF at = "compile" THEN <<>> ELSE locals
    /\ state' = "interpret" /\ opened' = "none"
    /\ code' = <<>> /\ stack' = <<>> /\ localsFixup' = 0 /\ done' = None
    /\ UNCHANGED <<localsCount, wild>>

-----------------------------------------------------------------------------
(* Words compiled into the definition. *)

\* The instructions the open structures still need to be closed count too.
Closing(s) == Cardinality({i \in DOMAIN s : s[i] \in {Tag("target"), Tag("do"), Tag("case"), Tag("of")}})
\* Every structure word compiles c and leaves s on the stack.
Compiles(c, s) ==
    /\ state = "compile" /\ Len(c) + Closing(s) <= Limit
    /\ code' = c
    /\ stack' = s
    /\ UNCHANGED <<state, opened, localsCount, locals, localsFixup>>
Plainly(c, s) == Compiles(c, s) /\ UNCHANGED <<wild, done>>

If == Plainly(Append(code, Ins("if", Open)), stack \o markBranch(here, "origin"))
Else ==
    /\ Matches(1, "origin")
    /\ Plainly(Patch(Append(code, Ins("else", Open)), Holds(2), here + 1),
               Below(2) \o markBranch(here, "origin"))
Then == Matches(1, "origin") /\ Plainly(Patch(code, Holds(2), here), Below(2))

BeginLoop == Plainly(code, stack \o markBranch(here, "target"))
\* until and again
Until == Matches(1, "target") /\ Plainly(Append(code, Ins("until", Holds(2))), Below(2))
\* while moves its mark below the pair on top, whatever that is.
TwoSwap(s) == LET n == Len(s) IN SubSeq(s, 1, n - 4) \o SubSeq(s, n - 1, n) \o SubSeq(s, n - 3, n - 2)
While ==
    /\ Len(stack) >= 2
    /\ Compiles(Append(code, Ins("while", Open)), TwoSwap(stack \o markBranch(here, "origin")))
    /\ done' = [done EXCEPT !.loose = done.loose \/ ~Matches(1, "target")]
    /\ UNCHANGED wild
Repeat ==
    /\ Matches(1, "target") /\ Matches(3, "origin")
    /\ Plainly(Patch(Append(code, Ins("repeat", Holds(2))), Holds(4), here + 1), Below(4))

\* do and ?do; the leave address is absolute.
Do == Plainly(Append(code, Ins("do", Open)),
              stack \o markBranch(here, "leave") \o markBranch(here + 1, "do"))
\* A loop whose leave address is its own instruction.
LeaveTargetBefore == here
LeaveTarget == here + 1
\* loop and +loop
Loop ==
    /\ Matches(1, "do") /\ Matches(3, "leave")
    /\ Plainly(Patch(Append(code, Ins("loop", Holds(2))), Holds(4), LeaveTarget), Below(4))

\* A case leaves the addresses its endofs have left, their number and a tag.
Case == Plainly(code, stack \o <<Num(0), Tag("case")>>)
Fell == IF Matches(1, "fallthrough") THEN 2 ELSE 0    \* cells of a fallthrough
Of ==
    /\ Matches(Fell + 1, "case")
    /\ LET c == Append(code, Ins("of", Open))
       IN  Plainly(IF Fell = 0 THEN c ELSE Patch(c, Holds(2), here + 1),
                   Below(Fell) \o markBranch(here, "of"))
\* endof patches the of before it, and waits for endcase.
Endof ==
    /\ Matches(1, "of") /\ Matches(3, "case") /\ Len(stack) >= 4
    /\ Plainly(Patch(Append(code, Ins("endof", Open)), Holds(2), here + 1),
               Below(4) \o <<Addr(here), Num(Holds(4) + 1), Tag("case")>>)
Fallthrough ==
    /\ Matches(1, "of") /\ Matches(3, "case") /\ Len(stack) >= 4
    /\ Plainly(Patch(Append(code, Ins("fallthrough", Open)), Holds(2), here + 1),
               Below(2) \o markBranch(here, "fallthrough"))
\* The cells endcase takes as addresses, a fallthrough's among them; it does not
\* look whether they are.
EndcaseTakes ==
    LET n == Holds(Fell + 2)
        below == Below(Fell + 2)
    IN  SubSeq(below, Len(below) + 1 - n, Len(below)) \o (IF Fell = 0 THEN <<>> ELSE <<FromTop(2)>>)
EndcaseAddresses == {i \in DOMAIN EndcaseTakes : EndcaseTakes[i][1] = "addr"}
Endcase ==
    /\ Matches(Fell + 1, "case")
    /\ LET taken == {EndcaseTakes[i][2] : i \in EndcaseAddresses}
           c == Append(code, Ins("drop", 0))
       IN  Compiles([a \in DOMAIN c |-> IF a \in taken THEN Ins(c[a].op, Len(c) + 1) ELSE c[a]],
                    Below(Fell + 2 + Holds(Fell + 2)))
    /\ wild' = \E i \in DOMAIN EndcaseTakes : EndcaseTakes[i][1] # "addr"
    /\ UNCHANGED done

Exit == Plainly(code \o Unlink \o <<Ins("exit", 0)>>, stack)
\* does> ends the frame of the first part and begins one of its own.
Does ==
    /\ state = "compile" /\ Len(code) + 4 <= Limit
    /\ LET c == code \o Unlink \o <<Ins("does", 0)>> IN
        /\ code' = ficl_init_locals(c)
        /\ localsFixup' = FixupOf(c, 0, 0)
    /\ locals' = Append(LocalsAtEnd, [name |-> Dummy, index |-> 0])
    /\ localsCount' = 1
    /\ UNCHANGED <<state, opened, stack, wild, done>>

LocalRoom == localsCount < MAX_LOCALS
\* { n }
Local(n) ==
    /\ state = "compile" /\ LocalRoom /\ Len(code) + 2 <= Limit
    /\ code' = LocalParen(code, localsCount, localsFixup)
    /\ localsFixup' = FixupOf(code, localsCount, localsFixup)
    /\ locals' = Append(locals, [name |-> n, index |-> localsCount])
    /\ localsCount' = localsCount + 1
    /\ UNCHANGED <<state, opened, stack, wild, done>>
\* The name of a local.  Other words compile instructions that no property is
\* about, and code leaves them out.
Word(n) ==
    /\ ficlSystemLookupLocal(n) # <<>>
    /\ Plainly(Append(code, Ins("getlocal", ficlSystemLookupLocal(n)[1])), stack)

Step ==
    \/ Colon("colon", <<>>) \/ Colon("lambda", <<>>) \/ NoName(<<>>)
    \/ Semicolon \/ \E at \in {"compile", "interpret"} : Error(at)
    \/ If \/ Else \/ Then
    \/ BeginLoop \/ Until \/ While \/ Repeat \/ Do \/ Loop
    \/ Case \/ Of \/ Endof \/ Fallthrough \/ Endcase
    \/ Exit \/ Does \/ \E n \in LocalName : Local(n) \/ Word(n)
Next == ~wild /\ Step

Spec == Init /\ [][Next]_vars

-----------------------------------------------------------------------------
Cell == ({"tag"} \X {"colon", "origin", "target", "do", "leave", "case", "of", "fallthrough"})
        \cup ({"addr", "num", "xt"} \X Nat)
Branches == {"if", "else", "while", "until", "repeat", "do", "loop", "of", "endof", "fallthrough"}
Code == Seq([op : Branches \cup {"link", "unlink", "tolocal", "getlocal", "drop",
                                 "exit", "does", "semi"}, to : Nat])

\* Type correctness: an address on the stack is one of this definition's, or
\* the one it ends at.
TypeOK ==
    /\ state \in {"interpret", "compile"}
    /\ opened \in {"none", "colon", "lambda", "noname"}
    /\ code \in Code
    /\ stack \in Seq(Cell)
    /\ \A i \in DOMAIN stack : stack[i][1] = "addr" => stack[i][2] \in 1..here
    /\ localsCount \in 0..MAX_LOCALS
    /\ locals \in Seq([name : LocalName \cup {Dummy}, index : 0..(MAX_LOCALS - 1)])
    /\ localsFixup \in 0..Len(code)
    /\ wild \in BOOLEAN

Accepted == done.code # <<>>
IsBranch(c, i) == c[i].op \in Branches

\* Where each kind of branch goes in an accepted definition.
GoesRight(c, i) ==
    LET to == c[i].to
        before == IF to \in 2..(Len(c) + 1) THEN c[to - 1] ELSE Ins("none", 0)
    IN  /\ to \in 1..Len(c)
        /\ c[i].op \in {"if", "else", "while", "do", "of", "endof", "fallthrough"} => to > i
        /\ c[i].op \in {"until", "repeat", "loop"} => to <= i
        /\ c[i].op = "do" => before = Ins("loop", i + 1)
        /\ c[i].op = "of" => before.op \in {"endof", "fallthrough"}
        /\ c[i].op = "endof" => before.op = "drop"
        /\ c[i].op = "fallthrough" => before.op \in {"of", "drop"}

\* The tags are enough: whatever order the structure words come in, a
\* definition that ; accepts has every branch patched, each to the place its
\* structure gives it, and leaves the stack as it was, with the xt of a nameless
\* one.  (A while outside of begin is not checked, and is the exception.)
BranchesResolved == TypeOK /\
    (Accepted /\ ~done.loose =>
        /\ \A i \in DOMAIN done.code : IsBranch(done.code, i) => GoesRight(done.code, i)
        /\ done.left = done.found \o (IF done.how = "colon" THEN <<>> ELSE <<Xt>>))

\* No branch leads into the body of a do loop or out of it, past the (do) and
\* (loop) that keep the return stack and the frames of the collector in order.
DoBodiesClosed ==
    Accepted /\ ~done.loose =>
        \A d \in DOMAIN done.code : done.code[d].op = "do" =>
            LET body == (d + 1)..(done.code[d].to - 1)
            IN  \A i \in DOMAIN done.code \ {d} :
                    IsBranch(done.code, i) => (i \in body <=> done.code[i].to \in body)

\* The (link) whose frame is there at instruction i: the last one after the last
\* does>, 0 if there is none.
Places(c, i, op) == {j \in 1..(i - 1) : c[j].op = op}
LinkAt(c, i) ==
    LET open == {j \in Places(c, i, "link") : ~\E k \in Places(c, i, "does") : j < k}
    IN  IF open = {} THEN 0 ELSE CHOOSE j \in open : \A k \in open : k <= j

\* A definition that begins with no locals left over unlinks its frame at every
\* exit, at does> and at its end, if and only if it has linked one, uses no
\* local outside of it, and links it first if : or lambda: began it, so no
\* branch can miss it ("If the first local variable of a word definition was
\* created in a loop, it wasn't handled correctly").
FramesMatch ==
    Accepted /\ done.clean =>
        LET c == done.code IN
        /\ done.how # "noname" => c[1].op = "link"
        /\ \A i \in DOMAIN c :
            LET l == LinkAt(c, i) IN
            /\ c[i].op \in {"exit", "does", "semi"} => (i > 1 /\ c[i - 1].op = "unlink" <=> l # 0)
            /\ c[i].op \in {"tolocal", "getlocal"} => l # 0 /\ c[i].to < c[l].to
=============================================================================
