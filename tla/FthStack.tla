------------------------------ MODULE FthStack ------------------------------
(***************************************************************************)
(* Ficl stacks (ficl/stack.c): an array of cells and the index of the top  *)
(* one, -1 when the stack is empty.  The functions other than              *)
(* ficlStackCheck trust their callers: they read and write wherever top    *)
(* points to.                                                              *)
(*                                                                         *)
(* A cell is [t, v], with the C union member or the Fth type that was      *)
(* stored there for t and its value as a number for v.                     *)
(***************************************************************************)
EXTENDS Integers, Sequences

CELL(t, n) == [t |-> t, v |-> n]
INT(n) == CELL("int", n)
BOOL_TO_FTH(b) == CELL("bool", IF b THEN 1 ELSE 0)
FTH_NIL == CELL("nil", 0)
FTH_UNDEF == CELL("undef", 0)
\* What memory outside the stack holds.
Junk == CELL("junk", 0)

-----------------------------------------------------------------------------
STKDEPTH(s) == s.top + 1
InBounds(s) == STKDEPTH(s) \in 0..s.size
\* The cells above the top are dead.
Settle(s) == [s EXCEPT !.cells = [j \in DOMAIN @ |-> IF j <= s.top THEN @[j] ELSE Junk]]

ficlStackCreate(size) ==
    [cells |-> [j \in 0..(size - 1) |-> Junk], size |-> size, top |-> -1, frame |-> -1]
ficlStackReset(s) == Settle([s EXCEPT !.top = -1])

StackUnderflow(s, pop) == pop > STKDEPTH(s)
\* A check that compares the depth with what is to be pushed only.
StackOverflowLate(s, pop, push) == ~StackUnderflow(s, pop) /\ s.size < push
StackOverflow(s, pop, push) == ~StackUnderflow(s, pop) /\ s.size - STKDEPTH(s) < push - pop

\* Whether n cells below the top is a cell of the stack in use.  Nothing below asks: an
\* access elsewhere is to memory of something else, and a caller whose n nothing has
\* checked has to ask this first and go no further without it.
Reaches(s, n) == s.top - n \in 0..s.top
ficlStackFetch(s, n) == IF s.top - n \in DOMAIN s.cells THEN s.cells[s.top - n] ELSE Junk
ficlStackStore(s, n, c) ==
    IF s.top - n \in DOMAIN s.cells THEN [s EXCEPT !.cells[s.top - n] = c] ELSE s
ficlStackDrop(s, n) == IF n > 0 THEN [s EXCEPT !.top = @ - n] ELSE s
ficlStackPush(s, c) == ficlStackStore([s EXCEPT !.top = @ + 1], 0, c)
ficlStackPick(s, n) == ficlStackPush(s, ficlStackFetch(s, n))
ficlStackPop(s) == [s EXCEPT !.top = @ - 1]
ficlStackSetTop(s, c) == ficlStackStore(s, 0, c)

\* The cells from s.top - n on, moved down by one; or up, for a negative n.
ficlStackRoll(s, n) ==
    LET lo == IF n > 0 THEN s.top - n ELSE s.top + n
        cell(j) == ficlStackFetch(s, s.top - j)
    IN  [s EXCEPT !.cells =
            [j \in DOMAIN @ |->
                IF n = 0 \/ j < lo \/ j > s.top THEN @[j]
                ELSE IF n > 0 THEN IF j = s.top THEN cell(lo) ELSE cell(j + 1)
                ELSE IF j = lo THEN cell(s.top) ELSE cell(j - 1)]]

\* frame, as a value on the stack.
FrameCell(s) == CELL("frame", s.frame)
ficlStackLink(s, n) ==
    LET p == ficlStackPush(s, FrameCell(s))
    IN  [p EXCEPT !.frame = p.top + 1, !.top = @ + n]
ficlStackUnlink(s) ==
    LET u == [s EXCEPT !.top = s.frame - 1]
    IN  [u EXCEPT !.frame = ficlStackFetch(u, 0).v, !.top = @ - 1]

\* The cells in the order in which the callback sees them.
ficlStackWalk(s, bottomToTop) ==
    [j \in 1..STKDEPTH(s) |-> IF bottomToTop THEN s.cells[j - 1] ELSE ficlStackFetch(s, j - 1)]
=============================================================================
