----------------------------- MODULE FthBuffer ------------------------------
(***************************************************************************)
(* The buffers of arrays and strings (fth-lib.h, array.c, string.c): a     *)
(* heap block of `buf_length' cells in which the data begin at cell `top'. *)
(* A cell without data is Junk: calloc's zeroes, realloc's new cells, and  *)
(* the stale values that operations leave outside the data, which the      *)
(* program must not use (Settle).  A read outside the block yields Junk.   *)
(* A write outside it leaves the cell Beyond in the buffer for good, so   *)
(* that the invariants of the modules that extend this one can say whether *)
(* there has been one (InBlock).                                           *)
(***************************************************************************)
EXTENDS Integers, Sequences

CONSTANTS
    DEFAULT_SEQ_LENGTH, \* allocation granularity (128 in fth-lib.h)
    MAX_SEQ_LENGTH,     \* largest buffer (8388608 cells with 64 bit cells)
    Junk                \* an unset cell

NewSeqLength(n) == ((n \div DEFAULT_SEQ_LENGTH) + 1) * DEFAULT_SEQ_LENGTH

Beyond == -1    \* stands for the memory around the block
\* The cells of b once n of them from `at' on have been written.
Written(b, at, n) == DOMAIN b \cup (IF at..(at + n - 1) \subseteq DOMAIN b THEN {} ELSE {Beyond})
InBlock(a) == Beyond \notin DOMAIN a.buf

Rd(b, j) == IF j \in DOMAIN b THEN b[j] ELSE Junk
Realloc(b, n) == [j \in 0..(n - 1) \cup (DOMAIN b \cap {Beyond}) |-> Rd(b, j)]
MemMove(b, dst, src, n) ==
    [j \in Written(b, dst, n) |-> IF dst <= j /\ j < dst + n THEN Rd(b, j - dst + src) ELSE Rd(b, j)]
\* The buffer b with the elements of s stored from cell `at' on.
Store(b, at, s) ==
    [j \in Written(b, at, Len(s)) |-> IF at <= j /\ j < at + Len(s) THEN s[j - at + 1] ELSE Rd(b, j)]
Fresh(n) == [j \in 0..(n - 1) |-> Junk]

Resize(a, n) == [a EXCEPT !.buf_length = n, !.buf = Realloc(a.buf, n)]
TooLong(a, need) == need > a.buf_length /\ NewSeqLength(need) > MAX_SEQ_LENGTH
Grow(a, need) == IF need > a.buf_length THEN Resize(a, NewSeqLength(need)) ELSE a
Shrink(a, used) ==
    IF NewSeqLength(used) < a.buf_length THEN Resize(a, NewSeqLength(used)) ELSE a

\* Forgets all but the n cells from `from' on.
Keep(b, from, n) == [j \in DOMAIN b |-> IF from <= j /\ j < from + n THEN b[j] ELSE Junk]

\* The data, as a user of the array or string sees them.
Contents(a) == [i \in 1..a.length |-> Rd(a.buf, a.top + i - 1)]
=============================================================================
