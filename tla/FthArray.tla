------------------------------ MODULE FthArray ------------------------------
(***************************************************************************)
(* Fth arrays as src/src/array.c implements them: a heap buffer `buf' of   *)
(* `buf_length' cells of which the `length' cells from `top' on hold the   *)
(* elements, so that both ends can grow and shrink in place.               *)
(*                                                                         *)
(* The FArray record is a value here and each C function that changes one  *)
(* is an operator from record to record; the actions below apply them to   *)
(* the one array `ary'.  A cell of a buffer is a value of Val, or Junk     *)
(* when it holds no element (FthBuffer).  FthList adds the words on lists, *)
(* which are arrays too, and has the specification of both.                *)
(*                                                                         *)
(* A sub-array may be written beyond its block; nothing is known of the    *)
(* program from then on, and the behaviour ends (Overrun).                 *)
(***************************************************************************)
EXTENDS FthBuffer

CONSTANTS
    Val, Nil, False,    \* values; nil and #f are two of them
    None,               \* the result of a word that returns no value
    Index,              \* indices passed by callers
    Inserted,           \* arrays passed to array-insert!
    MaxLen              \* longest array make-array is asked for

ASSUME SeqAssumption ==
    /\ DEFAULT_SEQ_LENGTH \in Nat \ {0, 1}
    /\ MAX_SEQ_LENGTH \in Nat
    /\ MAX_SEQ_LENGTH >= 2 * DEFAULT_SEQ_LENGTH
    /\ MAX_SEQ_LENGTH % DEFAULT_SEQ_LENGTH = 0
ASSUME ValAssumption == {Nil, False} \subseteq Val /\ Junk \notin Val
ASSUME InputAssumption == /\ Index \subseteq Int
                          /\ Inserted \subseteq Seq(Val)
                          /\ MaxLen \in Nat

VARIABLES ary, result, loop

vars == <<ary, result, loop>>

Cell == Val \cup {Junk}

\* Forgets the cells outside the data.
Settle(a) == [a EXCEPT !.buf = Keep(a.buf, a.top, a.length)]

-----------------------------------------------------------------------------
(* The functions of array.c on an FArray. *)

MakeTop(len) == NewSeqLength(len) \div 3
MakeBufLength(len) == NewSeqLength(len + MakeTop(len))
MakeTooLong(len) == MakeBufLength(len) > MAX_SEQ_LENGTH
\* make_array and the loop of its callers that stores the elements
make_array(s) ==
    [length     |-> Len(s),
     buf_length |-> MakeBufLength(Len(s)),
     top        |-> MakeTop(Len(s)),
     buf        |-> Store(Fresh(MakeBufLength(Len(s))), MakeTop(Len(s)), s)]

\* A push that sizes the buffer by the elements alone, as if they began at cell 0.
PushNeedNoTop(a) == a.length + 1
PushNeed(a) == a.top + a.length + 1
PushStore(a, v) == [a EXCEPT !.buf = Store(a.buf, a.top + a.length, <<v>>),
                             !.length = a.length + 1]
fth_array_push(a, v) == PushStore(Grow(a, PushNeed(a)), v)

Last(a)  == Rd(a.buf, a.top + a.length - 1)
First(a) == Rd(a.buf, a.top)
PopCells(a) == Shrink([a EXCEPT !.length = a.length - 1], a.top + a.length - 1)
fth_array_pop(a) == Settle(PopCells(a))

\* With no room left before the data, they move to a third of the buffer.
Recentre(a) == a.top - 1 < 1
UnshiftTop(a) == IF Recentre(a) THEN a.buf_length \div 3 ELSE a.top - 1
UnshiftNeed(a) == UnshiftTop(a) + a.length + 1
UnshiftMove(a, g) ==
    IF Recentre(a) THEN MemMove(g.buf, UnshiftTop(a) + 1, a.top, a.length) ELSE g.buf
fth_array_unshift(a, v) ==
    LET g == Grow(a, UnshiftNeed(a))
    IN  Settle([g EXCEPT !.top = UnshiftTop(a), !.length = a.length + 1,
                         !.buf = Store(UnshiftMove(a, g), UnshiftTop(a), <<v>>)])

\* The data start beyond the middle: they move back to a third of the buffer.
ShiftMoves(a) == a.top + 1 > a.buf_length \div 2
ShiftTop(a) == IF ShiftMoves(a) THEN a.buf_length \div 3 ELSE a.top
\* A shift that forgets to move the data along with the new top.
ShiftBufNoMove(a) == a.buf
ShiftBuf(a) == IF ShiftMoves(a) THEN MemMove(a.buf, ShiftTop(a), a.top, a.length) ELSE a.buf
ShiftCells(a) ==
    Shrink([a EXCEPT !.buf = ShiftBuf(a), !.top = ShiftTop(a) + 1, !.length = a.length - 1],
           ShiftTop(a) + a.length - 1)
fth_array_shift(a) == Settle(ShiftCells(a))

\* The part of fth_array_insert that inserts before idx, 0 < idx < length.
InsertNeed(a, n) == a.top + a.length + n
fth_array_insert(a, idx, ins) ==
    LET g == Grow(a, InsertNeed(a, Len(ins)))
        opened == MemMove(g.buf, a.top + idx + Len(ins), a.top + idx, a.length - idx)
    IN  [g EXCEPT !.buf = Store(opened, a.top + idx, ins), !.length = a.length + Len(ins)]

\* assoc_insert's way: it asks for the rounded length before it knows whether it
\* needs any more room.
CellLength(a) == NewSeqLength(a.top + a.length + 1)
InsertOne(a, i, cell) ==
    LET g == IF CellLength(a) > a.buf_length THEN Resize(a, CellLength(a)) ELSE a
        opened == MemMove(g.buf, a.top + i + 1, a.top + i, a.length - i)
    IN  [g EXCEPT !.buf = Store(opened, a.top + i, <<cell>>), !.length = a.length + 1]

\* The part of fth_array_delete that deletes neither the first nor the last element.
DeleteMiddle(a, idx) ==
    LET s == Shrink([a EXCEPT !.length = a.length - 1], a.top + a.length - 1)
    IN  [s EXCEPT !.buf = MemMove(s.buf, s.top + idx, s.top + idx + 1, s.length - idx)]
DeleteCells(a, idx) ==
    IF idx = 0 THEN ShiftCells(a)
    ELSE IF idx = a.length - 1 THEN PopCells(a)
    ELSE DeleteMiddle(a, idx)
fth_array_delete(a, idx) == Settle(DeleteCells(a, idx))

\* Elements rewritten in place: the pushes of array-compact! and array-uniq!
\* follow a length of 0 and never pass the old end, so they need no room.
Overwrite(a, s) == Settle([a EXCEPT !.buf = Store(a.buf, a.top, s), !.length = Len(s)])

\* fth_array_subarray: the result has room for the cells from start to end, but
\* the memmove copies as many cells as the whole array has, beyond the new block
\* when that is more than it has room for.
SubarrayEnd(a, start, end) ==
    LET e == IF end < 0 THEN end + a.length + 1 ELSE end
    IN  IF e < start \/ e > a.length THEN a.length ELSE e
fth_array_subarray(a, start, end) ==
    LET r == make_array([i \in 1..(SubarrayEnd(a, start, end) - start) |-> Junk])
        copied == [i \in 1..a.length |-> Rd(a.buf, a.top + start + i - 1)]
    IN  Settle([r EXCEPT !.buf = Store(r.buf, r.top, copied)])

\* fth_array_each over s, with a new array to push to: Wanted says what is pushed next to what
\* has been kept (ary_compact_each, ary_uniq_each).
EachKept(s, Wanted(_, _)) ==
    LET kept[n \in 0..Len(s)] ==
            IF n = 0 THEN <<>>
            ELSE IF Wanted(kept[n - 1], s[n]) THEN Append(kept[n - 1], s[n]) ELSE kept[n - 1]
    IN  kept[Len(s)]
NotNil(kept, v) == v # Nil
NotMember(kept, v) == \A k \in 1..Len(kept) : kept[k] # v

-----------------------------------------------------------------------------
(* Loops under way, results and errors. *)

NoLoop == [op |-> "none", i |-> 0, vals |-> <<>>]
Loop(o, k, s) == [op |-> o, i |-> k, vals |-> s]
Overrun == result[1] = "overrun"
Ready == ~Overrun /\ loop.op \in {"none", "callback"}
Idle  == ~Overrun /\ loop.op = "none"

Returns(kind, v) == result' = <<kind, v>>
\* An exception: inside a callback it ends the loop, unless the callback catches it.
Raises(kind) == /\ result' = <<kind, None>>
                /\ loop' \in {loop, NoLoop}
                /\ UNCHANGED ary

Norm(idx) == IF idx < 0 THEN idx + ary.length ELSE idx
InRange(idx) == 0 <= Norm(idx) /\ Norm(idx) < ary.length

\* The first position from which v is found, or -1 (fth_array_index).
IndexOf(v) ==
    LET at == {k \in 0..(ary.length - 1) : Rd(ary.buf, ary.top + k) = v}
    IN  IF at = {} THEN -1 ELSE CHOOSE k \in at : \A m \in at : k <= m

-----------------------------------------------------------------------------
Init == ary = make_array(<<>>) /\ result = <<"ok", None>> /\ loop = NoLoop

Make(n, v) ==
    /\ Idle
    /\ \/ /\ n >= 0 /\ ~MakeTooLong(n)
          /\ ary' = make_array([i \in 1..n |-> v])
          /\ Returns("ok", None)
          /\ UNCHANGED loop
       \/ n >= 0 /\ MakeTooLong(n) /\ Raises("too-long")
       \/ n < 0 /\ Raises("out-of-range")

Ref(idx) ==
    /\ Ready
    /\ \/ /\ InRange(idx)
          /\ Returns("val", Rd(ary.buf, ary.top + Norm(idx)))
          /\ UNCHANGED <<ary, loop>>
       \/ ~InRange(idx) /\ Raises("out-of-range")

Set(idx, v) ==
    /\ Ready
    /\ \/ /\ InRange(idx)
          /\ ary' = [ary EXCEPT !.buf = Store(@, ary.top + Norm(idx), <<v>>)]
          /\ Returns("val", v)
          /\ UNCHANGED loop
       \/ ~InRange(idx) /\ Raises("out-of-range")

Push(v) ==
    /\ Ready
    /\ \/ /\ ~TooLong(ary, PushNeed(ary))
          /\ ary' = fth_array_push(ary, v)
          /\ Returns("ok", None)
          /\ UNCHANGED loop
       \/ TooLong(ary, PushNeed(ary)) /\ Raises("too-long")

Pop ==
    /\ Ready
    /\ UNCHANGED loop
    /\ \/ ary.length # 0 /\ ary' = fth_array_pop(ary) /\ Returns("val", Last(ary))
       \/ ary.length = 0 /\ Returns("val", False) /\ UNCHANGED ary

Unshift(v) ==
    /\ Ready
    /\ \/ /\ ~TooLong(ary, UnshiftNeed(ary))
          /\ ary' = fth_array_unshift(ary, v)
          /\ Returns("ok", None)
          /\ UNCHANGED loop
       \/ TooLong(ary, UnshiftNeed(ary)) /\ Raises("too-long")

Shift ==
    /\ Ready
    /\ UNCHANGED loop
    /\ \/ ary.length # 0 /\ ary' = fth_array_shift(ary) /\ Returns("val", First(ary))
       \/ ary.length = 0 /\ Returns("val", False) /\ UNCHANGED ary

\* array-delete! asks for a nonempty array before it looks at the index
DeleteError == IF ary.length = 0 THEN "wrong-type-arg" ELSE "out-of-range"

Delete(idx) ==
    /\ Ready
    /\ \/ /\ InRange(idx)
          /\ Returns("val", Rd(ary.buf, ary.top + Norm(idx)))
          /\ ary' = fth_array_delete(ary, Norm(idx))
          /\ UNCHANGED loop
       \/ ~InRange(idx) /\ Raises(DeleteError)

DeleteKey(v) ==
    /\ Ready
    /\ UNCHANGED loop
    /\ \/ /\ IndexOf(v) >= 0
          /\ Returns("val", Rd(ary.buf, ary.top + IndexOf(v)))
          /\ ary' = fth_array_delete(ary, IndexOf(v))
       \/ IndexOf(v) < 0 /\ Returns("val", False) /\ UNCHANGED ary

Find(v) ==
    /\ Ready
    /\ Returns("idx", IndexOf(v))
    /\ UNCHANGED <<ary, loop>>

InsertAt(idx, ins) ==
    /\ Ready
    /\ Norm(idx) # 0
    /\ \/ /\ InRange(idx)
          /\ \/ /\ ~TooLong(ary, InsertNeed(ary, Len(ins)))
                /\ ary' = fth_array_insert(ary, Norm(idx), ins)
                /\ Returns("ok", None)
                /\ UNCHANGED loop
             \/ TooLong(ary, InsertNeed(ary, Len(ins))) /\ Raises("too-long")
       \/ ~InRange(idx) /\ Raises("out-of-range")

\* assoc: a cell at the place i its key has (FthAssoc finds it)
InsertCell(i, cell) ==
    /\ Ready
    /\ i <= ary.length
    /\ \/ /\ CellLength(ary) <= MAX_SEQ_LENGTH
          /\ ary' = InsertOne(ary, i, cell)
          /\ Returns("ok", None)
          /\ UNCHANGED loop
       \/ CellLength(ary) > MAX_SEQ_LENGTH /\ Raises("too-long")

(* array-insert! at index 0 of another array or of the array itself: one   *)
(* fth_array_unshift for each element, the last one first.  The element is *)
(* read from the inserted array at each step, and an array inserted into   *)
(* itself has moved by then.                                               *)
InsertFront(ins) ==
    /\ Idle
    /\ loop' = Loop("insert", Len(ins), ins)
    /\ UNCHANGED <<ary, result>>

InsertFrontSelf ==
    /\ Idle
    /\ loop' = Loop("insert-self", ary.length, <<>>)
    /\ UNCHANGED <<ary, result>>

InsertStep ==
    /\ loop.op \in {"insert", "insert-self"}
    /\ loop.i > 0
    /\ \/ /\ ~TooLong(ary, UnshiftNeed(ary))
          /\ ary' = fth_array_unshift(ary, IF loop.op = "insert" THEN loop.vals[loop.i]
                                           ELSE Rd(ary.buf, ary.top + loop.i - 1))
          /\ loop' = [loop EXCEPT !.i = @ - 1]
          /\ UNCHANGED result
       \/ /\ TooLong(ary, UnshiftNeed(ary))
          /\ Returns("too-long", None)
          /\ loop' = NoLoop
          /\ UNCHANGED ary

InsertDone ==
    /\ loop.op \in {"insert", "insert-self"}
    /\ loop.i = 0
    /\ Returns("ok", None)
    /\ loop' = NoLoop
    /\ UNCHANGED ary

(* array-reject!: while the callback runs it may use the array. *)
RejectStart ==
    /\ Idle
    /\ \/ ary.length < 2 /\ Returns("ok", None) /\ UNCHANGED <<ary, loop>>
       \/ ary.length >= 2 /\ loop' = Loop("reject", 0, <<>>) /\ UNCHANGED <<ary, result>>

RejectCall ==
    /\ loop.op = "reject"
    /\ loop.i < ary.length
    /\ loop' = [loop EXCEPT !.op = "callback"]
    /\ UNCHANGED <<ary, result>>

RejectKeep ==
    /\ loop.op = "callback"
    /\ loop' = Loop("reject", loop.i + 1, <<>>)
    /\ UNCHANGED <<ary, result>>

RejectDelete ==
    /\ loop.op = "callback"
    /\ \/ /\ loop.i < ary.length
          /\ ary' = fth_array_delete(ary, loop.i)
          /\ loop' = Loop("reject", loop.i, <<>>)
          /\ UNCHANGED result
       \/ /\ loop.i >= ary.length
          /\ Returns(DeleteError, None)
          /\ loop' = NoLoop
          /\ UNCHANGED ary

RejectDone ==
    /\ loop.op = "reject"
    /\ loop.i >= ary.length
    /\ Returns("ok", None)
    /\ loop' = NoLoop
    /\ UNCHANGED ary

(* Words that copy the array before they rewrite it. *)
Rewrite(a) ==
    /\ Ready
    /\ \/ /\ ~MakeTooLong(ary.length)
          /\ ary' = a
          /\ Returns("ok", None)
          /\ UNCHANGED loop
       \/ MakeTooLong(ary.length) /\ Raises("too-long")

Reverse == Rewrite(Overwrite(ary, [i \in 1..ary.length |-> Contents(ary)[ary.length + 1 - i]]))
Compact == Rewrite(Overwrite(ary, EachKept(Contents(ary), NotNil)))
Uniq    == Rewrite(Overwrite(ary, EachKept(Contents(ary), NotMember)))
\* array-copy and the words that work on a copy: the copy replaces the array
Copy    == Idle /\ Rewrite(make_array(Contents(ary)))

Fill(v) ==
    /\ Ready
    /\ ary' = Overwrite(ary, [i \in 1..ary.length |-> v])
    /\ Returns("ok", None)
    /\ UNCHANGED loop

Clear == Fill(False)

\* The sub-array replaces the array.
Part(start, end) ==
    LET part == fth_array_subarray(ary, start, end)
    IN  IF MakeTooLong(SubarrayEnd(ary, start, end) - start) THEN Raises("too-long")
        ELSE /\ ary' = part
             /\ Returns(IF InBlock(part) THEN "ok" ELSE "overrun", None)
             /\ UNCHANGED loop
Subarray(start, end) ==
    Idle /\ IF InRange(start) THEN Part(Norm(start), end) ELSE Raises("out-of-range")

Lost == Overrun /\ UNCHANGED vars

Next ==
    \/ \E n \in -1..MaxLen, v \in Val : Make(n, v)
    \/ \E idx \in Index : Ref(idx)
    \/ \E idx \in Index, v \in Val : Set(idx, v)
    \/ \E idx \in Index : Delete(idx)
    \/ \E v \in Val : Push(v)
    \/ \E v \in Val : Unshift(v)
    \/ Pop \/ Shift
    \/ \E v \in Val : DeleteKey(v)
    \/ \E v \in Val : Find(v)
    \/ \E v \in Val : Fill(v)
    \/ \E idx \in Index, ins \in Inserted \cup {Contents(ary)} : InsertAt(idx, ins)
    \/ \E i \in 0..MaxLen, v \in Val : InsertCell(i, v)
    \/ \E start, end \in Index : Subarray(start, end)
    \/ \E ins \in Inserted : InsertFront(ins)
    \/ InsertFrontSelf \/ InsertStep \/ InsertDone
    \/ RejectStart \/ RejectCall \/ RejectKeep \/ RejectDelete \/ RejectDone
    \/ Reverse \/ Compact \/ Uniq \/ Copy \/ Clear
    \/ Lost

-----------------------------------------------------------------------------
(* The shape of the FArray record and of the loop registers: buffer,       *)
(* counters and cursor stay in their types whatever words run              *)
(* (array.c's FArray, the locals of fth_array_insert and fth_array_reject). *)
TypeOK == /\ DOMAIN ary = {"length", "buf_length", "top", "buf"}
          /\ ary.length \in Nat /\ ary.buf_length \in Nat /\ ary.top \in Int
          /\ ary.buf \in [0..(ary.buf_length - 1) -> Cell]
          /\ loop.op \in {"none", "insert", "insert-self", "reject", "callback"}
          /\ loop.i \in Nat

(* No word but one that makes a sub-array ever writes outside of the block *)
(* of an array, and none leaves a data pointer or a length that reaches    *)
(* out of it or a buffer beyond MAX_SEQ_LENGTH (the picture above          *)
(* make_array), whatever sequence of pushes, shifts, insertions and        *)
(* callbacks came before.                                                  *)
DataInBuffer == ~Overrun => /\ TypeOK
                            /\ 0 <= ary.top
                            /\ ary.top + ary.length <= ary.buf_length
                            /\ ary.buf_length <= MAX_SEQ_LENGTH

(* fth_array_subarray's memmove is the only write beyond the block of an   *)
(* array, of all the words on arrays and lists (array-subarray, cdr, cddr  *)
(* and list-head go through it), and it spares the sub-arrays that leave   *)
(* out one element at most.                                                *)
OnlyPartsOverrun ==
    [][~Overrun => \/ InBlock(ary')
                   \/ Overrun' /\ ary'.length + 2 <= ary.length]_vars
=============================================================================
