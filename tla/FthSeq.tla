------------------------------- MODULE FthSeq -------------------------------
(***************************************************************************)
(* What an Fth array promises its users: a sequence of values, changed by  *)
(* the words array-push, array-pop, array-unshift, array-shift,            *)
(* array-insert!, array-delete!, ... and by Lisp's words on lists, which   *)
(* are arrays, and nothing else.  No buffer, no reallocation and no data   *)
(* pointer is visible here.  FthArray and FthList are the implementation   *)
(* (src/src/array.c).                                                      *)
(*                                                                         *)
(* Two words are loops.  array-insert! of an array at index 0 prepends one *)
(* element at a time, and array-reject! runs a user's callback for every   *)
(* element; the callback may use any word on the same array.  `loop' holds *)
(* the loop under way.                                                     *)
(***************************************************************************)
EXTENDS Integers, Sequences

CONSTANTS
    Val,        \* the values an array can hold
    Nil,        \* the value nil, which array-compact! removes
    False,      \* the value #f, which array-clear stores
    None,       \* "no value": what a word without a result returns
    Index,      \* the indices callers pass, negative ones included
    Inserted,   \* the arrays callers pass to array-insert!
    MaxLen,     \* bound on the length array-make is asked for
    Capacity    \* below this length growing never fails

VARIABLES seq, result, loop

vars == <<seq, result, loop>>

NoLoop == [op |-> "none", i |-> 0, vals |-> <<>>]
Loop(o, k, s) == [op |-> o, i |-> k, vals |-> s]

(* Words run from the interpreter or from the callback of array-reject!;   *)
(* a word that loops is started from the interpreter only.  No word runs   *)
(* once memory is overrun.                                                 *)
Ready == result[1] # "overrun" /\ loop.op \in {"none", "callback"}
Idle  == result[1] # "overrun" /\ loop.op = "none"

Returns(kind, v) == result' = <<kind, v>>

(* An error leaves the array alone.  Raised inside a callback it ends the  *)
(* loop, unless the callback catches it.                                   *)
Raises(kind) == /\ result' = <<kind, None>>
                /\ loop' \in {loop, NoLoop}
                /\ UNCHANGED seq

Norm(idx) == IF idx < 0 THEN idx + Len(seq) ELSE idx
InRange(idx) == 0 <= Norm(idx) /\ Norm(idx) < Len(seq)

(* The sequence without its element at position k (counted from 0). *)
Without(s, k) == SubSeq(s, 1, k) \o SubSeq(s, k + 2, Len(s))

(* The elements of s that differ from every earlier one. *)
FirstOnes(s) ==
    LET pos == SelectSeq([i \in 1..Len(s) |-> i],
                         LAMBDA i : \A j \in 1..(i - 1) : s[j] # s[i])
    IN  [k \in 1..Len(pos) |-> s[pos[k]]]

TooLong(n) == n >= Capacity /\ Raises("too-long")

Init == seq = <<>> /\ result = <<"ok", None>> /\ loop = NoLoop

Make(n, v) == /\ Idle
              /\ \/ /\ n >= 0
                    /\ seq' = [i \in 1..n |-> v]
                    /\ Returns("ok", None)
                    /\ UNCHANGED loop
                 \/ TooLong(n)
                 \/ n < 0 /\ Raises("out-of-range")

Ref(idx) == /\ Ready
            /\ \/ /\ InRange(idx)
                  /\ Returns("val", seq[Norm(idx) + 1])
                  /\ UNCHANGED <<seq, loop>>
               \/ ~InRange(idx) /\ Raises("out-of-range")

Set(idx, v) == /\ Ready
               /\ \/ /\ InRange(idx)
                     /\ seq' = [seq EXCEPT ![Norm(idx) + 1] = v]
                     /\ Returns("val", v)
                     /\ UNCHANGED loop
                  \/ ~InRange(idx) /\ Raises("out-of-range")

Push(v) == /\ Ready
           /\ \/ /\ seq' = Append(seq, v)
                 /\ Returns("ok", None)
                 /\ UNCHANGED loop
              \/ TooLong(Len(seq) + 1)

Unshift(v) == /\ Ready
              /\ \/ /\ seq' = <<v>> \o seq
                    /\ Returns("ok", None)
                    /\ UNCHANGED loop
                 \/ TooLong(Len(seq) + 1)

(* Removing position k; from an empty array array-pop and array-shift      *)
(* return #f and change nothing.                                           *)
Take(k) == /\ seq' = Without(seq, k)
           /\ Returns("val", seq[k + 1])

Pop == /\ Ready
       /\ UNCHANGED loop
       /\ \/ seq # <<>> /\ Take(Len(seq) - 1)
          \/ seq = <<>> /\ Returns("val", False) /\ UNCHANGED seq

Shift == /\ Ready
         /\ UNCHANGED loop
         /\ \/ seq # <<>> /\ Take(0)
            \/ seq = <<>> /\ Returns("val", False) /\ UNCHANGED seq

\* array-delete! asks for a nonempty array before it looks at the index
DeleteError == IF seq = <<>> THEN "wrong-type-arg" ELSE "out-of-range"

Delete(idx) == /\ Ready
               /\ \/ InRange(idx) /\ Take(Norm(idx)) /\ UNCHANGED loop
                  \/ ~InRange(idx) /\ Raises(DeleteError)

DeleteKey(v) ==
    /\ Ready
    /\ UNCHANGED loop
    /\ \/ \E i \in 1..Len(seq) : /\ seq[i] = v /\ \A j \in 1..(i - 1) : seq[j] # v
                                 /\ Take(i - 1)
       \/ /\ \A i \in 1..Len(seq) : seq[i] # v
          /\ Returns("val", False)
          /\ UNCHANGED seq

Find(v) == /\ Ready
           /\ \/ \E i \in 1..Len(seq) : /\ seq[i] = v /\ \A j \in 1..(i - 1) : seq[j] # v
                                        /\ Returns("idx", i - 1)
              \/ (\A i \in 1..Len(seq) : seq[i] # v) /\ Returns("idx", -1)
           /\ UNCHANGED <<seq, loop>>

(* array-insert! of ins before position idx > 0; an array may be inserted  *)
(* into itself.                                                            *)
InsertAt(idx, ins) ==
    /\ Ready
    /\ Norm(idx) # 0
    /\ \/ /\ InRange(idx)
          /\ \/ /\ seq' = SubSeq(seq, 1, Norm(idx)) \o ins \o SubSeq(seq, Norm(idx) + 1, Len(seq))
                /\ Returns("ok", None)
                /\ UNCHANGED loop
             \/ TooLong(Len(seq) + Len(ins))
       \/ ~InRange(idx) /\ Raises("out-of-range")

(* assoc puts a new cell where its key belongs. *)
InsertCell(i, cell) ==
    /\ Ready
    /\ i <= Len(seq)
    /\ \/ /\ seq' = SubSeq(seq, 1, i) \o <<cell>> \o SubSeq(seq, i + 1, Len(seq))
          /\ Returns("ok", None)
          /\ UNCHANGED loop
       \/ TooLong(Len(seq) + 1)

(* array-insert! at index 0 of another array, or of the array itself. *)
InsertFront(ins) == /\ Idle
                    /\ loop' = Loop("insert", Len(ins), ins)
                    /\ UNCHANGED <<seq, result>>

InsertFrontSelf == /\ Idle
                   /\ loop' = Loop("insert-self", Len(seq), <<>>)
                   /\ UNCHANGED <<seq, result>>

InsertStep ==
    /\ loop.op \in {"insert", "insert-self"}
    /\ loop.i > 0
    /\ \/ /\ seq' = <<IF loop.op = "insert" THEN loop.vals[loop.i] ELSE seq[loop.i]>> \o seq
          /\ loop' = [loop EXCEPT !.i = @ - 1]
          /\ UNCHANGED result
       \/ /\ Len(seq) + 1 >= Capacity
          /\ Returns("too-long", None)
          /\ loop' = NoLoop
          /\ UNCHANGED seq

InsertDone == /\ loop.op \in {"insert", "insert-self"}
              /\ loop.i = 0
              /\ Returns("ok", None)
              /\ loop' = NoLoop
              /\ UNCHANGED seq

(* array-reject!: an array of fewer than two elements is returned as it    *)
(* is.  loop.i is the position the loop has reached.                       *)
RejectStart == /\ Idle
               /\ \/ Len(seq) < 2 /\ Returns("ok", None) /\ UNCHANGED <<seq, loop>>
                  \/ /\ Len(seq) >= 2
                     /\ loop' = Loop("reject", 0, <<>>)
                     /\ UNCHANGED <<seq, result>>

RejectCall == /\ loop.op = "reject"
              /\ loop.i < Len(seq)
              /\ loop' = [loop EXCEPT !.op = "callback"]
              /\ UNCHANGED <<seq, result>>

RejectKeep == /\ loop.op = "callback"
              /\ loop' = Loop("reject", loop.i + 1, <<>>)
              /\ UNCHANGED <<seq, result>>

RejectDelete == /\ loop.op = "callback"
                /\ \/ /\ loop.i < Len(seq)
                      /\ seq' = Without(seq, loop.i)
                      /\ loop' = Loop("reject", loop.i, <<>>)
                      /\ UNCHANGED result
                   \/ /\ loop.i >= Len(seq)
                      /\ Returns(DeleteError, None)
                      /\ loop' = NoLoop
                      /\ UNCHANGED seq

RejectDone == /\ loop.op = "reject"
              /\ loop.i >= Len(seq)
              /\ Returns("ok", None)
              /\ loop' = NoLoop
              /\ UNCHANGED seq

(* Words that rewrite the whole array; they work on a copy first, and      *)
(* making it may fail.                                                     *)
Rewrite(s) == /\ Ready
              /\ \/ seq' = s /\ Returns("ok", None) /\ UNCHANGED loop
                 \/ TooLong(Len(seq))

Reverse == Rewrite([i \in 1..Len(seq) |-> seq[Len(seq) + 1 - i]])
Compact == Rewrite(SelectSeq(seq, LAMBDA v : v # Nil))
Uniq    == Rewrite(FirstOnes(seq))
Copy    == Idle /\ Rewrite(seq)

Fill(v) == /\ Ready
           /\ seq' = [i \in 1..Len(seq) |-> v]
           /\ Returns("ok", None)
           /\ UNCHANGED loop

Clear == Fill(False)

(* array-subarray: from start up to but excluding end; a negative end      *)
(* counts from backward, and one out of range means the end of the array.  *)
SubEnd(start, end) ==
    LET e == IF end < 0 THEN end + Len(seq) + 1 ELSE end
    IN  IF e < start \/ e > Len(seq) THEN Len(seq) ELSE e
\* The array becomes its part s.  One that leaves out two elements or more may
\* be the end.
Part(s) == \/ /\ seq' = s
              /\ \/ Returns("ok", None)
                 \/ Len(seq) - Len(s) >= 2 /\ Returns("overrun", None)
              /\ UNCHANGED loop
           \/ TooLong(Len(s))
Subarray(start, end) ==
    Idle /\ IF InRange(start) THEN Part(SubSeq(seq, Norm(start) + 1, SubEnd(Norm(start), end)))
            ELSE Raises("out-of-range")

Next ==
    \/ \E n \in -1..MaxLen, v \in Val : Make(n, v)
    \/ \E idx \in Index : Ref(idx) \/ Delete(idx) \/ \E v \in Val : Set(idx, v)
    \/ \E v \in Val : Push(v) \/ Unshift(v) \/ DeleteKey(v) \/ Find(v) \/ Fill(v)
    \/ Pop \/ Shift
    \/ \E idx \in Index, ins \in Inserted \cup {seq} : InsertAt(idx, ins)
    \/ \E i \in 0..MaxLen, v \in Val : InsertCell(i, v)
    \/ \E start, end \in Index : Subarray(start, end)
    \/ \E ins \in Inserted : InsertFront(ins)
    \/ InsertFrontSelf \/ InsertStep \/ InsertDone
    \/ RejectStart \/ RejectCall \/ RejectKeep \/ RejectDelete \/ RejectDone
    \/ Reverse \/ Compact \/ Uniq \/ Copy \/ Clear

-----------------------------------------------------------------------------
(* Lists.  A word that makes a new list leaves the program with that one. *)

\* The word raises, having changed the list to s.
RaisesWith(kind, s) == result' = <<kind, None>> /\ loop' \in {loop, NoLoop} /\ seq' = s

Gives(s) == seq' = s /\ Returns("ok", None) /\ UNCHANGED loop
New(s) == Idle /\ (Gives(s) \/ TooLong(Len(s)))
Answers(v) == Returns("val", v) /\ UNCHANGED <<seq, loop>>
Remove(v) == SelectSeq(seq, LAMBDA w : w # v)
NilFree(s) == SelectSeq(s, LAMBDA w : w # Nil)
\* Without cnt elements from k on; a negative cnt takes none.
Slice(k, cnt) == IF cnt <= 0 THEN seq ELSE SubSeq(seq, 1, k) \o SubSeq(seq, k + cnt + 1, Len(seq))

Car(k) == Idle /\ Answers(IF Len(seq) > k THEN seq[k + 1] ELSE Nil)
Cdr(k) == Idle /\ IF Len(seq) > k THEN Part(SubSeq(seq, k + 1, Len(seq))) ELSE Answers(Nil)
\* cons puts the value into the list it is given; cons2 does so twice, and may fail in between.
Cons2(v, w) ==
    /\ Idle
    /\ \/ Gives(<<v, w>> \o seq)
       \/ TooLong(Len(seq) + 1)
       \/ Len(seq) + 2 >= Capacity /\ RaisesWith("too-long", <<w>> \o seq)
SetCar(v) == Idle /\ IF seq = <<>> THEN Answers(Nil) ELSE Gives([seq EXCEPT ![1] = v])
\* The list has two elements left; what set-cdr! gives is another list, without nil.
SetCdr(v) ==
    /\ Idle
    /\ IF seq = <<>> THEN Raises("out-of-range")
       ELSE Gives(<<seq[1], v>>) \/ Gives(NilFree(<<seq[1], v>>)) \/ (Len(seq) = 1 /\ TooLong(2))
ListAppend(ins) == New(seq \o ins)
ListReverse == New([i \in 1..Len(seq) |-> seq[Len(seq) + 1 - i]])
ListInsert(idx, ins) ==
    /\ Idle
    /\ \/ /\ Norm(idx) = 0 \/ InRange(idx)
          /\ New(SubSeq(seq, 1, Norm(idx)) \o ins \o SubSeq(seq, Norm(idx) + 1, Len(seq)))
       \/ Norm(idx) # 0 /\ ~InRange(idx) /\ Raises("out-of-range")
       \/ TooLong(Len(seq))
ListDelete(v) == New(Remove(v))
\* list-delete! goes on to the length the list once had, and may raise there.
ListDeleteBang(v) ==
    /\ Idle
    /\ \/ Gives(Remove(v))
       \/ /\ Remove(v) # seq
          /\ RaisesWith(IF Remove(v) = <<>> THEN "wrong-type-arg" ELSE "out-of-range", Remove(v))
ListSlice(idx, cnt) == Idle /\ IF InRange(idx) THEN New(Slice(Norm(idx), cnt)) ELSE Raises("out-of-range")
ListSliceBang(idx, cnt) == Idle /\ IF InRange(idx) THEN Gives(Slice(Norm(idx), cnt)) ELSE Raises("out-of-range")
ListHead(n) == Idle /\ IF seq = <<>> THEN Raises("out-of-range") ELSE Part(SubSeq(seq, 1, SubEnd(0, n)))
\* list-tail of a place that is not there is the list.
ListTail(n) == IF n \in 0..Len(seq) THEN New(SubSeq(seq, n + 1, Len(seq))) ELSE Idle /\ Gives(seq)
LastPair == IF seq = <<>> THEN Idle /\ Answers(Nil) ELSE New(<<seq[Len(seq)]>>)

ListNext ==
    \/ \E k \in 0..3 : Car(k)
    \/ \E k \in 1..2 : Cdr(k)
    \/ \E v, w \in Val : Cons2(v, w)
    \/ \E v \in Val : SetCar(v) \/ SetCdr(v) \/ ListDelete(v) \/ ListDeleteBang(v)
    \/ \E ins \in Inserted : ListAppend(ins) \/ \E idx \in Index : ListInsert(idx, ins)
    \/ \E idx \in Index, cnt \in 1..2 : ListSlice(idx, cnt) \/ ListSliceBang(idx, cnt)
    \/ \E n \in Index : ListHead(n) \/ ListTail(n)
    \/ ListReverse \/ LastPair

Spec == Init /\ [][Next \/ ListNext]_vars
=============================================================================
