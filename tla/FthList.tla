------------------------------ MODULE FthList ------------------------------
(***************************************************************************)
(* Lists (src/src/array.c, list-ref and its kin): an array with a flag.   *)
(* A word that makes a new list pushes, copies or unshifts its elements   *)
(* into a fresh array; the program goes on with that one.  The words on   *)
(* lists run between the loops of FthArray, not from their callbacks.     *)
(***************************************************************************)
EXTENDS FthArray

S == INSTANCE SequencesExt

\* A list that is made, and whether it could be.
Made(a, ok) == [a |-> a, ok |-> ok]
List(s) == Made(make_array(s), ~MakeTooLong(Len(s)))
Each(op(_, _), need(_), start, s) ==
    LET one(r, v) == IF r.ok /\ ~TooLong(r.a, need(r.a)) THEN Made(op(r.a, v), TRUE) ELSE Made(r.a, FALSE)
        done[n \in 0..Len(s)] == IF n = 0 THEN start ELSE one(done[n - 1], s[n])
    IN  done[Len(s)]
Pushes(s) == Each(fth_array_push, PushNeed, List(<<>>), s)
Unshifts(r, s) == Each(fth_array_unshift, UnshiftNeed, r, S!Reverse(s))

\* Raises, with the list as it is by then.
RaisesWith(kind, a) == result' = <<kind, None>> /\ loop' \in {loop, NoLoop} /\ ary' = a
Gives(a) == ary' = a /\ Returns("ok", None) /\ UNCHANGED loop
New(r) == Idle /\ IF r.ok THEN Gives(r.a) ELSE Raises("too-long")
Answers(v) == Returns("val", v) /\ UNCHANGED <<ary, loop>>
At(k) == Rd(ary.buf, ary.top + k)
From(k) == SubSeq(Contents(ary), k + 1, ary.length)

-----------------------------------------------------------------------------
\* car, cadr, caddr and cadddr; cdr and cddr.
Car(k) == Idle /\ Answers(IF ary.length > k THEN At(k) ELSE Nil)
Cdr(k) == Idle /\ IF ary.length > k THEN Part(k, -1) ELSE Answers(Nil)

\* cons is fth_array_unshift (Unshift), cons2 two of them.
Cons2(v, w) ==
    /\ Idle
    /\ LET one == Unshifts(Made(ary, TRUE), <<w>>)
           two == Unshifts(one, <<v>>)
       IN  IF two.ok THEN Gives(two.a) ELSE RaisesWith("too-long", two.a)
SetCar(v) ==
    Idle /\ IF ary.length > 0 THEN Gives([ary EXCEPT !.buf = Store(@, ary.top, <<v>>)]) ELSE Answers(Nil)
\* The list with its length cut to two; or the list set-cdr! gives, appended from the pair.
TwoLeft(v) == Settle([ary EXCEPT !.buf = Store(@, ary.top + 1, <<v>>), !.length = 2])
SetCdr(v) ==
    /\ Idle
    /\ CASE ary.length = 0 -> Raises("out-of-range")
         [] ary.length = 1 /\ TooLong(ary, PushNeed(ary)) -> Raises("too-long")
         [] OTHER -> \/ Gives(IF ary.length = 1 THEN fth_array_push(ary, v) ELSE TwoLeft(v))
                     \/ New(Pushes(EachKept(<<At(0), v>>, NotNil)))

fth_array_append(a, ins) == List(Contents(a) \o ins)
ListAppend(ins) == New(fth_array_append(ary, ins))
ListReverse == New(List(S!Reverse(Contents(ary))))
\* fth_array_insert into a copy.
ListInsert(idx, ins) ==
    LET copy == List(Contents(ary))
        need == InsertNeed(copy.a, Len(ins))
    IN  CASE ~copy.ok -> Idle /\ Raises("too-long")
          [] copy.ok /\ Norm(idx) = 0 -> New(Unshifts(copy, ins))
          [] copy.ok /\ Norm(idx) # 0 /\ InRange(idx) ->
                IF TooLong(copy.a, need) THEN Idle /\ Raises("too-long")
                ELSE New(Made(fth_array_insert(copy.a, Norm(idx), ins), TRUE))
          [] OTHER -> Idle /\ Raises("out-of-range")

ListDelete(v) == New(Pushes(EachKept(Contents(ary), LAMBDA kept, w : w # v)))
\* The loop of list-delete! has the length from before: behind the last element it looks at cells
\* that have been left, and a cell without data may hold anything (eq).
Equal(c, v, eq) == c = v \/ (c = Junk /\ eq)
DeleteLoop(v, eq) ==
    LET one(x) ==
            IF ~x.ok \/ x.i >= ary.length THEN x
            ELSE IF ~Equal(Rd(x.a.buf, x.a.top + x.i), v, eq) THEN [x EXCEPT !.i = @ + 1]
            ELSE IF x.i >= x.a.length THEN [x EXCEPT !.ok = FALSE]
            ELSE [x EXCEPT !.a = DeleteCells(x.a, x.i)]
        done[n \in 0..(2 * ary.length)] ==
            IF n = 0 THEN [a |-> ary, i |-> 0, ok |-> TRUE] ELSE one(done[n - 1])
    IN  done[2 * ary.length]
ListDeleteBang(v) == \E eq \in BOOLEAN : Idle /\
    LET r == DeleteLoop(v, eq)
    IN  IF r.ok THEN Gives(Settle(r.a))
        ELSE RaisesWith(IF r.a.length = 0 THEN "wrong-type-arg" ELSE "out-of-range", Settle(r.a))

Outside(idx, cnt) ==
    LET at == EachKept([i \in 1..ary.length |-> i - 1],
                       LAMBDA kept, i : i < Norm(idx) \/ i >= Norm(idx) + cnt)
    IN  [n \in 1..Len(at) |-> At(at[n])]
ListSlice(idx, cnt) == IF InRange(idx) THEN New(Pushes(Outside(idx, cnt))) ELSE Idle /\ Raises("out-of-range")
ListSliceBang(idx, cnt) ==
    Idle /\ IF InRange(idx) THEN Gives(Overwrite(ary, Outside(idx, cnt))) ELSE Raises("out-of-range")

ListHead(n) == Idle /\ IF InRange(0) THEN Part(0, n) ELSE Raises("out-of-range")
ListTail(n) == IF n >= 0 /\ ary.length >= n THEN New(List(From(n))) ELSE Idle /\ Gives(ary)
LastPair == IF ary.length > 0 THEN New(List(<<At(ary.length - 1)>>)) ELSE Idle /\ Answers(Nil)

ListNext ==
    \/ \E k \in 0..3 : Car(k)
    \/ \E k \in 1..2 : Cdr(k)
    \/ \E v, w \in Val : Cons2(v, w)
    \/ \E v \in Val : SetCar(v) \/ SetCdr(v) \/ ListDelete(v) \/ ListDeleteBang(v)
    \/ \E ins \in Inserted : ListAppend(ins) \/ \E idx \in Index : ListInsert(idx, ins)
    \/ \E idx \in Index, cnt \in 1..2 : ListSlice(idx, cnt) \/ ListSliceBang(idx, cnt)
    \/ \E n \in Index : ListHead(n) \/ ListTail(n)
    \/ ListReverse \/ LastPair

Spec == Init /\ [][Next \/ ListNext]_vars

-----------------------------------------------------------------------------
\* The cells left before the data by array-shift never come to more than half
\* of the largest buffer: an array fails to grow only when its elements
\* would fill the other half.
Capacity == MAX_SEQ_LENGTH \div 2

Abstract == INSTANCE FthSeq WITH seq <- Contents(ary)

(* An array or a list behaves as a sequence: every word returns the value  *)
(* and leaves the elements that FthSeq says, no unset cell                  *)
(* ever shows, an error changes nothing (but in cons2 and list-delete!,    *)
(* which may raise when they have done part or all of their work), and     *)
(* growing fails only on arrays whose length reaches Capacity.             *)
RefinesSeq == Abstract!Spec
=============================================================================
