------------------------------ MODULE FthString -----------------------------
(***************************************************************************)
(* Fth strings (src/string.c): the gap buffer of FthBuffer with chars for  *)
(* cells and a NUL behind the data.  Half of the words work on `length'    *)
(* chars and the other half on the C string that begins at `data', that is *)
(* up to the first NUL; the two agree only while the NUL is there.         *)
(*                                                                         *)
(* Operators named fth_string_* are the C functions on an FString; the     *)
(* actions apply them to the one string `str'.  Words that build a new     *)
(* string, like string-upcase beside string-upcase!, leave it in `answer'. *)
(*                                                                         *)
(* Two words may write outside of the block: nothing is known of the       *)
(* program from then on, and the behaviour ends (Overrun).                 *)
(***************************************************************************)
EXTENDS FthBuffer, FiniteSetsExt

CONSTANTS
    Char, NL, ToUpper, ToLower, \* chars are numbers; toupper(3) and tolower(3)
    Nul,                        \* '\0'
    None,                       \* no answer, and no value in an answer
    Index, Length,              \* indices and lengths passed by callers
    Added                       \* strings passed by callers

ASSUME StringAssumption ==
    /\ DEFAULT_SEQ_LENGTH \in Nat /\ DEFAULT_SEQ_LENGTH >= 3
    /\ MAX_SEQ_LENGTH % DEFAULT_SEQ_LENGTH = 0
    /\ NL \in Char /\ Char \subseteq Nat
    /\ Nul \notin Char /\ Junk \notin Char \cup {Nul}
    /\ ToUpper \in [Char -> Char] /\ ToLower \in [Char -> Char]
    /\ Index \cup Length \subseteq Int /\ Added \subseteq Seq(Char)

VARIABLES str, answer
vars == <<str, answer>>

Cell == Char \cup {Nul, Junk}

-----------------------------------------------------------------------------
(* The functions of string.c on an FString. *)

Terminator(s) == Rd(s.buf, s.top + s.length)
Terminate(s) == [s EXCEPT !.buf = Store(@, s.top + s.length, <<Nul>>)]
\* Forgets the cells outside the data and the NUL.
Settle(s) == [s EXCEPT !.buf = Keep(@, s.top, s.length + 1)]

\* The room asked for is not tested, only the length (make_string_len).
MakeTop(n) == NewSeqLength(n + 1) \div 3
MakeBufLength(n) == NewSeqLength(n + 1 + MakeTop(n))
MakeFails(n) == n < 0 \/ n > MAX_SEQ_LENGTH
fth_make_string(t) ==
    LET n == Len(t)
    IN  Settle([length |-> n, buf_length |-> MakeBufLength(n), top |-> MakeTop(n),
                buf |-> Store([j \in 0..(MakeBufLength(n) - 1) |-> Nul], MakeTop(n), t)])
\* At most n chars of the C string t.
fth_make_string_len(t, n) == fth_make_string(SubSeq(t, 1, IF n < Len(t) THEN n ELSE Len(t)))

\* A push that has no cell for the NUL.
PushNeedNoNul(s, n) == s.top + s.length + n
PushNeed(s, n) == s.top + s.length + n + 1
fth_string_push(s, t) ==
    LET g == Grow(s, PushNeed(s, Len(t)))
    IN  IF t = <<>> THEN s
        ELSE Settle(Terminate([g EXCEPT !.buf = Store(@, s.top + s.length, t),
                                        !.length = s.length + Len(t)]))

fth_string_pop(s) ==
    Settle(Shrink(Terminate([s EXCEPT !.length = @ - 1]), s.top + s.length))

Recentre(s, n) == s.top - n < 1
UnshiftTop(s, n) == IF Recentre(s, n) THEN s.buf_length \div 3 ELSE s.top - n
UnshiftNeed(s, n) == UnshiftTop(s, n) + s.length + n + 1
\* The data have moved behind the place of the n chars to come.
UnshiftMoved(s, n) ==
    LET g == Grow(s, UnshiftNeed(s, n))
    IN  IF Recentre(s, n)
        THEN [g EXCEPT !.buf = MemMove(@, UnshiftTop(s, n) + n, s.top, s.length)]
        ELSE g
Unshifted(s, t) ==
    LET m == UnshiftMoved(s, Len(t))
    IN  Settle(Terminate([m EXCEPT !.top = UnshiftTop(s, Len(t)), !.length = s.length + Len(t),
                                   !.buf = Store(@, UnshiftTop(s, Len(t)), t)]))
fth_string_unshift(s, t) == IF t = <<>> THEN s ELSE Unshifted(s, t)
\* A string before itself: its chars are read from the old place, after the move.
UnshiftSelf(s) ==
    LET m == UnshiftMoved(s, s.length)
    IN  IF s.length = 0 THEN s ELSE Unshifted(s, [i \in 1..s.length |-> Rd(m.buf, s.top + i - 1)])

ShiftMoves(s) == s.top + 1 > s.buf_length \div 2
ShiftTop(s) == IF ShiftMoves(s) THEN s.buf_length \div 3 ELSE s.top
\* The move takes `length' chars along, and not the NUL behind them.
ShiftBuf(s) == IF ShiftMoves(s) THEN MemMove(s.buf, ShiftTop(s), s.top, s.length) ELSE s.buf
fth_string_shift(s) ==
    Settle(Shrink([s EXCEPT !.buf = ShiftBuf(s), !.top = ShiftTop(s) + 1, !.length = @ - 1],
                  ShiftTop(s) + s.length))

\* Neither at the first place nor with nothing to insert.
InsertMiddle(s, idx, t) ==
    LET g == Grow(s, PushNeed(s, Len(t)))
        opened == MemMove(g.buf, s.top + idx + Len(t), s.top + idx, s.length - idx)
    IN  Settle(Terminate([g EXCEPT !.buf = Store(opened, s.top + idx, t),
                                   !.length = s.length + Len(t)]))
fth_string_insert(s, idx, t) ==
    IF idx = 0 THEN fth_string_unshift(s, t)
    ELSE IF t = <<>> THEN s ELSE InsertMiddle(s, idx, t)
InsertNeed(s, idx, n) == IF idx = 0 THEN UnshiftNeed(s, n) ELSE PushNeed(s, n)

\* A deletion that moves one char too few.
DeleteCountShort(s, idx) == s.length - 2 - idx
DeleteCount(s, idx) == s.length - 1 - idx
DeleteMiddle(s, idx) ==
    LET d == Shrink([s EXCEPT !.length = @ - 1], s.top + s.length)
    IN  Settle(Terminate([d EXCEPT !.buf = MemMove(@, d.top + idx, d.top + idx + 1,
                                                   DeleteCount(s, idx))]))
fth_string_delete(s, idx) ==
    IF idx = 0 THEN fth_string_shift(s)
    ELSE IF idx = s.length - 1 THEN fth_string_pop(s) ELSE DeleteMiddle(s, idx)

\* The n-th char of the data, from 0, becomes f(n, char) for every n.
EachChar(s, f(_, _)) ==
    [s EXCEPT !.buf = [j \in DOMAIN s.buf |->
        IF s.top <= j /\ j < s.top + s.length THEN f(j - s.top, s.buf[j]) ELSE s.buf[j]]]
Case(fn, c) == IF c \in Char THEN fn[c] ELSE c
fth_string_upcase(s) == LET up(n, c) == Case(ToUpper, c) IN EachChar(s, up)
fth_string_downcase(s) == LET down(n, c) == Case(ToLower, c) IN EachChar(s, down)
fth_string_capitalize(s) ==
    LET cap(n, c) == IF n = 0 THEN Case(ToUpper, c) ELSE Case(ToLower, c) IN EachChar(s, cap)
fth_string_fill(s, ch) == LET fill(n, c) == ch IN EachChar(s, fill)
\* With no data the char before them is looked at, and pop has nothing to take.
fth_string_chomp(s) ==
    IF s.length > 0 /\ Rd(s.buf, s.top + s.length - 1) = NL THEN fth_string_pop(s) ELSE s
\* A string about whose chars nothing is known.
Unknown(s) == [s EXCEPT !.buf = [j \in DOMAIN @ |-> Junk]]

-----------------------------------------------------------------------------
(* The C library on C strings: strcmp(3), strstr(3), strsep(3). *)

strcmp(s, t) ==
    LET differ == {i \in 1..(IF Len(s) < Len(t) THEN Len(s) ELSE Len(t)) : s[i] # t[i]}
        first == CHOOSE i \in differ : \A j \in differ : i <= j
    IN  IF differ # {} THEN IF s[first] < t[first] THEN -1 ELSE 1
        ELSE IF Len(s) < Len(t) THEN -1 ELSE IF Len(s) > Len(t) THEN 1 ELSE 0

\* The first place of k in t from the place `from' on, counted from 0; or -1.
strstr(t, k, from) ==
    LET at == {i \in from..(Len(t) - Len(k)) : SubSeq(t, i + 1, i + Len(k)) = k}
    IN  IF at = {} THEN -1 ELSE CHOOSE i \in at : \A j \in at : i <= j

\* The loop over strsep: a field ends at each char of delim and at the end, and
\* the empty ones are dropped.
Fields(t, delim) ==
    LET loop[n \in 0..Len(t)] ==
            IF n = 0 THEN [done |-> <<>>, p |-> <<>>]
            ELSE LET l == loop[n - 1]
                 IN  IF \E i \in DOMAIN delim : delim[i] = t[n]
                     THEN [done |-> IF l.p # <<>> THEN Append(l.done, l.p) ELSE l.done, p |-> <<>>]
                     ELSE [l EXCEPT !.p = Append(@, t[n])]
        last == loop[Len(t)]
    IN  IF last.p # <<>> THEN Append(last.done, last.p) ELSE last.done

-----------------------------------------------------------------------------
(* fth_string_replace, after its case of one char for one char.  Each turn  *)
(* looks for `from' behind what the last one put in, closes the gap, makes  *)
(* room and copies `to'.  b and tmp are pointers into the old buffer, so    *)
(* once a realloc has moved it the freed block is written (moved).          *)

ReplaceTurn(r, from, to, moves) ==
    LET i == strstr(Contents(r.s), from, r.tmp)
        cut == [r.s EXCEPT !.length = @ - Len(from),
                           !.buf = MemMove(@, r.s.top + i, r.s.top + i + Len(from),
                                           r.s.length - Len(from) - i)]
        l == NewSeqLength(PushNeed(cut, Len(to)))
        g == IF l > cut.buf_length THEN Resize(cut, l) ELSE cut
        put == [g EXCEPT !.length = @ + Len(to),
                         !.buf = Store(MemMove(@, g.top + i + Len(to), g.top + i, g.length - i),
                                       g.top + i, to)]
    IN  IF i < 0 \/ r.fails THEN r
        ELSE IF to = <<>> THEN [r EXCEPT !.s = Settle(Terminate(cut)), !.tmp = i]
        ELSE IF l > MAX_SEQ_LENGTH THEN [r EXCEPT !.s = Settle(cut), !.fails = TRUE]
        ELSE [s |-> Settle(Terminate(put)), tmp |-> i + Len(to), fails |-> FALSE,
              moved |-> r.moved \/ (moves /\ l > cut.buf_length)]
\* There are no more occurrences than chars.
Replacement(s, from, to, moves) ==
    LET turn[n \in 0..s.length] ==
            IF n = 0 THEN [s |-> s, tmp |-> 0, fails |-> FALSE, moved |-> FALSE]
            ELSE ReplaceTurn(turn[n - 1], from, to, moves)
    IN  turn[s.length]
OneForOne(s, f, t) == LET one(n, c) == IF c = f THEN t ELSE c IN EachChar(s, one)

-----------------------------------------------------------------------------
(* Answers and errors. *)

Ready == answer = None
Overrun == answer # None /\ answer[1] = "overrun"
Answers(kind, v) == answer' = <<kind, v>>
Same == UNCHANGED str
Fails == Answers("error", None) /\ Same

\* What a function that takes the C string of s finds: without its NUL it reads
\* on, into whatever lies behind (Stray), and of a NUL we know nothing of
\* it may or may not be there.
Stray == Junk
Known(s) == \A i \in 1..s.length : Contents(s)[i] # Junk
CString(s) ==
    (IF Known(s) /\ Terminator(s) \in {Nul, Junk} THEN {Contents(s)} ELSE {})
        \cup (IF Known(s) /\ Terminator(s) = Nul THEN {} ELSE {Stray})

\* A word that computes F of the C string.
OfCString(kind, F(_)) ==
    /\ Ready /\ Same
    /\ \E c \in CString(str) : IF c = Stray THEN Answers("stray", None) ELSE Answers(kind, F(c))
\* A word that changes the string and answers with it, or fails for lack of room.
Changes(need, s) ==
    IF TooLong(str, need) THEN Fails ELSE str' = s /\ Answers("ok", None)

Norm(idx) == IF idx < 0 THEN idx + str.length ELSE idx
InRange(idx) == 0 <= Norm(idx) /\ Norm(idx) < str.length

-----------------------------------------------------------------------------
Init == str = fth_make_string(<<>>) /\ answer = None

\* The program takes the answer from the stack.
Take == answer # None /\ ~Overrun /\ answer' = None /\ Same
Lost == Overrun /\ UNCHANGED vars

Make(n, c) ==
    /\ Ready
    /\ IF MakeFails(n) THEN Fails
       ELSE str' = fth_make_string([i \in 1..n |-> c]) /\ Answers("ok", None)
\* >string and string-concat of two values: the last one is popped and put in first
ValuesToString(s, t) ==
    LET last == fth_string_unshift(fth_make_string(<<>>), t)
    IN  /\ Ready
        /\ IF s # <<>> /\ TooLong(last, UnshiftNeed(last, Len(s))) THEN Fails
           ELSE str' = fth_string_unshift(last, s) /\ Answers("ok", None)
ForthStringToString(t, n) ==
    Ready /\ n >= 0 /\ str' = fth_make_string_len(t, n) /\ Answers("ok", None)

StringLength == Ready /\ Same /\ Answers("length", str.length)
ToArray == Ready /\ Same /\ Answers("array", Contents(str))
Ref(idx) ==
    /\ Ready
    /\ IF InRange(idx) THEN Same /\ Answers("char", Rd(str.buf, str.top + Norm(idx))) ELSE Fails
Set(idx, c) ==
    /\ Ready
    /\ IF InRange(idx)
       THEN str' = [str EXCEPT !.buf = Store(@, str.top + Norm(idx), <<c>>)] /\ Answers("ok", None)
       ELSE Fails

Push(t) == Ready /\ Changes(IF t = <<>> THEN 0 ELSE PushNeed(str, Len(t)), fth_string_push(str, t))
\* Behind itself: the chars are read from the new place, where they are whole.
PushSelf == Push(Contents(str))
Pop ==
    /\ Ready
    /\ IF str.length = 0 THEN Same /\ Answers("char", None)
       ELSE str' = fth_string_pop(str) /\ Answers("char", Rd(str.buf, str.top + str.length - 1))
Unshift(t) ==
    Ready /\ Changes(IF t = <<>> THEN 0 ELSE UnshiftNeed(str, Len(t)), fth_string_unshift(str, t))
UnshiftItself ==
    Ready /\ Changes(IF str.length = 0 THEN 0 ELSE UnshiftNeed(str, str.length), UnshiftSelf(str))
Shift ==
    /\ Ready
    /\ IF str.length = 0 THEN Same /\ Answers("char", None)
       ELSE str' = fth_string_shift(str) /\ Answers("char", Rd(str.buf, str.top))
Insert(idx, t) ==
    /\ Ready
    /\ IF InRange(idx) \/ Norm(idx) = 0
       THEN Changes(IF t = <<>> THEN 0 ELSE InsertNeed(str, Norm(idx), Len(t)),
                    fth_string_insert(str, Norm(idx), t))
       ELSE Fails
Delete(idx) ==
    /\ Ready
    /\ IF str.length = 0 THEN Same /\ Answers("char", None)
       ELSE IF InRange(idx)
       THEN /\ str' = fth_string_delete(str, Norm(idx))
            /\ Answers("char", Rd(str.buf, str.top + Norm(idx)))
       ELSE Fails

\* string-fill, string-upcase!, string-downcase!, string-capitalize!, string-chomp!
InPlace(s) == Ready /\ str' = s /\ Answers("ok", None)
Fill(c) == InPlace(fth_string_fill(str, c))
Upcase == InPlace(fth_string_upcase(str))
Downcase == InPlace(fth_string_downcase(str))
Capitalize == InPlace(fth_string_capitalize(str))
Chomp == InPlace(fth_string_chomp(str))
\* ficlStringReverse swaps the chars of the C string, whatever its length, and so
\* those behind the block when no NUL is in it.
ReverseBang ==
    /\ Ready
    /\ \E c \in CString(str) :
        IF c = Stray THEN str' = Unknown(str) /\ \E kind \in {"ok", "overrun"} : Answers(kind, None)
        ELSE LET rev(n, ch) == c[str.length - n]
             IN  str' = EachChar(str, rev) /\ Answers("ok", None)

\* Words on C strings.  string-copy, and with it the words that work on a copy,
\* string-append, string->$ and string-eval take all of it.
CopyString == LET id(c) == c IN OfCString("copy", id)
StringAppend(t) == LET app(c) == c \o t IN OfCString("append", app)
StringCmp(t) == LET cmp(c) == strcmp(c, t) IN OfCString("cmp", cmp)
StringEqual(t) == LET eq(c) == strcmp(c, t) = 0 IN OfCString("equal", eq)
StringNotEqual(t) == LET ne(c) == strcmp(c, t) # 0 IN OfCString("not-equal", ne)
StringLess(t) == LET lt(c) == strcmp(c, t) < 0 IN OfCString("less", lt)
StringGreater(t) == LET gt(c) == strcmp(c, t) > 0 IN OfCString("greater", gt)
\* object-equal? looks at the lengths first.
ObjectEqual(t) ==
    IF str.length # Len(t) \/ str.length = 0
    THEN Ready /\ Same /\ Answers("equal", str.length = Len(t))
    ELSE StringEqual(t)
StringIndex(k) == LET ix(c) == strstr(c, k, 0) IN OfCString("index", ix)
StringMember(k) == LET member(c) == strstr(c, k, 0) >= 0 IN OfCString("member", member)
StringFind(k) ==
    LET find(c) == IF strstr(c, k, 0) < 0 THEN None ELSE SubSeq(c, strstr(c, k, 0) + 1, Len(c))
    IN  OfCString("find", find)
StringSplit(delim) ==
    LET split(c) == Fields(c, delim)
    IN  IF str.length = 0 THEN Ready /\ Same /\ Answers("split", <<<<>>>>) ELSE OfCString("split", split)
\* The length of the C string matters only if it is less than the string's.
Substring(start, end) ==
    /\ Ready
    /\ LET e == Norm(end)
           stop == IF e < Norm(start) \/ e > str.length THEN str.length ELSE e
       IN  IF InRange(start)
           THEN Same /\ Answers("substring", SubSeq(Contents(str), Norm(start) + 1, stop))
           ELSE Fails

\* An empty `from' is found everywhere and the loop does not come to its end.
Replace(from, to) ==
    /\ Ready
    /\ from # <<>>
    /\ \/ str.length = 0 /\ Same /\ Answers("ok", None)
       \/ /\ str.length > 0 /\ Len(from) = 1 /\ Len(to) = 1
          /\ str' = OneForOne(str, from[1], to[1])
          /\ Answers("ok", None)
       \/ /\ str.length > 0 /\ ~(Len(from) = 1 /\ Len(to) = 1)
          /\ \E c \in CString(str), moves \in BOOLEAN :
                LET r == Replacement(str, from, to, moves)
                IN  IF c = Stray
                    THEN str' = Unknown(str) /\ \E kind \in {"stray", "overrun"} : Answers(kind, None)
                    ELSE /\ str' = IF r.moved THEN Unknown(r.s) ELSE r.s
                         /\ Answers(IF r.moved THEN "overrun" ELSE IF r.fails THEN "error" ELSE "ok",
                                    None)

Next ==
    \/ Take \/ Lost
    \/ \E n \in Length : (\E c \in Char : Make(n, c)) \/ \E t \in Added : ForthStringToString(t, n)
    \/ \E s, t \in Added :
          ValuesToString(s, t) \/ Replace(s, t)
    \/ StringLength \/ ToArray \/ Pop \/ Shift \/ PushSelf \/ UnshiftItself
    \/ Upcase \/ Downcase \/ Capitalize \/ Chomp \/ ReverseBang \/ CopyString
    \/ \E c \in Char : Fill(c)
    \/ \E i \in Index :
          \/ Ref(i) \/ Delete(i)
          \/ \E c \in Char : Set(i, c)
          \/ \E t \in Added : Insert(i, t)
          \/ \E j \in Index : Substring(i, j)
    \/ \E t \in Added :
          \/ Push(t) \/ Unshift(t) \/ StringAppend(t) \/ StringCmp(t) \/ StringEqual(t)
          \/ StringNotEqual(t) \/ StringLess(t) \/ StringGreater(t) \/ ObjectEqual(t)
          \/ StringMember(t) \/ StringIndex(t) \/ StringFind(t) \/ StringSplit(t)

Spec == Init /\ [][Next]_vars

-----------------------------------------------------------------------------
Kinds == {"ok", "error", "stray", "overrun", "length", "array", "char", "copy", "append", "cmp", "equal",
          "not-equal", "less", "greater", "index", "member", "find", "split", "substring"}
TypeOK == /\ str.length \in Nat /\ str.buf_length \in Nat /\ str.top \in Int
          /\ str.buf \in [0..(str.buf_length - 1) -> Cell]
          /\ answer = None \/ answer[1] \in Kinds

(* The chars and the NUL behind them lie inside the buffer, and a cell is   *)
(* left before them, which fth_string_chomp looks at when the string is    *)
(* empty: whatever sequence of growing, moving and shrinking words.  No    *)
(* word writes outside of the block, but string-reverse! and               *)
(* string-replace! once the NUL is gone, and a string-replace! whose       *)
(* buffer realloc moves, which end with Overrun.                           *)
TextInBuffer == /\ TypeOK
                /\ str.top >= 1
                /\ str.top + str.length + 1 <= str.buf_length

\* make-string may make buffers beyond MAX_SEQ_LENGTH.  The data begin in the first
\* half of the buffer, so growing fails only on strings that would pass Capacity.
LargestBuffer ==
    Max({MAX_SEQ_LENGTH} \cup {MakeBufLength(n) : n \in {k \in Length : ~MakeFails(k)}})
Capacity == MAX_SEQ_LENGTH - LargestBuffer \div 2 - 2
Abstract == INSTANCE FthText WITH text <- Contents(str), open <- Terminator(str) # Nul

(* A string behaves as a sequence of chars: every word answers and changes *)
(* what FthText says, errors but those of string-replace! change nothing,  *)
(* and a word finds anything behind the chars only after a string-shift    *)
(* or a string-replace! has left them without their NUL; only then, or     *)
(* from a string-replace! by something longer, is memory overrun           *)
(* (string.c).                                                             *)
RefinesText == Abstract!Spec
=============================================================================
