------------------------------- MODULE FthText ------------------------------
(***************************************************************************)
(* What strings promise: a sequence of chars, with no buffer.  `open' says  *)
(* that the chars have lost their NUL; words on C strings may then answer   *)
(* "stray".  Two words do this: string-shift and a string-replace! that     *)
(* runs out of room.  A char that such a word has made unknown is Junk.     *)
(* After "overrun" nothing is known of the program.                        *)
(***************************************************************************)
EXTENDS Integers, Sequences, FiniteSetsExt, SequencesExt

CONSTANTS Char, NL, ToUpper, ToLower, Junk, None, Index, Length, Added,
          Capacity, MAX_SEQ_LENGTH
VARIABLES text, open, answer
vars == <<text, open, answer>>

Text == Seq(Char \cup {Junk})
Known == \A i \in DOMAIN text : text[i] # Junk

Says(kind, v) == answer = None /\ answer' = <<kind, v>>
Keeps == UNCHANGED <<text, open>>
\* The NUL is written again, or was there all the time.
Becomes(t) == text' = t /\ open' = FALSE /\ Says("ok", None)
\* The chars change where they are.
Rewritten(t) == text' = t /\ UNCHANGED open /\ Says("ok", None)
Fails == Says("error", None) /\ Keeps
Grows(t) == Becomes(t) \/ (Len(t) > Capacity /\ Fails)
\* The answer v about the C string.
About(kind, v) == Keeps /\ \/ Known /\ Says(kind, v)
                           \/ (open \/ ~Known) /\ Says("stray", None)

At(i) == IF i < 0 THEN i + Len(text) + 1 ELSE i + 1
Inside(i) == At(i) \in DOMAIN text
Up(c) == IF c \in Char THEN ToUpper[c] ELSE c
Low(c) == IF c \in Char THEN ToLower[c] ELSE c

Occurs(k, t, i) == i + Len(k) - 1 <= Len(t) /\ SubSeq(t, i, i + Len(k) - 1) = k
Occurrences(k) == {i \in 1..(Len(text) + 1) : Occurs(k, text, i)}
\* From left to right, what has been put in is not looked at again.
Replaced(from, to) ==
    LET r[i \in 1..(Len(text) + Len(from))] ==
            IF i > Len(text) THEN <<>>
            ELSE IF Occurs(from, text, i) THEN to \o r[i + Len(from)]
            ELSE <<text[i]>> \o r[i + 1]
    IN  r[1]

\* The longest runs of chars without one of delim, in their order.
Free(delim, i, j) == \A k \in i..j : \A d \in DOMAIN delim : text[k] # delim[d]
Runs(delim) ==
    {p \in (1..Len(text)) \X (1..Len(text)) :
        /\ p[1] <= p[2] /\ Free(delim, p[1], p[2])
        /\ p[1] = 1 \/ ~Free(delim, p[1] - 1, p[1] - 1)
        /\ p[2] = Len(text) \/ ~Free(delim, p[2] + 1, p[2] + 1)}
Fields(delim) ==
    LET rs == SetToSortSeq(Runs(delim), LAMBDA p, q : p[1] < q[1])
    IN  [i \in DOMAIN rs |-> SubSeq(text, rs[i][1], rs[i][2])]

Before(s, t) == IsStrictPrefix(s, t)
                \/ \E i \in DOMAIN s \cap DOMAIN t :
                      s[i] < t[i] /\ SubSeq(s, 1, i - 1) = SubSeq(t, 1, i - 1)

-----------------------------------------------------------------------------
Init == text = <<>> /\ open = FALSE /\ answer = None

Take == answer # None /\ answer[1] # "overrun" /\ answer' = None /\ Keeps

Make == \E n \in Length, c \in Char :
           IF n \in 0..MAX_SEQ_LENGTH THEN Becomes([i \in 1..n |-> c]) ELSE Fails
MakeFrom == \E t \in Added, n \in Length : n >= 0 /\ Becomes(SubSeq(t, 1, Min({n, Len(t)})))
Join == \E s, t \in Added : Grows(s \o t)

Look == \/ Keeps /\ Says("length", Len(text))
        \/ Keeps /\ Says("array", text)
        \/ \E i \in Index : IF Inside(i) THEN Keeps /\ Says("char", text[At(i)]) ELSE Fails
Set == \E i \in Index, c \in Char :
          IF Inside(i) THEN Rewritten([text EXCEPT ![At(i)] = c]) ELSE Fails

\* Nothing added changes nothing, and not the NUL either.
Add(t, new) == IF t = <<>> THEN Rewritten(text) ELSE Grows(new)
Push == \E t \in Added \cup {text} : Add(t, text \o t)
Unshift == \E t \in Added : Add(t, t \o text)
\* A string put before itself may have been moved over.
UnshiftSelf == \/ Len(text) > Capacity \div 2 /\ Fails
               \/ /\ Len(text') = 2 * Len(text)
                  /\ SubSeq(text', Len(text) + 1, 2 * Len(text)) = text
                  /\ IF text = <<>> THEN UNCHANGED open ELSE open' = FALSE
                  /\ Says("ok", None)
Insert == \E i \in Index, t \in Added :
             IF Inside(i) \/ At(i) = 1
             THEN Add(t, SubSeq(text, 1, At(i) - 1) \o t \o SubSeq(text, At(i), Len(text)))
             ELSE Fails
Without(i) == RemoveAt(text, i)
\* Only the first char's going can take the NUL along.
Gone(i) == /\ text' = Without(i)
           /\ answer = None /\ answer' = <<"char", text[i]>>
           /\ i > 1 => (open' = FALSE \/ open' = open)
Drop == IF text = <<>> THEN Keeps /\ Says("char", None)
          ELSE \/ Gone(1) \/ Gone(Len(text))
               \/ \E i \in Index : IF Inside(i) THEN Gone(At(i)) ELSE Fails
EachChar == \/ \E c \in Char : Rewritten([i \in DOMAIN text |-> c])
            \/ Rewritten([i \in DOMAIN text |-> Up(text[i])])
            \/ Rewritten([i \in DOMAIN text |-> Low(text[i])])
            \/ Rewritten([i \in DOMAIN text |-> IF i = 1 THEN Up(text[i]) ELSE Low(text[i])])
Chomp == IF text # <<>> /\ Last(text) = NL THEN Becomes(Front(text)) ELSE Rewritten(text)
Lost == /\ \A i \in DOMAIN text' : text'[i] = Junk
        /\ open'
Turn == \/ Known /\ Rewritten(Reverse(text))
        \/ /\ open \/ ~Known
           /\ Lost /\ Len(text') = Len(text)
           /\ Says("ok", None) \/ Says("overrun", None)

Read == \/ About("copy", text)
        \/ \E t \in Added :
              \/ About("append", text \o t)
              \/ Known /\ About("cmp", IF text = t THEN 0 ELSE IF Before(text, t) THEN -1 ELSE 1)
              \/ About("equal", text = t)
              \/ About("not-equal", text # t)
              \/ Known /\ (About("less", Before(text, t)) \/ About("greater", Before(t, text)))
              \/ About("member", Occurrences(t) # {})
              \/ Len(t) # Len(text) /\ Keeps /\ Says("equal", FALSE)
              \/ text = <<>> /\ t = <<>> /\ Keeps /\ Says("equal", TRUE)
              \/ About("index", IF Occurrences(t) = {} THEN -1 ELSE Min(Occurrences(t)) - 1)
              \/ About("find", IF Occurrences(t) = {} THEN None
                       ELSE SubSeq(text, Min(Occurrences(t)), Len(text)))
              \/ IF text = <<>> THEN Keeps /\ Says("split", <<<<>>>>) ELSE About("split", Fields(t))
Unreadable == (open \/ ~Known) /\ Keeps /\ Says("stray", None)
Substring == \E i, j \in Index :
    IF Inside(i)
    THEN /\ Keeps
         /\ Says("substring", IF At(j) \in At(i)..Len(text) THEN SubSeq(text, At(i), At(j) - 1)
                        ELSE SubSeq(text, At(i), Len(text)))
    ELSE Fails

Replace == \E from \in Added \ {<<>>}, to \in Added :
    \/ /\ Known \/ (Len(from) = 1 /\ Len(to) = 1)
       /\ text' = Replaced(from, to)
       /\ open' \in {open, FALSE}
       /\ Says("ok", None)
    \* too long: one occurrence is gone and nothing is in its place
    \/ Known /\ Len(to) > 0 /\ Len(Replaced(from, to)) > Capacity /\ open' /\ Says("error", None)
    \* read without its NUL, or moved by a realloc
    \/ /\ Lost
       /\ \/ (open \/ ~Known) /\ Says("stray", None)
          \/ (open \/ ~Known \/ Len(to) > Len(from)) /\ Says("overrun", None)

Next == \/ Take \/ Make \/ MakeFrom \/ Join \/ Look \/ Set \/ Push \/ Unshift \/ UnshiftSelf
        \/ Insert \/ Drop \/ EachChar \/ Chomp \/ Turn \/ Read \/ Unreadable \/ Substring
        \/ Replace
Spec == Init /\ [][Next]_vars
=============================================================================
