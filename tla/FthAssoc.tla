------------------------------ MODULE FthAssoc ------------------------------
(***************************************************************************)
(* Association arrays (src/array.c): "sorted associative arrays as an       *)
(* alternative to hashs".  An array of cells, sorted by the hash-id of the  *)
(* keys, in which the words look by bisection.  The id alone decides: keys  *)
(* with one id are the same key, and assoc adds a cell whether or not there *)
(* is one already.  The array under it is FthArray's (InsertCell).  An      *)
(* association list is such an array flagged as a list, with words of its   *)
(* own, and with acons, which does not sort.                                *)
(***************************************************************************)
EXTENDS Integers, Sequences

CONSTANTS
    Key, Val, False, Id,   \* as in FthHash
    MaxCells               \* bound of the model: cells in the array

VARIABLES
    assoc,     \* the array: a sequence of cells
    answer,    \* what the last word left on the stack
    touched,   \* history: the key of the last word that changed the array
    consed     \* history: acons has put a cell before the others
vars == <<assoc, answer, touched, consed>>

Cell == [key : Key, value : Val]
IdAt(a, i) == Id[a[i + 1].key]      \* C counts from 0

\* Bisection between beg and end.
assoc_index(a, k) ==
    LET search[p \in (0..Len(a)) \X (-1..(Len(a) - 1))] ==
            LET i == (p[1] + p[2]) \div 2      \* p is <<beg, end>>
            IN  IF p[1] > p[2] THEN -1
                ELSE IF Id[k] = IdAt(a, i) THEN i
                ELSE IF Id[k] < IdAt(a, i) THEN search[<<p[1], i - 1>>]
                ELSE search[<<i + 1, p[2]>>]
    IN  search[<<0, Len(a) - 1>>]

\* An insertion before the first cell with a smaller id.
InsertPlaceReversed(a, id) ==
    LET smaller == {i \in 0..(Len(a) - 1) : id > IdAt(a, i)}
    IN  IF smaller = {} THEN Len(a) ELSE CHOOSE i \in smaller : \A j \in smaller : i <= j
\* Before the first cell with a greater id, at the end if there is none
InsertPlace(a, id) ==
    LET greater == {i \in 0..(Len(a) - 1) : id < IdAt(a, i)}
    IN  IF greater = {} THEN Len(a) ELSE CHOOSE i \in greater : \A j \in greater : i <= j
assoc_insert(a, id, cell) ==
    LET i == InsertPlace(a, id)
    IN  SubSeq(a, 1, i) \o <<cell>> \o SubSeq(a, i + 1, Len(a))
fth_assoc(a, k, v) == assoc_insert(a, Id[k], [key |-> k, value |-> v])

fth_array_assoc_ref(a, k) ==
    LET i == assoc_index(a, k) IN IF i >= 0 THEN a[i + 1].value ELSE False
fth_array_assoc_set(a, k, v) ==
    LET i == assoc_index(a, k)
    IN  IF i >= 0 THEN [a EXCEPT ![i + 1] = [key |-> k, value |-> v]] ELSE fth_assoc(a, k, v)
\* A removal of the cell behind the one found.
RemoveAtNext(a, i) == IF i + 2 <= Len(a) THEN SubSeq(a, 1, i + 1) \o SubSeq(a, i + 3, Len(a)) ELSE a
RemoveAt(a, i) == SubSeq(a, 1, i) \o SubSeq(a, i + 2, Len(a))
fth_array_assoc_remove(a, k) ==
    LET i == assoc_index(a, k) IN IF i >= 0 THEN RemoveAt(a, i) ELSE a
\* >assoc pops the pairs, so it takes the last one first.
ficl_values_to_assoc(s) ==
    LET upto[n \in 0..Len(s)] ==
            IF n = 0 THEN <<>>
            ELSE LET p == s[Len(s) + 1 - n] IN fth_assoc(upto[n - 1], p[1], p[2])
    IN  upto[Len(s)]

\* The words on lists: acons unshifts its cell, the others do as the array's.
fth_acons(a, k, v) == <<[key |-> k, value |-> v]>> \o a
fth_list_assoc(a, k) == LET i == assoc_index(a, k) IN IF i >= 0 THEN a[i + 1] ELSE False
fth_list_assoc_ref(a, k) == fth_array_assoc_ref(a, k)
fth_list_assoc_set(a, k, v) ==
    LET i == assoc_index(a, k)
    IN  IF i >= 0 THEN [a EXCEPT ![i + 1].key = k, ![i + 1].value = v] ELSE fth_assoc(a, k, v)
fth_list_assoc_remove(a, k) == fth_array_assoc_remove(a, k)
ficl_values_to_alist(s) == ficl_values_to_assoc(s)

-----------------------------------------------------------------------------
(* Words. *)

Init == assoc = <<>> /\ answer = <<"ok">> /\ touched = {} /\ consed = FALSE

Becomes(a, k) ==
    /\ Len(a) <= MaxCells
    /\ assoc' = a
    /\ answer' = <<"ok">>
    /\ touched' = {k}
    /\ UNCHANGED consed
Answers(r) == answer' = r /\ touched' = {} /\ UNCHANGED <<assoc, consed>>

Assoc(k, v) == Becomes(fth_assoc(assoc, k, v), k)
AssocSet(k, v) == Becomes(fth_array_assoc_set(assoc, k, v), k)
AssocRemove(k) == Becomes(fth_array_assoc_remove(assoc, k), k)
\* array-assoc gives the cell found, its key included.
ArrayAssoc(k) ==
    LET i == assoc_index(assoc, k)
    IN  Answers(<<"cell", IF i >= 0 THEN assoc[i + 1] ELSE False>>)
AssocRef(k) == Answers(<<"ref", fth_array_assoc_ref(assoc, k)>>)
\* >assoc makes the array the program goes on with.
Goes(a) == assoc' = a /\ answer' = <<"ok">> /\ touched' = {} /\ consed' = FALSE
Values(s) == Len(s) <= MaxCells /\ (Goes(ficl_values_to_assoc(s)) \/ Goes(ficl_values_to_alist(s)))

ListAssoc(k) == Answers(<<"cell", fth_list_assoc(assoc, k)>>)
ListAssocRef(k) == Answers(<<"ref", fth_list_assoc_ref(assoc, k)>>)
ListAssocSet(k, v) == Becomes(fth_list_assoc_set(assoc, k, v), k)
ListAssocRemove(k) == Becomes(fth_list_assoc_remove(assoc, k), k)
Acons(k, v) ==
    /\ Len(assoc) < MaxCells
    /\ assoc' = fth_acons(assoc, k, v)
    /\ answer' = <<"ok">> /\ touched' = {k} /\ consed' = (assoc # <<>> \/ consed)

Next ==
    \/ \E k \in Key : \/ \E v \in Val : Assoc(k, v) \/ AssocSet(k, v) \/ ListAssocSet(k, v) \/ Acons(k, v)
                      \/ AssocRemove(k) \/ ArrayAssoc(k) \/ AssocRef(k)
                      \/ ListAssocRemove(k) \/ ListAssoc(k) \/ ListAssocRef(k)
    \/ \E k1, k2 \in Key, v \in Val : Values(<<<<k1, v>>, <<k2, False>>>>)

-----------------------------------------------------------------------------
\* Type correctness of the cells.
TypeOK ==
    /\ assoc \in Seq(Cell)
    /\ touched \subseteq Key

Matches(a, k) == {i \in DOMAIN a : Id[a[i].key] = Id[k]}

\* The bisection finds a cell with the key's id whenever the array has one,
\* through any sequence of additions, overwritten cells and removals, with
\* several cells of one id among them, until acons puts one in an array that is
\* not empty; a cell it finds then is one with the key's id nevertheless.
FindsEveryKey ==
    \A k \in Key :
        LET i == assoc_index(assoc, k)
        IN  /\ i >= 0 => i + 1 \in Matches(assoc, k)
            /\ ~consed /\ Matches(assoc, k) # {} => i >= 0

\* A word that changes one key leaves what array-assoc-ref gives for the others,
\* as long as they have one cell: with two, an insertion elsewhere may turn the
\* bisection from one of them to the other.
OthersKeep ==
    [][\A k \in touched', j \in Key :
        ~consed' /\ Id[j] # Id[k] /\ (\A m, n \in Matches(assoc, j) : m = n) =>
            fth_array_assoc_ref(assoc', j) = fth_array_assoc_ref(assoc, j)]_vars
=============================================================================
