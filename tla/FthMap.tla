------------------------------- MODULE FthMap -------------------------------
(***************************************************************************)
(* What a table of fth promises: a map from keys to values.  hash-ref gives *)
(* #f for a key that is not there, so #f may also be a value that is.       *)
(* Keys that equal? cannot tell apart are one key here.                     *)
(***************************************************************************)
EXTENDS Naturals, Sequences, FiniteSets

CONSTANTS Key, Val, False

VARIABLES map, result
mapvars == <<map, result>>

Empty == [k \in {} |-> False]
Has(k) == k \in DOMAIN map
With(m, k, v) == [x \in DOMAIN m \cup {k} |-> IF x = k THEN v ELSE m[x]]
Without(m, k) == [x \in DOMAIN m \ {k} |-> m[x]]
Pair(k) == IF Has(k) THEN <<k, map[k]>> ELSE False

Init == map = Empty /\ result = <<"ok">>

Asks(r) == result' = r /\ UNCHANGED map

Set(k, v) == result' = <<"set">> /\ map' = With(map, k, v)
Ref(k) == Asks(<<"ref", IF Has(k) THEN map[k] ELSE False>>)
Find(k) == Asks(<<"find", Pair(k)>>)
Member(k) == Asks(<<"member", Has(k)>>)
Delete(k) ==
    /\ result' = <<"delete", Pair(k)>>
    /\ map' = Without(map, k)
Clear == result' = <<"clear">> /\ map' = Empty

\* hash->array, hash-keys and hash-values, in any order
ToArray == result'[1] = "array" /\ \E s \in [1..Cardinality(DOMAIN map) -> Key] :
    /\ {s[i] : i \in DOMAIN s} = DOMAIN map
    /\ Asks(<<"array", [i \in DOMAIN s |-> <<s[i], map[s[i]]>>]>>)

\* hash-copy: the copy is hash= to the original.
Copy == Asks(<<"equal", TRUE>>)

\* >hash: of two pairs with one key the first counts.
Values(s) ==
    /\ result' = <<"values">>
    /\ map' = [k \in {s[i][1] : i \in DOMAIN s} |->
                 LET first == CHOOSE i \in DOMAIN s : s[i][1] = k /\ \A j \in 1..(i - 1) : s[j][1] # k
                 IN  s[first][2]]

\* hash-each and hash-map begin and end; what their blocks did has happened by then.
EachStart == Asks(<<"start">>)
EachDone == Asks(<<"done">>)

Next ==
    \/ \E k \in Key : \/ \E v \in Val : Set(k, v)
                      \/ Ref(k) \/ Find(k) \/ Member(k) \/ Delete(k)
    \/ \E k1, k2 \in Key, v1, v2 \in Val : Values(<<<<k1, v1>>, <<k2, v2>>>>)
    \/ Clear \/ ToArray \/ Copy \/ EachStart \/ EachDone

Spec == Init /\ [][Next]_mapvars
=============================================================================
