------------------------------ MODULE FthNames ------------------------------
(***************************************************************************)
(* What the dictionary promises: names and the words they stand for, word   *)
(* lists by word list.  A name means the word defined last of those with    *)
(* that name in the first list of the search order that has one; a word     *)
(* list that has no such word looks in the one it inherits from.            *)
(***************************************************************************)
EXTENDS Naturals, Sequences

CONSTANTS Wid, Name, NoWid

VARIABLES
    defs,     \* the words: [at, name, wid], at tells the order of definition
    order,    \* the search order, the first list last
    parents   \* the list each list inherits from, or NoWid
namevars == <<defs, order, parents>>

Latest(ws) == IF ws = {} THEN 0 ELSE (CHOOSE d \in ws : \A e \in ws : e.at <= d.at).at
Own(w, n) == Latest({d \in defs : d.wid = w /\ d.name = n})
\* With one step of inheritance: lists inherit from lists that inherit from none.
In(w, n) == IF Own(w, n) # 0 \/ parents[w] = NoWid THEN Own(w, n) ELSE Own(parents[w], n)
Meaning(n) ==
    LET hits == {i \in DOMAIN order : In(order[i], n) # 0}
    IN  IF hits = {} THEN 0 ELSE In(order[CHOOSE i \in hits : \A j \in hits : j <= i], n)

Init == defs = {} /\ order \in Seq(Wid) /\ parents = [w \in Wid |-> NoWid]

\* A definition is complete, and newer than all the others.
Define(d) ==
    /\ \A e \in defs : e.at < d.at
    /\ defs' = defs \cup {d}
    /\ UNCHANGED <<order, parents>>
\* A word is forgotten together with everything defined after it, lists too.
Forget(n) ==
    /\ Meaning(n) # 0
    /\ defs' = {d \in defs : d.at < Meaning(n)}
    /\ UNCHANGED order
\* Word lists and the search order do not touch the words, and neither do a
\* definition that has begun and an error that ends it.
Arrange == UNCHANGED defs

Next ==
    \/ Arrange
    \/ \E d \in defs' : Define(d)
    \/ \E n \in Name : Forget(n)
=============================================================================
