------------------------------ MODULE FthTables -----------------------------
(***************************************************************************)
(* A program with the two kinds of table fth has, a hash (FthHash) and an   *)
(* association array (FthAssoc).  They share keys, values and hash-ids and  *)
(* nothing else, so a behaviour uses the one or the other.                  *)
(***************************************************************************)
EXTENDS FthHash, Integers

CONSTANT MaxCells
VARIABLES assoc, answer, touched, consed, kind
assocvars == <<assoc, answer, touched, consed>>
A == INSTANCE FthAssoc

TablesInit == Init /\ A!Init /\ kind \in {"hash", "assoc"}
TablesNext ==
    \/ kind = "hash" /\ Next /\ UNCHANGED <<assocvars, kind>>
    \/ kind = "assoc" /\ A!Next /\ UNCHANGED <<vars, kind>>
TablesSpec == TablesInit /\ [][TablesNext]_<<vars, assocvars, kind>>

\* Bisection finds what is there (array-assoc and its kin).
AssocFindsEveryKey == A!TypeOK /\ A!FindsEveryKey
\* A change of one key of an association array leaves the others alone.
AssocOthersKeep == A!OthersKeep
=============================================================================
