------------------------------ MODULE FthForth ------------------------------
(***************************************************************************)
(* The two halves of defining a word: its body (FthCompile) and its name    *)
(* (FthDict).  What the one keeps does not show in the other, except that   *)
(* both begin with : and end with ; or an error, so a behaviour follows one *)
(* of them.                                                                 *)
(***************************************************************************)
EXTENDS FthCompile

CONSTANTS Name, Symbol, Nameless, Wid, Forth, NoWid, Bucket, BucketOf, MAX_WORDLISTS, MaxMem
VARIABLES here_, word, lists, order, current, smudge, mode, begun, created, broken, kind
D == INSTANCE FthDict WITH here <- here_
dict == <<here_, word, lists, order, current, smudge, mode, begun, created, broken>>

ASSUME DictAssumption ==
    /\ Symbol \subseteq Name /\ Nameless \notin Name
    /\ Forth \in Wid /\ NoWid \notin Wid
    /\ BucketOf \in [Name -> Bucket]
    /\ MAX_WORDLISTS \in Nat \ {0} /\ MaxMem \in Nat

ForthInit == Init /\ D!Init /\ kind \in {"body", "name"}
ForthNext ==
    \/ kind = "body" /\ Next /\ UNCHANGED <<dict, kind>>
    \/ kind = "name" /\ D!Next /\ UNCHANGED <<vars, kind>>
ForthSpec == ForthInit /\ [][ForthNext]_<<vars, dict, kind>>

\* Chains of word lists end (ficlHashLookup).
ChainsEnd == kind = "name" => D!TypeOK /\ D!ChainsEnd
\* The buckets, links and smudged words are a dictionary of names: a definition
\* in progress or given up stays hidden and leaves the older one, and forget
\* takes a word and all later ones (ficlDictionaryUnsmudge, ficlHashForget).
RefinesNames == D!Names!Init /\ [][kind = "body" \/ D!NamesStep]_dict
\* A lookup gives the meaning of a name (ficlDictionaryLookup).
FindsMeaning == kind = "name" => D!FindsMeaning
=============================================================================
