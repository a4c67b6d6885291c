------------------------------- MODULE FthHash ------------------------------
(***************************************************************************)
(* Hashes (src/hash.c): buckets of chained entries, new entries first.      *)
(* hash-each and hash-map walk over the chains and call a block that may    *)
(* use the same hash: between two entries every other operation may happen. *)
(*                                                                          *)
(* A key is a class of equal? objects, and Id gives its hash-id.  Entries   *)
(* hold no pointers here: a chain is a sequence, and an entry is known by   *)
(* its key, since a chain has each key once.                                *)
(***************************************************************************)
EXTENDS Naturals, Sequences, FiniteSets

CONSTANTS
    Key, Val, False,   \* False is the value #f
    Id,                \* fth_hash_id, a function of keys
    HashSize,          \* number of buckets
    NoEntry, Freed     \* what a walk may stand on besides a key

ASSUME HashAssumption ==
    /\ HashSize \in Nat \ {0}
    /\ Id \in [Key -> Nat]
    /\ False \in Val
    /\ NoEntry \notin Key /\ Freed \notin Key /\ NoEntry # Freed

VARIABLES
    hash,     \* [length, data]: the FHash
    walk,     \* hash-each or hash-map under way
    result,   \* what the last word left on the stack
    visited,  \* history: the keys the block was called with, in order
    stable    \* history: the keys that have been in since the walk began
history == <<visited, stable>>
vars == <<hash, walk, result, history>>

-----------------------------------------------------------------------------
(* The table. *)

Item == [key : Key, value : Val]
Buckets == 0..(HashSize - 1)
make_hash == [length |-> 0, data |-> [b \in Buckets |-> <<>>]]
hash_key_to_val(k) == Id[k] % HashSize
Chain(h, k) == h.data[hash_key_to_val(k)]

\* The place of k in its chain: the first entry with that key, or 0.
Places(c, k) == {j \in DOMAIN c : c[j].key = k}
Place(c, k) == IF Places(c, k) = {} THEN 0
               ELSE CHOOSE j \in Places(c, k) : \A i \in Places(c, k) : j <= i
Present(h, k) == Place(Chain(h, k), k) # 0
EntryOf(h, k) == Chain(h, k)[Place(Chain(h, k), k)]
SetChain(h, k, c, len) == [length |-> len, data |-> [h.data EXCEPT ![hash_key_to_val(k)] = c]]

\* A set that looks for the key at the head of its chain only.
fth_hash_set_head(h, k, v) ==
    LET c == Chain(h, k)
    IN  IF c # <<>> /\ c[1].key = k
        THEN SetChain(h, k, [c EXCEPT ![1].value = v], h.length)
        ELSE SetChain(h, k, <<[key |-> k, value |-> v]>> \o c, h.length + 1)
\* A set that does not count the entry it adds.
fth_hash_set_uncounted(h, k, v) ==
    LET c == Chain(h, k)
    IN  IF Present(h, k)
        THEN SetChain(h, k, [c EXCEPT ![Place(c, k)].value = v], h.length)
        ELSE SetChain(h, k, <<[key |-> k, value |-> v]>> \o c, h.length)
fth_hash_set(h, k, v) ==
    LET c == Chain(h, k)
    IN  IF Present(h, k)
        THEN SetChain(h, k, [c EXCEPT ![Place(c, k)].value = v], h.length)
        ELSE SetChain(h, k, <<[key |-> k, value |-> v]>> \o c, h.length + 1)

fth_hash_ref(h, k) == IF Present(h, k) THEN EntryOf(h, k).value ELSE False
\* The lookups below do not look at all when the length is 0.
fth_hash_member_p(h, k) == h.length > 0 /\ Present(h, k)
fth_hash_find(h, k) ==
    IF fth_hash_member_p(h, k) THEN <<EntryOf(h, k).key, EntryOf(h, k).value>> ELSE False
\* A delete that unlinks everything behind the entry too.
UnlinkTail(c, j) == SubSeq(c, 1, j - 1)
Unlink(c, j) == SubSeq(c, 1, j - 1) \o SubSeq(c, j + 1, Len(c))
fth_hash_delete(h, k) ==
    IF fth_hash_member_p(h, k)
    THEN SetChain(h, k, Unlink(Chain(h, k), Place(Chain(h, k), k)), h.length - 1)
    ELSE h
fth_hash_clear(h) == IF h.length > 0 THEN make_hash ELSE h

\* The entries in the order of a walk.
Entries(h) ==
    LET upto[b \in 0..HashSize] == IF b = 0 THEN <<>> ELSE upto[b - 1] \o h.data[b - 1]
    IN  upto[HashSize]
SetAll(h, s) ==
    LET upto[n \in 0..Len(s)] ==
            IF n = 0 THEN h ELSE fth_hash_set(upto[n - 1], s[n].key, s[n].value)
    IN  upto[Len(s)]
hs_copy(h) == IF h.length > 0 THEN SetAll(make_hash, Entries(h)) ELSE make_hash
hs_equal_p(h, g) ==
    /\ h.length = g.length
    /\ \A i \in DOMAIN Entries(h) :
         LET e == Entries(h)[i]
         IN  fth_hash_member_p(g, e.key) /\ fth_hash_find(g, e.key)[2] = e.value
hs_to_array(h) == [i \in DOMAIN Entries(h) |-> <<Entries(h)[i].key, Entries(h)[i].value>>]
\* >hash pops the pairs, so it takes the last one first.
ficl_values_to_hash(s) ==
    SetAll(make_hash, [i \in DOMAIN s |->
        LET p == s[Len(s) + 1 - i] IN [key |-> p[1], value |-> p[2]]])

-----------------------------------------------------------------------------
(* Words. *)

NoWalk == [op |-> "none", at |-> NoEntry, bucket |-> 0, out |-> make_hash]

Init ==
    /\ hash = make_hash
    /\ walk = NoWalk
    /\ result = <<"ok">>
    /\ visited = <<>>
    /\ stable = {}

\* The history of a walk is kept until the next word outside of any.
Forget == walk' = NoWalk /\ visited' = <<>> /\ stable' = {}

\* A word that only looks; in a block it would change nothing.
Answers(r) == walk.op = "none" /\ result' = r /\ UNCHANGED hash /\ Forget

\* A word outside of walks, or in a block that may take the keys ks away.  A walk
\* that stands on one of them stands on freed memory from then on.
Loses(ks) ==
    \/ walk.op = "none" /\ Forget
    \/ /\ walk.op \in {"each", "map"} /\ walk.at # NoEntry
       /\ walk' = IF walk.at \in ks THEN [walk EXCEPT !.at = Freed] ELSE walk
       /\ stable' = stable \ ks
       /\ UNCHANGED visited

Set(k, v) ==
    /\ hash' = fth_hash_set(hash, k, v)
    /\ result' = <<"set">>
    /\ Loses({})
Ref(k) == Answers(<<"ref", fth_hash_ref(hash, k)>>)
Find(k) == Answers(<<"find", fth_hash_find(hash, k)>>)
Member(k) == Answers(<<"member", fth_hash_member_p(hash, k)>>)
Delete(k) ==
    /\ hash' = fth_hash_delete(hash, k)
    /\ result' = <<"delete", fth_hash_find(hash, k)>>
    /\ Loses({k})
\* hash-clear
Clear ==
    /\ hash' = fth_hash_clear(hash)
    /\ result' = <<"clear">>
    /\ Loses(Key)
\* hash->array; hash-keys and hash-values are its columns.
ToArray == Answers(<<"array", hs_to_array(hash)>>)
\* hash-copy, hash= with the original; the program goes on with the copy.
Copy ==
    /\ walk.op = "none"
    /\ hash' = hs_copy(hash)
    /\ result' = <<"equal", hs_equal_p(hs_copy(hash), hash)>>
    /\ Forget
\* >hash makes the hash the program goes on with.
Values(s) ==
    /\ walk.op = "none"
    /\ hash' = ficl_values_to_hash(s)
    /\ result' = <<"values">>
    /\ Forget

-----------------------------------------------------------------------------
(* hash-each and hash-map. *)

EachStart(op) ==
    /\ walk.op = "none"
    /\ walk' = [NoWalk EXCEPT !.op = op]
    /\ visited' = <<>>
    /\ stable' = {k \in Key : Present(hash, k)}
    /\ result' = <<"start">>
    /\ UNCHANGED hash

\* entry->next, or the head of the next chain that has one, from bucket b on
Heads(b) == {c \in Buckets : c >= b /\ hash.data[c] # <<>>}
HeadFrom(b) ==
    IF Heads(b) = {} THEN [at |-> NoEntry, bucket |-> HashSize]
    ELSE LET c == CHOOSE c \in Heads(b) : \A d \in Heads(b) : c <= d
         IN  [at |-> hash.data[c][1].key, bucket |-> c]
\* A walk that goes on with the next bucket after each entry.
FollowingBucket == IF walk.at = NoEntry THEN HeadFrom(0) ELSE HeadFrom(walk.bucket + 1)
Following ==
    LET c == hash.data[walk.bucket]
        j == Place(c, walk.at)
    IN  IF walk.at = NoEntry THEN HeadFrom(0)
        ELSE IF j < Len(c) THEN [at |-> c[j + 1].key, bucket |-> walk.bucket]
        ELSE HeadFrom(walk.bucket + 1)

\* The block returns and the walk goes to the next entry; hash-map stores what
\* the block left.
BlockReturns(v) ==
    IF walk.op = "map" /\ walk.at # NoEntry THEN fth_hash_set(walk.out, walk.at, v) ELSE walk.out
EachStep(v) ==
    /\ walk.op \in {"each", "map"} /\ walk.at # Freed
    /\ LET next == Following IN
        /\ next.at # NoEntry
        /\ walk' = [walk EXCEPT !.at = next.at, !.bucket = next.bucket, !.out = BlockReturns(v)]
        /\ visited' = Append(visited, next.at)
    /\ UNCHANGED <<hash, result, stable>>
EachDone(v) ==
    /\ walk.op \in {"each", "map"} /\ walk.at # Freed
    /\ Following.at = NoEntry
    /\ walk' = [NoWalk EXCEPT !.out = BlockReturns(v)]
    /\ result' = <<"done">>
    /\ UNCHANGED <<hash, history>>
\* The block deleted the entry it was called with: entry->next is read from
\* freed memory, and anything may follow.
EachFreed ==
    /\ walk.op \in {"each", "map"} /\ walk.at = Freed
    /\ walk' = [walk EXCEPT !.op = "undefined", !.at = NoEntry]
    /\ UNCHANGED <<hash, result, history>>

Next ==
    \/ \E k \in Key : \/ \E v \in Val : Set(k, v)
                      \/ Ref(k) \/ Find(k) \/ Member(k) \/ Delete(k)
    \/ \E k1, k2 \in Key, v1, v2 \in Val : Values(<<<<k1, v1>>, <<k2, v2>>>>)
    \/ Clear \/ ToArray \/ Copy
    \/ \E op \in {"each", "map"} : EachStart(op)
    \/ \E v \in Val : EachStep(v) \/ EachDone(v)
    \/ EachFreed

Spec == Init /\ [][Next]_vars

-----------------------------------------------------------------------------
FHash == [length : Nat, data : [Buckets -> Seq(Item)]]

\* Type correctness of the table and of a walk.
TypeOK ==
    /\ hash \in FHash
    /\ walk \in [op : {"none", "each", "map", "undefined"}, at : Key \cup {NoEntry, Freed},
                 bucket : 0..HashSize, out : FHash]
    /\ visited \in Seq(Key)
    /\ stable \subseteq Key

\* The hash is a map: whatever bucket and place in its chain an entry has,
\* every word does to the table, and leaves on the stack, what it would with a
\* map.  The lookups rely on the length, which set, delete and clear count.
Abstract == INSTANCE FthMap WITH
    map <- [k \in {x \in Key : Present(hash, x)} |-> EntryOf(hash, k).value]
RefinesMap == Abstract!Spec

\* A walk whose block changes the hash under it calls the block at most once
\* for each key, and when it ends it has called it for every key that was in
\* the hash all the time, as long as no block deletes the entry it was called
\* with.
VisitsOnce ==
    /\ TypeOK
    /\ \A i, j \in DOMAIN visited : visited[i] = visited[j] => i = j
    /\ walk.op = "none" => stable \subseteq {visited[i] : i \in DOMAIN visited}

\* hash-map makes a hash of the keys its block has returned for, each once,
\* also when the block has deleted keys from the original.
MapFollowsWalk ==
    walk.op = "map" =>
        /\ walk.out.length = Len(Entries(walk.out))
        /\ walk.at \in Key =>
             {k \in Key : Present(walk.out, k)} = {visited[i] : i \in DOMAIN visited} \ {walk.at}
=============================================================================
