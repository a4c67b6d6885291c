-------------------------- MODULE FthTablesProofs --------------------------
(***************************************************************************)
(* Proofs about hashes and association arrays: those of FthHash, for any   *)
(* keys, values, hash-ids and any number of buckets, and what they say of  *)
(* FthTables; and those of FthAssoc there, for any bound on the cells: the *)
(* bisection finds what is there, and a change of one key leaves the       *)
(* others alone.                                                           *)
(***************************************************************************)
EXTENDS FthTables, FiniteSetTheorems, TLAPS

-----------------------------------------------------------------------------
(* Numbers and buckets. *)

\* A nonempty set of naturals has a least element (NatLessThanWellFounded).
LEMMA Least ==
    ASSUME NEW P \in SUBSET Nat, P # {}
    PROVE  \E k \in P : \A j \in P : k <= j
  <1>1. PICK k \in P : \A j \in P : ~(<<j, k>> \in OpToRel(<, Nat))
    BY WFMin, NatLessThanWellFounded
  <1>2. \A j \in P : ~(j < k)
    BY <1>1 DEF OpToRel
  <1> QED
    BY <1>2

\* What holds of 0 and of n + 1 whenever it holds of n, holds of all n: for a set of naturals.
LEMMA Upward ==
    ASSUME NEW P \in SUBSET Nat, 0 \in P, \A n \in P : n + 1 \in P
    PROVE  P = Nat
  <1> SUFFICES ASSUME Nat \ P # {} PROVE FALSE
    OBVIOUS
  <1>1. PICK k \in Nat \ P : \A j \in Nat \ P : k <= j
    BY Least
  <1>2. k # 0 /\ k - 1 \in Nat
    BY <1>1
  <1>3. k - 1 \in P
    BY <1>1, <1>2
  <1>4. (k - 1) + 1 \in P
    BY <1>3
  <1> QED
    BY <1>1, <1>2, <1>4

\* hash_key_to_val gives a bucket of the table, whatever the hash-id.
LEMMA BucketOf ==
    ASSUME NEW k \in Key
    PROVE  hash_key_to_val(k) \in Buckets
  <1>1. Id[k] \in Nat /\ HashSize \in Nat \ {0}
    BY HashAssumption
  <1>2. Id[k] % HashSize \in 0..(HashSize - 1)
    BY <1>1
  <1> QED
    BY <1>2 DEF hash_key_to_val, Buckets

-----------------------------------------------------------------------------
(* Chains. *)

\* Place gives the first entry with the key.
LEMMA PlaceIs ==
    ASSUME NEW c \in Seq(Item), NEW k
    PROVE  /\ Place(c, k) \in 0..Len(c)
           /\ Place(c, k) = 0 <=> \A j \in 1..Len(c) : c[j].key # k
           /\ Place(c, k) # 0 => c[Place(c, k)].key = k
           /\ \A j \in 1..Len(c) : c[j].key = k => Place(c, k) <= j
  <1>1. Places(c, k) \in SUBSET (1..Len(c)) /\ Len(c) \in Nat
    BY DEF Places
  <1>2. CASE Places(c, k) = {}
    BY <1>1, <1>2 DEF Place, Places
  <1>3. CASE Places(c, k) # {}
    <2>1. \E j \in Places(c, k) : \A i \in Places(c, k) : j <= i
      <3>1. Places(c, k) \in SUBSET Nat
        BY <1>1
      <3> QED
        BY <1>3, <3>1, Least
    <2>2. Place(c, k) \in Places(c, k) /\ \A i \in Places(c, k) : Place(c, k) <= i
      BY <1>3, <2>1 DEF Place
    <2> QED
      BY <1>1, <2>2 DEF Places
  <1> QED
    BY <1>2, <1>3

\* A chain has each key once.
Once(c) == \A i, j \in 1..Len(c) : c[i].key = c[j].key => i = j

\* hs_entry finds the entry of a key at the only place it is.
LEMMA PlaceOnce ==
    ASSUME NEW c \in Seq(Item), Once(c), NEW j \in 1..Len(c)
    PROVE  Place(c, c[j].key) = j
  BY PlaceIs DEF Once

\* The entry in place p gets another value.
LEMMA ChangeChain ==
    ASSUME NEW c \in Seq(Item), NEW p \in 1..Len(c), NEW v \in Val
    PROVE  /\ [c EXCEPT ![p].value = v] \in Seq(Item)
           /\ Len([c EXCEPT ![p].value = v]) = Len(c)
           /\ \A j \in 1..Len(c) : [c EXCEPT ![p].value = v][j] =
                 IF j = p THEN [key |-> c[p].key, value |-> v] ELSE c[j]
  <1>1. \A e \in Item : [e EXCEPT !.value = v] = [key |-> e.key, value |-> v]
                        /\ [key |-> e.key, value |-> v] \in Item
    BY DEF Item
  <1> DEFINE d == [c EXCEPT ![p] = [c[p] EXCEPT !.value = v]]
  <1>2. c[p] \in Item /\ [c[p] EXCEPT !.value = v] \in Item
    <2>1. c[p] \in Item
      OBVIOUS
    <2> QED
      BY <1>1, <2>1
  <1>3. d \in Seq(Item) /\ Len(d) = Len(c)
        /\ \A j \in 1..Len(c) : d[j] = IF j = p THEN [c[p] EXCEPT !.value = v] ELSE c[j]
    BY <1>2
  <1>4. [c EXCEPT ![p].value = v] = d
    OBVIOUS
  <1>5. [c[p] EXCEPT !.value = v] = [key |-> c[p].key, value |-> v]
    BY <1>1, <1>2
  <1> HIDE DEF d
  <1> QED
    BY <1>3, <1>4, <1>5

\* A new entry goes before the others.
LEMMA LinkChain ==
    ASSUME NEW c \in Seq(Item), NEW e \in Item
    PROVE  /\ <<e>> \o c \in Seq(Item) /\ Len(<<e>> \o c) = Len(c) + 1
           /\ (<<e>> \o c)[1] = e
           /\ \A j \in 1..Len(c) : (<<e>> \o c)[j + 1] = c[j]
           /\ \A j \in 2..(Len(c) + 1) : (<<e>> \o c)[j] = c[j - 1]
  OBVIOUS

\* The entry in place p is taken out.
LEMMA UnlinkChain ==
    ASSUME NEW c \in Seq(Item), NEW p \in 1..Len(c)
    PROVE  /\ Unlink(c, p) \in Seq(Item) /\ Len(Unlink(c, p)) = Len(c) - 1
           /\ \A j \in 1..(Len(c) - 1) : Unlink(c, p)[j] = IF j < p THEN c[j] ELSE c[j + 1]
  <1> DEFINE a == SubSeq(c, 1, p - 1)
             b == SubSeq(c, p + 1, Len(c))
  <1>0. Len(c) \in Nat /\ p \in Nat /\ 1 <= p /\ p <= Len(c)
    OBVIOUS
  <1>1. a \in Seq(Item) /\ Len(a) = p - 1 /\ \A j \in 1..(p - 1) : a[j] = c[j]
    OBVIOUS
  <1>2. b \in Seq(Item) /\ Len(b) = Len(c) - p /\ \A j \in 1..(Len(c) - p) : b[j] = c[p + j]
    OBVIOUS
  <1> HIDE DEF a, b
  <1>3. Len(a \o b) = Len(c) - 1 /\ a \o b \in Seq(Item)
    BY <1>0, <1>1, <1>2
  <1>4. \A j \in 1..(Len(c) - 1) : (a \o b)[j] = IF j <= p - 1 THEN a[j] ELSE b[j - (p - 1)]
    BY <1>0, <1>1, <1>2, <1>3
  <1>5. \A j \in 1..(Len(c) - 1) : (a \o b)[j] = IF j < p THEN c[j] ELSE c[j + 1]
    <2> SUFFICES ASSUME NEW j \in 1..(Len(c) - 1)
                 PROVE  (a \o b)[j] = IF j < p THEN c[j] ELSE c[j + 1]
      OBVIOUS
    <2>0. j \in Int /\ p \in Int
      BY <1>0
    <2>1. CASE j < p
      BY <1>0, <1>1, <1>4, <2>0, <2>1
    <2>2. CASE j >= p
      <3>1. j - (p - 1) \in 1..(Len(c) - p) /\ p + (j - (p - 1)) = j + 1
        BY <1>0, <2>0, <2>2
      <3>2. b[j - (p - 1)] = c[j + 1]
        BY <1>2, <3>1
      <3>3. ~(j < p) /\ ~(j <= p - 1)
        BY <1>0, <2>0, <2>2
      <3>4. (a \o b)[j] = b[j - (p - 1)]
        BY <1>4, <3>3
      <3> QED
        BY <3>2, <3>3, <3>4
    <2>3. j < p \/ j >= p
      BY <2>0
    <2> QED
      BY <2>1, <2>2, <2>3
  <1>6. Unlink(c, p) = a \o b
    BY DEF Unlink, a, b
  <1> QED
    BY <1>3, <1>5, <1>6


-----------------------------------------------------------------------------
(* Tables. *)

\* The keys of a hash.
Keys(h) == {k \in Key : Present(h, k)}
\* Where k is in its chain.
At(h, k) == Place(Chain(h, k), k)
\* A chain that belongs in bucket b.
Belongs(c, b) == \A j \in 1..Len(c) : hash_key_to_val(c[j].key) = b
\* Each key is in the bucket of its hash-id, once.
Tidy(h) ==
    /\ h \in FHash
    /\ \A b \in Buckets : Once(h.data[b]) /\ Belongs(h.data[b], b)
\* And the length counts the keys.
Table(h) == Tidy(h) /\ IsFiniteSet(Keys(h)) /\ h.length = Cardinality(Keys(h))

\* The chain of a key, and its entry when it has one.
LEMMA ChainOf ==
    ASSUME NEW h, Tidy(h), NEW k \in Key
    PROVE  /\ Chain(h, k) \in Seq(Item) /\ Once(Chain(h, k))
           /\ Belongs(Chain(h, k), hash_key_to_val(k))
           /\ k \in Keys(h) => At(h, k) \in 1..Len(Chain(h, k)) /\ EntryOf(h, k) \in Item
                               /\ EntryOf(h, k).key = k
           /\ k \notin Keys(h) => At(h, k) = 0 /\ \A j \in 1..Len(Chain(h, k)) : Chain(h, k)[j].key # k
  <1>1. hash_key_to_val(k) \in Buckets
    BY BucketOf
  <1>2. Chain(h, k) \in Seq(Item) /\ Once(Chain(h, k)) /\ Belongs(Chain(h, k), hash_key_to_val(k))
    BY <1>1 DEF Tidy, FHash, Chain
  <1>3. At(h, k) \in 0..Len(Chain(h, k)) /\ (At(h, k) # 0 => Chain(h, k)[At(h, k)].key = k)
        /\ (At(h, k) = 0 <=> \A j \in 1..Len(Chain(h, k)) : Chain(h, k)[j].key # k)
    BY <1>2, PlaceIs DEF At
  <1>4. k \in Keys(h) <=> At(h, k) # 0
    BY DEF Keys, Present, At
  <1>5. At(h, k) # 0 => At(h, k) \in 1..Len(Chain(h, k))
    BY <1>2, <1>3
  <1>6. EntryOf(h, k) = Chain(h, k)[At(h, k)]
    BY DEF EntryOf, At
  <1>7. At(h, k) # 0 => EntryOf(h, k) \in Item
    BY <1>2, <1>5, <1>6
  <1> QED
    BY <1>2, <1>3, <1>4, <1>5, <1>6, <1>7

\* The entry of a chain that has the key.
LEMMA EntryAt ==
    ASSUME NEW h, Tidy(h), NEW b \in Buckets, NEW j \in 1..Len(h.data[b])
    PROVE  /\ h.data[b][j] \in Item /\ h.data[b][j].key \in Keys(h)
           /\ hash_key_to_val(h.data[b][j].key) = b
           /\ At(h, h.data[b][j].key) = j /\ EntryOf(h, h.data[b][j].key) = h.data[b][j]
  <1>1. h.data[b] \in Seq(Item) /\ Once(h.data[b]) /\ Belongs(h.data[b], b)
    BY DEF Tidy, FHash
  <1>2. h.data[b][j] \in Item
    BY <1>1
  <1>3. h.data[b][j].key \in Key
    BY <1>2 DEF Item
  <1>4. hash_key_to_val(h.data[b][j].key) = b
    BY <1>1 DEF Belongs
  <1>5. Chain(h, h.data[b][j].key) = h.data[b]
    BY <1>4 DEF Chain
  <1>6. Place(h.data[b], h.data[b][j].key) = j
    BY <1>1, PlaceOnce
  <1>7. j # 0
    OBVIOUS
  <1> QED
    BY <1>2, <1>3, <1>4, <1>5, <1>6, <1>7 DEF Keys, Present, At, EntryOf

\* A bucket gets another chain.
LEMMA SetChainIs ==
    ASSUME NEW h, Tidy(h), NEW k \in Key, NEW c \in Seq(Item), Once(c), Belongs(c, hash_key_to_val(k)),
           NEW n \in Nat
    PROVE  /\ Tidy(SetChain(h, k, c, n)) /\ SetChain(h, k, c, n).length = n
           /\ \A x \in Key : Chain(SetChain(h, k, c, n), x) =
                 IF hash_key_to_val(x) = hash_key_to_val(k) THEN c ELSE Chain(h, x)
  <1> DEFINE g == SetChain(h, k, c, n)
  <1>1. h.data \in [Buckets -> Seq(Item)]
    BY DEF Tidy, FHash
  <1>2. g.length = n /\ g.data = [h.data EXCEPT ![hash_key_to_val(k)] = c] /\ g \in [length : Nat, data : {g.data}]
    BY DEF SetChain
  <1>3. g.data \in [Buckets -> Seq(Item)]
    BY <1>1, <1>2, BucketOf
  <1>4. \A b \in Buckets : g.data[b] = IF b = hash_key_to_val(k) THEN c ELSE h.data[b]
    BY <1>1, <1>2, BucketOf
  <1>5. g \in FHash
    BY <1>2, <1>3 DEF FHash
  <1>6. Tidy(g)
    BY <1>4, <1>5 DEF Tidy
  <1>7. \A x \in Key : Chain(g, x) = IF hash_key_to_val(x) = hash_key_to_val(k) THEN c ELSE Chain(h, x)
    BY <1>4, BucketOf DEF Chain
  <1> QED
    BY <1>2, <1>6, <1>7


\* The keys, their values and their order in the chains, when only the chain of k
\* changes and each of its entries is the new entry of k or an old one of another key.
LEMMA KeysElsewhere ==
    ASSUME NEW h, NEW g, NEW k \in Key, NEW x \in Key, hash_key_to_val(x) # hash_key_to_val(k),
           \A y \in Key : hash_key_to_val(y) # hash_key_to_val(k) => Chain(g, y) = Chain(h, y)
    PROVE  (x \in Keys(g) <=> x \in Keys(h)) /\ At(g, x) = At(h, x) /\ EntryOf(g, x) = EntryOf(h, x)
  BY DEF Keys, Present, At, EntryOf

\* fth_hash_set adds the key with the value and keeps everything else, the order
\* of the other entries of a chain too; a new entry comes first.
LEMMA SetTable ==
    ASSUME NEW h, Table(h), NEW k \in Key, NEW v \in Val
    PROVE  /\ Table(fth_hash_set(h, k, v))
           /\ Keys(fth_hash_set(h, k, v)) = Keys(h) \cup {k}
           /\ \A x \in Keys(h) \cup {k} : EntryOf(fth_hash_set(h, k, v), x).value =
                 IF x = k THEN v ELSE EntryOf(h, x).value
           /\ \A x, y \in Keys(h) : hash_key_to_val(x) = hash_key_to_val(y) =>
                 (At(fth_hash_set(h, k, v), x) <= At(fth_hash_set(h, k, v), y) <=> At(h, x) <= At(h, y))
           /\ k \notin Keys(h) => \A y \in Keys(h) : hash_key_to_val(k) = hash_key_to_val(y) =>
                 At(fth_hash_set(h, k, v), k) <= At(fth_hash_set(h, k, v), y)
  <1> DEFINE c == Chain(h, k)
             p == At(h, k)
             g == fth_hash_set(h, k, v)
  <1>1. Tidy(h) /\ IsFiniteSet(Keys(h)) /\ h.length = Cardinality(Keys(h)) /\ h.length \in Nat
    BY DEF Table, Tidy, FHash
  <1>2. /\ c \in Seq(Item) /\ Once(c) /\ Belongs(c, hash_key_to_val(k))
        /\ k \in Keys(h) => p \in 1..Len(c) /\ EntryOf(h, k) = c[p] /\ c[p].key = k
        /\ k \notin Keys(h) => \A j \in 1..Len(c) : c[j].key # k
    BY <1>1, ChainOf DEF EntryOf, At
  <1>3. k \in Keys(h) <=> Present(h, k)
    BY DEF Keys
  <1>4. CASE k \in Keys(h)
    <2> DEFINE d == [c EXCEPT ![p].value = v]
    <2>1. g = SetChain(h, k, d, h.length)
      BY <1>3, <1>4 DEF fth_hash_set, At
    <2>2. /\ d \in Seq(Item) /\ Len(d) = Len(c)
          /\ \A j \in 1..Len(c) : d[j] = IF j = p THEN [key |-> c[p].key, value |-> v] ELSE c[j]
      BY <1>2, <1>4, ChangeChain
    <2>3. \A j \in 1..Len(c) : d[j].key = c[j].key
      BY <2>2
    <2>4. Once(d) /\ Belongs(d, hash_key_to_val(k))
      BY <1>2, <2>2, <2>3 DEF Once, Belongs
    <2> HIDE DEF d, c, p, g
    <2>5. /\ Tidy(g) /\ g.length = h.length
          /\ \A x \in Key : Chain(g, x) = IF hash_key_to_val(x) = hash_key_to_val(k) THEN d ELSE Chain(h, x)
      BY <1>1, <2>1, <2>2, <2>4, SetChainIs
    <2>6. ASSUME NEW x \in Key
          PROVE  /\ (x \in Keys(g) <=> x \in Keys(h)) /\ At(g, x) = At(h, x)
                 /\ x \in Keys(h) => EntryOf(g, x).value = IF x = k THEN v ELSE EntryOf(h, x).value
      <3>1. CASE hash_key_to_val(x) # hash_key_to_val(k)
        BY <2>5, <3>1, KeysElsewhere
      <3>2. CASE hash_key_to_val(x) = hash_key_to_val(k)
        <4>1. Chain(g, x) = d /\ Chain(h, x) = c
          BY <2>5, <3>2 DEF Chain, c
        <4>2. Places(d, x) = Places(c, x)
          BY <1>2, <2>2, <2>3 DEF Places
        <4>3. Place(d, x) = Place(c, x)
          BY <4>2 DEF Place
        <4>4. At(g, x) = At(h, x) /\ (x \in Keys(g) <=> x \in Keys(h))
          BY <4>1, <4>3 DEF At, Keys, Present
        <4>5. ASSUME x \in Keys(h)
              PROVE  EntryOf(g, x).value = IF x = k THEN v ELSE EntryOf(h, x).value
          <5>1. EntryOf(g, x) = d[At(h, x)] /\ EntryOf(h, x) = c[At(h, x)]
            BY <4>1, <4>4 DEF EntryOf, At
          <5>2. At(h, x) \in 1..Len(c) /\ c[At(h, x)].key = x
            BY <1>1, <4>1, <4>5, <5>1, ChainOf
          <5>3. At(h, x) = p <=> x = k
            BY <1>2, <1>4, <5>2 DEF p
          <5> QED
            BY <2>2, <5>1, <5>2, <5>3
        <4> QED
          BY <4>4, <4>5
      <3> QED
        BY <3>1, <3>2
    <2>7. Keys(g) = Keys(h)
      BY <2>6 DEF Keys
    <2>8. Keys(h) \cup {k} = Keys(h)
      BY <1>4
    <2>9. Table(g)
      BY <1>1, <2>5, <2>7 DEF Table
    <2>10. Keys(h) \subseteq Key
      BY DEF Keys
    <2> QED
      BY <1>4, <2>6, <2>7, <2>8, <2>9, <2>10 DEF g
  <1>5. CASE k \notin Keys(h)
    <2> DEFINE e == [key |-> k, value |-> v]
               d == <<e>> \o c
    <2>0. e \in Item
      BY DEF Item
    <2>1. g = SetChain(h, k, d, h.length + 1)
      BY <1>3, <1>5 DEF fth_hash_set
    <2>2. /\ d \in Seq(Item) /\ Len(d) = Len(c) + 1 /\ d[1] = e
          /\ \A j \in 1..Len(c) : d[j + 1] = c[j]
          /\ \A j \in 2..(Len(c) + 1) : d[j] = c[j - 1]
      BY <1>2, <2>0, LinkChain
    <2>3. Len(c) \in Nat /\ e.key = k /\ e.value = v
      BY <1>2
    <2> HIDE DEF d, c, p, g, e
    <2>4. \A j \in 1..Len(d) : j = 1 \/ (j \in 2..(Len(c) + 1) /\ j - 1 \in 1..Len(c))
      BY <2>2, <2>3
    <2>5. \A j \in 1..Len(d) : d[j].key = IF j = 1 THEN k ELSE c[j - 1].key
      BY <2>2, <2>3, <2>4
    <2>6. Once(d)
      <3> SUFFICES ASSUME NEW i \in 1..Len(d), NEW j \in 1..Len(d), d[i].key = d[j].key PROVE i = j
        BY DEF Once
      <3>1. CASE i = 1 \/ j = 1
        BY <1>2, <1>5, <2>4, <2>5, <3>1
      <3>2. CASE i # 1 /\ j # 1
        <4>1. c[i - 1].key = c[j - 1].key /\ i - 1 \in 1..Len(c) /\ j - 1 \in 1..Len(c)
          BY <2>4, <2>5, <3>2
        <4>2. i - 1 = j - 1
          BY <1>2, <4>1 DEF Once
        <4> QED
          BY <4>2
      <3> QED
        BY <3>1, <3>2
    <2>7. Belongs(d, hash_key_to_val(k))
      BY <1>2, <2>4, <2>5 DEF Belongs
    <2>8. /\ Tidy(g) /\ g.length = h.length + 1
          /\ \A x \in Key : Chain(g, x) = IF hash_key_to_val(x) = hash_key_to_val(k) THEN d ELSE Chain(h, x)
      <3>1. h.length + 1 \in Nat
        BY <1>1
      <3> QED
        BY <1>1, <2>1, <2>2, <2>6, <2>7, <3>1, SetChainIs
    <2>9. k \in Keys(g) /\ At(g, k) = 1 /\ EntryOf(g, k).value = v
      <3>1. Chain(g, k) = d /\ 1 \in 1..Len(d)
        BY <2>2, <2>3, <2>8
      <3>2. Place(d, k) = 1
        BY <2>2, <2>3, <2>6, <3>1, PlaceOnce
      <3> QED
        BY <2>2, <2>3, <3>1, <3>2 DEF Keys, Present, At, EntryOf
    <2>10. ASSUME NEW x \in Keys(h), hash_key_to_val(x) = hash_key_to_val(k)
           PROVE  x \in Keys(g) /\ At(g, x) = At(h, x) + 1 /\ EntryOf(g, x) = EntryOf(h, x)
                  /\ At(h, x) \in 1..Len(c)
      <3>1. x \in Key /\ Chain(g, x) = d /\ Chain(h, x) = c
        BY <2>8, <2>10 DEF Keys, Chain, c
      <3>2. At(h, x) \in 1..Len(c) /\ EntryOf(h, x) = c[At(h, x)] /\ c[At(h, x)].key = x
        BY <1>1, <3>1, ChainOf DEF EntryOf, At
      <3>3. d[At(h, x) + 1] = c[At(h, x)] /\ At(h, x) + 1 \in 1..Len(d) /\ At(h, x) + 1 # 0
        BY <2>2, <2>3, <3>2
      <3>4. Place(d, x) = At(h, x) + 1
        BY <2>2, <2>6, <3>2, <3>3, PlaceOnce
      <3> QED
        BY <3>1, <3>2, <3>3, <3>4 DEF Keys, Present, At, EntryOf
    <2>11. ASSUME NEW x \in Key, x # k, x \in Keys(g), hash_key_to_val(x) = hash_key_to_val(k)
           PROVE  x \in Keys(h)
      <3>1. Chain(g, x) = d /\ Chain(h, x) = c
        BY <2>8, <2>11 DEF Keys, Chain, c
      <3>2. At(g, x) \in 1..Len(d) /\ d[At(g, x)].key = x
        BY <2>8, <2>11, <3>1, ChainOf DEF EntryOf, At
      <3>3. At(g, x) - 1 \in 1..Len(c) /\ c[At(g, x) - 1].key = x
        BY <2>4, <2>5, <2>11, <3>2
      <3> QED
        BY <1>1, <3>1, <3>3, ChainOf
    <2>12. ASSUME NEW x \in Key, hash_key_to_val(x) # hash_key_to_val(k)
           PROVE  (x \in Keys(g) <=> x \in Keys(h)) /\ At(g, x) = At(h, x) /\ EntryOf(g, x) = EntryOf(h, x)
      BY <2>8, <2>12, KeysElsewhere
    <2>13. Keys(g) = Keys(h) \cup {k}
      <3>1. \A x \in Key : x \in Keys(g) <=> x \in Keys(h) \cup {k}
        BY <2>9, <2>10, <2>11, <2>12
      <3> QED
        BY <3>1 DEF Keys
    <2>14. Table(g)
      <3>1. IsFiniteSet(Keys(g)) /\ Cardinality(Keys(g)) = Cardinality(Keys(h)) + 1
        BY <1>1, <1>5, <2>13, FS_AddElement
      <3> QED
        BY <1>1, <2>8, <3>1 DEF Table
    <2>15. Keys(h) \subseteq Key /\ k \notin Keys(h)
      BY <1>5 DEF Keys
    <2>16. \A x \in Keys(h) \cup {k} : EntryOf(g, x).value = IF x = k THEN v ELSE EntryOf(h, x).value
      BY <2>9, <2>10, <2>12, <2>15
    <2>17. ASSUME NEW x \in Keys(h), NEW y \in Keys(h), hash_key_to_val(x) = hash_key_to_val(y)
           PROVE  At(g, x) <= At(g, y) <=> At(h, x) <= At(h, y)
      <3>1. CASE hash_key_to_val(x) = hash_key_to_val(k)
        <4>1. At(g, x) = At(h, x) + 1 /\ At(g, y) = At(h, y) + 1
          BY <2>10, <2>17, <3>1
        <4>2. At(h, x) \in 1..Len(c) /\ At(h, y) \in 1..Len(c)
          BY <2>10, <2>17, <3>1
        <4>3. At(h, x) \in Nat /\ At(h, y) \in Nat
          BY <2>3, <4>2
        <4> QED
          BY <4>1, <4>3
      <3>2. CASE hash_key_to_val(x) # hash_key_to_val(k)
        BY <2>12, <2>15, <2>17, <3>2
      <3> QED
        BY <3>1, <3>2
    <2>18. \A y \in Keys(h) : hash_key_to_val(k) = hash_key_to_val(y) => At(g, k) <= At(g, y)
      BY <2>3, <2>9, <2>10
    <2> QED
      BY <2>13, <2>14, <2>16, <2>17, <2>18 DEF g
  <1> QED
    BY <1>4, <1>5


\* fth_hash_delete takes the key out and keeps everything else, the order too.
LEMMA DeleteTable ==
    ASSUME NEW h, Table(h), NEW k \in Key
    PROVE  /\ Table(fth_hash_delete(h, k))
           /\ Keys(fth_hash_delete(h, k)) = Keys(h) \ {k}
           /\ \A x \in Keys(h) \ {k} : EntryOf(fth_hash_delete(h, k), x) = EntryOf(h, x)
           /\ \A x, y \in Keys(h) \ {k} : hash_key_to_val(x) = hash_key_to_val(y) =>
                 (At(fth_hash_delete(h, k), x) <= At(fth_hash_delete(h, k), y) <=> At(h, x) <= At(h, y))
  <1> DEFINE c == Chain(h, k)
             p == At(h, k)
             g == fth_hash_delete(h, k)
  <1>1. Tidy(h) /\ IsFiniteSet(Keys(h)) /\ h.length = Cardinality(Keys(h)) /\ h.length \in Nat
    BY DEF Table, Tidy, FHash
  <1>2. /\ c \in Seq(Item) /\ Once(c) /\ Belongs(c, hash_key_to_val(k))
        /\ k \in Keys(h) => p \in 1..Len(c) /\ EntryOf(h, k) = c[p] /\ c[p].key = k
    BY <1>1, ChainOf DEF EntryOf, At
  <1>3. k \in Keys(h) <=> Present(h, k)
    BY DEF Keys
  <1>4. CASE k \notin Keys(h)
    <2>1. g = h
      BY <1>3, <1>4 DEF fth_hash_delete, fth_hash_member_p
    <2>2. Keys(h) \ {k} = Keys(h)
      BY <1>4
    <2> QED
      BY <2>1, <2>2
  <1>5. CASE k \in Keys(h)
    <2> DEFINE d == Unlink(c, p)
    <2>0. h.length > 0 /\ h.length - 1 \in Nat
      <3>1. Cardinality(Keys(h)) # 0
        BY <1>1, <1>5, FS_EmptySet
      <3> QED
        BY <1>1, <3>1
    <2>1. g = SetChain(h, k, d, h.length - 1)
      BY <1>3, <1>5, <2>0 DEF fth_hash_delete, fth_hash_member_p, At
    <2>2. /\ d \in Seq(Item) /\ Len(d) = Len(c) - 1
          /\ \A j \in 1..(Len(c) - 1) : d[j] = IF j < p THEN c[j] ELSE c[j + 1]
      BY <1>2, <1>5, UnlinkChain
    <2>3. Len(c) \in Nat /\ p \in Nat /\ 1 <= p /\ p <= Len(c) /\ c[p].key = k
      BY <1>2, <1>5
    <2> DEFINE up(j) == IF j < p THEN j ELSE j + 1
    <2> HIDE DEF d, c, p, g
    <2>4. \A j \in 1..Len(d) : up(j) \in 1..Len(c) /\ up(j) # p /\ d[j] = c[up(j)]
      BY <2>2, <2>3
    <2>5. \A i, j \in 1..Len(d) : up(i) = up(j) => i = j
      BY <2>2, <2>3
    <2> HIDE DEF up
    <2>6. Once(d)
      BY <1>2, <2>4, <2>5 DEF Once
    <2>7. Belongs(d, hash_key_to_val(k))
      BY <1>2, <2>4 DEF Belongs
    <2>8. /\ Tidy(g) /\ g.length = h.length - 1
          /\ \A x \in Key : Chain(g, x) = IF hash_key_to_val(x) = hash_key_to_val(k) THEN d ELSE Chain(h, x)
      BY <1>1, <2>0, <2>1, <2>2, <2>6, <2>7, SetChainIs
    <2>9. ASSUME NEW x \in Key, hash_key_to_val(x) # hash_key_to_val(k)
          PROVE  (x \in Keys(g) <=> x \in Keys(h)) /\ At(g, x) = At(h, x) /\ EntryOf(g, x) = EntryOf(h, x)
      BY <2>8, <2>9, KeysElsewhere
    <2>10. ASSUME NEW x \in Keys(h), x # k, hash_key_to_val(x) = hash_key_to_val(k)
           PROVE  /\ x \in Keys(g) /\ EntryOf(g, x) = EntryOf(h, x) /\ At(h, x) \in 1..Len(c) /\ At(h, x) # p
                  /\ At(g, x) = IF At(h, x) < p THEN At(h, x) ELSE At(h, x) - 1
      <3>1. x \in Key /\ Chain(g, x) = d /\ Chain(h, x) = c
        BY <2>8, <2>10 DEF Keys, Chain, c
      <3>2. At(h, x) \in 1..Len(c) /\ EntryOf(h, x) = c[At(h, x)] /\ c[At(h, x)].key = x
        BY <1>1, <3>1, ChainOf DEF EntryOf, At
      <3>3. At(h, x) # p
        BY <2>3, <2>10, <3>2
      <3> DEFINE i == IF At(h, x) < p THEN At(h, x) ELSE At(h, x) - 1
      <3>4. i \in 1..Len(d) /\ up(i) = At(h, x) /\ i # 0
        BY <2>2, <2>3, <3>2, <3>3 DEF up
      <3> HIDE DEF i
      <3>5. d[i] = c[At(h, x)]
        BY <2>4, <3>4
      <3>6. Place(d, x) = i
        BY <2>2, <2>6, <3>2, <3>4, <3>5, PlaceOnce
      <3> QED
        BY <3>1, <3>2, <3>3, <3>4, <3>5, <3>6 DEF Keys, Present, At, EntryOf, i
    <2>11. ASSUME NEW x \in Key, x \in Keys(g), hash_key_to_val(x) = hash_key_to_val(k)
           PROVE  x \in Keys(h) /\ x # k
      <3>1. Chain(g, x) = d /\ Chain(h, x) = c
        BY <2>8, <2>11 DEF Keys, Chain, c
      <3>2. At(g, x) \in 1..Len(d) /\ d[At(g, x)].key = x
        BY <2>8, <2>11, <3>1, ChainOf DEF EntryOf, At
      <3>3. up(At(g, x)) \in 1..Len(c) /\ up(At(g, x)) # p /\ c[up(At(g, x))].key = x
        BY <2>4, <3>2
      <3>4. p \in 1..Len(c)
        BY <2>3
      <3> QED
        BY <1>1, <1>2, <2>3, <3>1, <3>3, <3>4, ChainOf DEF Once
    <2>12. Keys(h) \subseteq Key
      BY DEF Keys
    <2>13. Keys(g) = Keys(h) \ {k}
      <3>1. \A x \in Key : x \in Keys(g) <=> x \in Keys(h) \ {k}
        BY <2>9, <2>10, <2>11, <2>12
      <3> QED
        BY <3>1 DEF Keys
    <2>14. Table(g)
      <3>1. IsFiniteSet(Keys(g)) /\ Cardinality(Keys(g)) = Cardinality(Keys(h)) - 1
        BY <1>1, <1>5, <2>13, FS_RemoveElement
      <3> QED
        BY <1>1, <2>8, <3>1 DEF Table
    <2>15. \A x \in Keys(h) \ {k} : EntryOf(g, x) = EntryOf(h, x)
      BY <2>9, <2>10, <2>12
    <2>16. ASSUME NEW x \in Keys(h) \ {k}, NEW y \in Keys(h) \ {k}, hash_key_to_val(x) = hash_key_to_val(y)
           PROVE  At(g, x) <= At(g, y) <=> At(h, x) <= At(h, y)
      <3>1. CASE hash_key_to_val(x) = hash_key_to_val(k)
        <4>1. /\ At(g, x) = IF At(h, x) < p THEN At(h, x) ELSE At(h, x) - 1
              /\ At(g, y) = IF At(h, y) < p THEN At(h, y) ELSE At(h, y) - 1
          BY <2>10, <2>16, <3>1
        <4>2. /\ At(h, x) \in 1..Len(c) /\ At(h, x) # p
              /\ At(h, y) \in 1..Len(c) /\ At(h, y) # p
          BY <2>10, <2>16, <3>1
        <4>3. At(h, x) \in Nat /\ At(h, y) \in Nat
          BY <2>3, <4>2
        <4> QED
          BY <2>3, <4>1, <4>2, <4>3
      <3>2. CASE hash_key_to_val(x) # hash_key_to_val(k)
        BY <2>9, <2>12, <2>16, <3>2
      <3> QED
        BY <3>1, <3>2
    <2> QED
      BY <2>13, <2>14, <2>15, <2>16 DEF g
  <1> QED
    BY <1>4, <1>5

\* A new hash has no keys, and a hash of length 0 has none: a clear of it does nothing.
LEMMA EmptyTable ==
    /\ Table(make_hash) /\ Keys(make_hash) = {}
    /\ \A h : Table(h) => (h.length = 0 <=> Keys(h) = {})
    /\ \A h : Table(h) => Table(fth_hash_clear(h)) /\ Keys(fth_hash_clear(h)) = {}
  <1>1. make_hash.data = [b \in Buckets |-> <<>>] /\ make_hash.length = 0 /\ make_hash \in FHash
    BY DEF make_hash, FHash
  <1>2. Tidy(make_hash)
    BY <1>1 DEF Tidy, Once, Belongs
  <1>3. Keys(make_hash) = {}
    <2> SUFFICES ASSUME NEW k \in Keys(make_hash) PROVE FALSE
      OBVIOUS
    <2>1. k \in Key /\ Chain(make_hash, k) = <<>>
      BY <1>1, BucketOf DEF Keys, Chain
    <2>2. At(make_hash, k) \in 1..Len(Chain(make_hash, k))
      BY <1>2, <2>1, ChainOf
    <2> QED
      BY <2>1, <2>2
  <1>4. Table(make_hash)
    BY <1>1, <1>2, <1>3, FS_EmptySet DEF Table
  <1>5. \A h : Table(h) => (h.length = 0 <=> Keys(h) = {})
    BY FS_EmptySet DEF Table
  <1>6. ASSUME NEW h, Table(h)
        PROVE  Table(fth_hash_clear(h)) /\ Keys(fth_hash_clear(h)) = {}
    <2>1. h.length \in Nat
      BY <1>6 DEF Table, Tidy, FHash
    <2>2. CASE h.length > 0
      BY <1>3, <1>4, <2>2 DEF fth_hash_clear
    <2>3. CASE ~(h.length > 0)
      BY <1>5, <1>6, <2>1, <2>3 DEF fth_hash_clear
    <2> QED
      BY <2>2, <2>3
  <1> QED
    BY <1>3, <1>4, <1>5, <1>6

\* So the lookups that do not look when the length is 0 find what is there.
LEMMA MemberIs ==
    ASSUME NEW h, Table(h), NEW k \in Key
    PROVE  fth_hash_member_p(h, k) <=> k \in Keys(h)
  <1>1. h.length \in Nat
    BY DEF Table, Tidy, FHash
  <1>2. k \in Keys(h) => h.length # 0
    BY EmptyTable
  <1> QED
    BY <1>1, <1>2 DEF fth_hash_member_p, Keys


-----------------------------------------------------------------------------
(* The entries of a hash in the order of a walk. *)

\* What Entries goes through: upto[b] is what the chains before bucket b hold.
Runs(h, n, f) == f = [b \in 0..n |-> IF b = 0 THEN <<>> ELSE f[b - 1] \o h.data[b - 1]]

\* The recursion in Entries has a solution.
LEMMA EntriesRuns ==
    ASSUME NEW h
    PROVE  \E f : Runs(h, HashSize, f) /\ Entries(h) = f[HashSize]
  <1> DEFINE P == {n \in Nat : \E f : Runs(h, n, f)}
  <1>1. 0 \in P
    <2> DEFINE f == [b \in 0..0 |-> <<>>]
    <2>1. Runs(h, 0, f)
      BY DEF Runs
    <2> QED
      BY <2>1
  <1>2. ASSUME NEW n \in P PROVE n + 1 \in P
    <2>1. PICK f : Runs(h, n, f)
      BY <1>2
    <2> DEFINE g == [b \in 0..(n + 1) |-> IF b = n + 1 THEN f[n] \o h.data[n] ELSE f[b]]
    <2>2. n \in Nat
      OBVIOUS
    <2>3. \A b \in 0..n : f[b] = IF b = 0 THEN <<>> ELSE f[b - 1] \o h.data[b - 1]
      BY <2>1 DEF Runs
    <2>4. ASSUME NEW b \in 0..(n + 1)
          PROVE  g[b] = IF b = 0 THEN <<>> ELSE g[b - 1] \o h.data[b - 1]
      <3>1. CASE b = n + 1
        <4>1. b # 0 /\ b - 1 = n /\ n \in 0..(n + 1) /\ n # n + 1
          BY <2>2, <3>1
        <4> QED
          BY <3>1, <4>1
      <3>2. CASE b # n + 1 /\ b # 0
        <4>1. b \in 0..n /\ b - 1 \in 0..(n + 1) /\ b - 1 # n + 1
          BY <2>2, <3>2
        <4> QED
          BY <2>3, <3>2, <4>1
      <3>3. CASE b # n + 1 /\ b = 0
        BY <2>2, <2>3, <3>3
      <3> QED
        BY <3>1, <3>2, <3>3
    <2>5. g = [b \in 0..(n + 1) |-> g[b]]
      OBVIOUS
    <2> HIDE DEF g
    <2>6. Runs(h, n + 1, g)
      BY <2>4, <2>5 DEF Runs
    <2> QED
      BY <2>2, <2>6
  <1>3. HashSize \in P
    <2> HIDE DEF P
    <2>1. P \in SUBSET Nat
      BY DEF P
    <2> QED
      BY <1>1, <1>2, <2>1, Upward, HashAssumption
  <1>4. \E f : Runs(h, HashSize, f)
    BY <1>3
  <1> DEFINE u == CHOOSE f : Runs(h, HashSize, f)
  <1>5. Runs(h, HashSize, u)
    BY <1>4
  <1>6. Entries(h) = u[HashSize]
    BY DEF Entries, Runs
  <1> QED
    BY <1>5, <1>6


\* s has the entries of h for the keys in K, each once.
Lists(h, s, K) ==
    /\ s \in Seq(Item) /\ Once(s)
    /\ \A i \in 1..Len(s) : s[i].key \in K /\ EntryOf(h, s[i].key) = s[i]
    /\ \A k \in K : \E i \in 1..Len(s) : s[i].key = k

\* Entries goes through each entry once.
LEMMA EntriesList ==
    ASSUME NEW h, Tidy(h)
    PROVE  Lists(h, Entries(h), Keys(h))
  <1> DEFINE Below(b) == {k \in Keys(h) : hash_key_to_val(k) < b}
  <1>0. HashSize \in Nat /\ \A b \in Nat : b < HashSize => b \in Buckets
    BY HashAssumption DEF Buckets
  <1>1. PICK f : Runs(h, HashSize, f) /\ Entries(h) = f[HashSize]
    BY EntriesRuns
  <1>2. \A b \in 0..HashSize : f[b] = IF b = 0 THEN <<>> ELSE f[b - 1] \o h.data[b - 1]
    BY <1>1 DEF Runs
  <1>3. \A k \in Keys(h) : k \in Key /\ hash_key_to_val(k) \in Nat /\ hash_key_to_val(k) < HashSize
    BY <1>0, BucketOf DEF Keys, Buckets
  <1> DEFINE P == {n \in Nat : n <= HashSize => Lists(h, f[n], Below(n))}
  <1>4. 0 \in P
    <2>1. f[0] = <<>>
      BY <1>0, <1>2
    <2>2. Below(0) = {}
      BY <1>3
    <2>3. Lists(h, <<>>, {})
      BY DEF Lists, Once
    <2> QED
      BY <2>1, <2>2, <2>3
  <1>5. ASSUME NEW n \in P PROVE n + 1 \in P
    <2>1. n \in Nat /\ n + 1 \in Nat
      OBVIOUS
    <2> SUFFICES ASSUME n + 1 <= HashSize PROVE Lists(h, f[n + 1], Below(n + 1))
      BY <2>1
    <2> DEFINE a == f[n]
               c == h.data[n]
               s == a \o c
    <2>2. n <= HashSize /\ n < HashSize /\ n \in Buckets
      BY <1>0, <2>1
    <2>3. Lists(h, a, Below(n))
      BY <2>2
    <2>4. f[n + 1] = s
      <3>1. n + 1 \in 0..HashSize /\ n + 1 # 0 /\ (n + 1) - 1 = n
        BY <1>0, <2>1
      <3> QED
        BY <1>2, <3>1
    <2>5. c \in Seq(Item) /\ Once(c)
      BY <2>2 DEF Tidy, FHash
    <2>6. \A j \in 1..Len(c) : c[j].key \in Keys(h) /\ hash_key_to_val(c[j].key) = n /\ EntryOf(h, c[j].key) = c[j]
      BY <2>2, EntryAt
    <2>7. a \in Seq(Item) /\ Once(a)
          /\ (\A i \in 1..Len(a) : a[i].key \in Below(n) /\ EntryOf(h, a[i].key) = a[i])
          /\ \A k \in Below(n) : \E i \in 1..Len(a) : a[i].key = k
      BY <2>3 DEF Lists
    <2>8. Len(a) \in Nat /\ Len(c) \in Nat
      BY <2>5, <2>7
    <2> HIDE DEF a, c
    <2>9. s \in Seq(Item) /\ Len(s) = Len(a) + Len(c)
          /\ (\A i \in 1..Len(a) : s[i] = a[i])
          /\ \A i \in 1..Len(s) : i > Len(a) => s[i] = c[i - Len(a)]
      <3>1. s \in Seq(Item) /\ Len(s) = Len(a) + Len(c)
        BY <2>5, <2>7, <2>8
      <3>2. \A i \in 1..Len(s) : s[i] = IF i <= Len(a) THEN a[i] ELSE c[i - Len(a)]
        BY <2>5, <2>7, <2>8, <3>1
      <3> HIDE DEF s
      <3>3. \A i \in 1..Len(a) : i \in 1..Len(s) /\ i <= Len(a)
        BY <2>8, <3>1
      <3>4. \A i \in 1..Len(s) : i > Len(a) => ~(i <= Len(a))
        BY <2>8, <3>1
      <3> QED
        BY <3>1, <3>2, <3>3, <3>4
    <2> HIDE DEF s
    <2>10. \A i \in 1..Len(s) : (i \in 1..Len(a) /\ s[i] = a[i])
                                \/ (i - Len(a) \in 1..Len(c) /\ i > Len(a) /\ s[i] = c[i - Len(a)])
      BY <2>8, <2>9
    <2>11. \A k \in Below(n) : hash_key_to_val(k) \in Nat /\ hash_key_to_val(k) < n
      BY <1>3
    <2>12. Once(s)
      <3> SUFFICES ASSUME NEW i \in 1..Len(s), NEW j \in 1..Len(s), s[i].key = s[j].key PROVE i = j
        BY DEF Once
      <3>1. CASE i \in 1..Len(a) /\ s[i] = a[i] /\ j \in 1..Len(a) /\ s[j] = a[j]
        BY <2>7, <3>1 DEF Once
      <3>2. CASE i - Len(a) \in 1..Len(c) /\ s[i] = c[i - Len(a)] /\ j - Len(a) \in 1..Len(c) /\ s[j] = c[j - Len(a)]
        <4>1. i - Len(a) = j - Len(a)
          BY <2>5, <3>2 DEF Once
        <4>2. i \in Int /\ j \in Int
          OBVIOUS
        <4> QED
          BY <2>8, <4>1, <4>2
      <3>3. CASE i \in 1..Len(a) /\ s[i] = a[i] /\ j - Len(a) \in 1..Len(c) /\ s[j] = c[j - Len(a)]
        <4>1. hash_key_to_val(s[i].key) \in Nat /\ hash_key_to_val(s[i].key) < n
          BY <2>7, <2>11, <3>3
        <4>2. hash_key_to_val(s[j].key) = n
          BY <2>6, <3>3
        <4> QED
          BY <2>1, <4>1, <4>2
      <3>4. CASE i - Len(a) \in 1..Len(c) /\ s[i] = c[i - Len(a)] /\ j \in 1..Len(a) /\ s[j] = a[j]
        <4>1. hash_key_to_val(s[j].key) \in Nat /\ hash_key_to_val(s[j].key) < n
          BY <2>7, <2>11, <3>4
        <4>2. hash_key_to_val(s[i].key) = n
          BY <2>6, <3>4
        <4> QED
          BY <2>1, <4>1, <4>2
      <3> QED
        BY <2>10, <3>1, <3>2, <3>3, <3>4
    <2>13. \A k \in Keys(h) : k \in Below(n + 1) <=> k \in Below(n) \/ hash_key_to_val(k) = n
      BY <1>3, <2>1
    <2>14. \A i \in 1..Len(s) : s[i].key \in Below(n + 1) /\ EntryOf(h, s[i].key) = s[i]
      <3> SUFFICES ASSUME NEW i \in 1..Len(s) PROVE s[i].key \in Below(n + 1) /\ EntryOf(h, s[i].key) = s[i]
        OBVIOUS
      <3>0. Below(n) \subseteq Keys(h)
        OBVIOUS
      <3>1. CASE i \in 1..Len(a) /\ s[i] = a[i]
        <4> HIDE DEF Below
        <4> QED
          BY <2>7, <2>13, <3>0, <3>1
      <3>2. CASE i - Len(a) \in 1..Len(c) /\ s[i] = c[i - Len(a)]
        <4> HIDE DEF Below
        <4> QED
          BY <2>6, <2>13, <3>2
      <3> QED
        BY <2>10, <3>1, <3>2
    <2>15. ASSUME NEW k \in Below(n + 1) PROVE \E i \in 1..Len(s) : s[i].key = k
      <3>0. k \in Keys(h)
        OBVIOUS
      <3>1. CASE k \in Below(n)
        <4>1. PICK i \in 1..Len(a) : a[i].key = k
          BY <2>7, <3>1
        <4>2. i \in 1..Len(s) /\ s[i] = a[i]
          BY <2>8, <2>9
        <4> QED
          BY <4>1, <4>2
      <3>2. CASE hash_key_to_val(k) = n
        <4>1. Chain(h, k) = c /\ k \in Key
          BY <1>3, <3>0, <3>2 DEF Chain, c
        <4>2. PICK j \in 1..Len(c) : c[j].key = k
          BY <3>0, <4>1, ChainOf DEF EntryOf, At
        <4>3. j + Len(a) \in 1..Len(s) /\ j + Len(a) > Len(a) /\ (j + Len(a)) - Len(a) = j
          BY <2>8, <2>9
        <4>4. s[j + Len(a)] = c[j]
          BY <2>9, <4>3
        <4> QED
          BY <4>2, <4>3, <4>4
      <3> QED
        BY <2>13, <3>0, <3>1, <3>2
    <2> QED
      BY <2>4, <2>9, <2>12, <2>14, <2>15 DEF Lists
  <1>6. HashSize \in P
    <2> HIDE DEF P
    <2>1. P \in SUBSET Nat
      BY DEF P
    <2> QED
      BY <1>0, <1>4, <1>5, <2>1, Upward
  <1>7. Lists(h, f[HashSize], Below(HashSize))
    BY <1>0, <1>6
  <1>8. Below(HashSize) = Keys(h)
    BY <1>3
  <1> QED
    BY <1>1, <1>7, <1>8

\* So a hash has as many keys as entries.
LEMMA EntriesCount ==
    ASSUME NEW h, Tidy(h)
    PROVE  IsFiniteSet(Keys(h)) /\ Len(Entries(h)) = Cardinality(Keys(h))
  <1> DEFINE s == Entries(h)
             f == [i \in 1..Len(s) |-> s[i].key]
  <1>1. Lists(h, s, Keys(h))
    BY EntriesList
  <1>2. Len(s) \in Nat /\ Once(s)
    BY <1>1 DEF Lists
  <1> HIDE DEF s
  <1>3. f \in [1..Len(s) -> Keys(h)]
    BY <1>1 DEF Lists
  <1>4. \A i, j \in 1..Len(s) : f[i] = f[j] => i = j
    BY <1>2 DEF Once
  <1>5. \A k \in Keys(h) : \E i \in 1..Len(s) : f[i] = k
    BY <1>1 DEF Lists
  <1> HIDE DEF f
  <1>6. f \in Bijection(1..Len(s), Keys(h))
    BY <1>3, <1>4, <1>5 DEF Bijection, Injection, Surjection, IsInjective
  <1>7. ExistsBijection(1..Len(s), Keys(h))
    BY <1>6 DEF ExistsBijection
  <1>8. IsFiniteSet(1..Len(s)) /\ Cardinality(1..Len(s)) = Len(s)
    <2> DEFINE n == Len(s)
    <2>1. n \in Nat /\ 1 \in Int /\ n \in Int
      BY <1>2
    <2> HIDE DEF n
    <2>2. IsFiniteSet(1..n) /\ Cardinality(1..n) = IF 1 > n THEN 0 ELSE n - 1 + 1
      BY <2>1, FS_Interval
    <2>3. Cardinality(1..n) = n
      BY <2>1, <2>2
    <2> QED
      BY <2>2, <2>3 DEF n
  <1> QED
    BY <1>7, <1>8, FS_Bijection DEF s


-----------------------------------------------------------------------------
(* Hashes made from entries: hash-copy and >hash. *)

\* What SetAll goes through: upto[n] has the first n entries of s.
SetRuns(h, s, n, f) == f = [m \in 0..n |-> IF m = 0 THEN h ELSE fth_hash_set(f[m - 1], s[m].key, s[m].value)]

\* The recursion in SetAll has a solution.
LEMMA SetAllRuns ==
    ASSUME NEW h, NEW s, Len(s) \in Nat
    PROVE  \E f : SetRuns(h, s, Len(s), f) /\ SetAll(h, s) = f[Len(s)]
  <1> DEFINE P == {n \in Nat : \E f : SetRuns(h, s, n, f)}
  <1>1. 0 \in P
    <2> DEFINE f == [m \in 0..0 |-> h]
    <2>1. SetRuns(h, s, 0, f)
      BY DEF SetRuns
    <2> QED
      BY <2>1
  <1>2. ASSUME NEW n \in P PROVE n + 1 \in P
    <2>1. PICK f : SetRuns(h, s, n, f)
      BY <1>2
    <2> DEFINE g == [m \in 0..(n + 1) |->
                        IF m = n + 1 THEN fth_hash_set(f[n], s[n + 1].key, s[n + 1].value) ELSE f[m]]
    <2>2. n \in Nat
      OBVIOUS
    <2>3. \A m \in 0..n : f[m] = IF m = 0 THEN h ELSE fth_hash_set(f[m - 1], s[m].key, s[m].value)
      BY <2>1 DEF SetRuns
    <2>4. ASSUME NEW m \in 0..(n + 1)
          PROVE  g[m] = IF m = 0 THEN h ELSE fth_hash_set(g[m - 1], s[m].key, s[m].value)
      <3>1. CASE m = n + 1
        <4>1. m # 0 /\ m - 1 = n /\ n \in 0..(n + 1) /\ n # n + 1
          BY <2>2, <3>1
        <4> QED
          BY <3>1, <4>1
      <3>2. CASE m # n + 1 /\ m # 0
        <4>1. m \in 0..n /\ m - 1 \in 0..(n + 1) /\ m - 1 # n + 1
          BY <2>2, <3>2
        <4> QED
          BY <2>3, <3>2, <4>1
      <3>3. CASE m # n + 1 /\ m = 0
        BY <2>2, <2>3, <3>3
      <3> QED
        BY <3>1, <3>2, <3>3
    <2>5. g = [m \in 0..(n + 1) |-> g[m]]
      OBVIOUS
    <2> HIDE DEF g
    <2>6. SetRuns(h, s, n + 1, g)
      BY <2>4, <2>5 DEF SetRuns
    <2> QED
      BY <2>2, <2>6
  <1>3. Len(s) \in P
    <2> HIDE DEF P
    <2>1. P \in SUBSET Nat
      BY DEF P
    <2> QED
      BY <1>1, <1>2, <2>1, Upward
  <1>4. \E f : SetRuns(h, s, Len(s), f)
    BY <1>3
  <1> DEFINE u == CHOOSE f : SetRuns(h, s, Len(s), f)
  <1>5. SetRuns(h, s, Len(s), u)
    BY <1>4
  <1>6. SetAll(h, s) = u[Len(s)]
    BY DEF SetAll, SetRuns
  <1> QED
    BY <1>5, <1>6

\* g is a hash of the keys K with the values they have in h.
Copies(g, h, K) == Table(g) /\ Keys(g) = K /\ \A k \in K : EntryOf(g, k).value = EntryOf(h, k).value

\* The copy of a hash has its keys and values.
LEMMA CopyTable ==
    ASSUME NEW h, Table(h)
    PROVE  Copies(hs_copy(h), h, Keys(h))
  <1> DEFINE s == Entries(h)
             First(n) == {s[i].key : i \in 1..n}
  <1>0. Tidy(h) /\ h.length \in Nat
    BY DEF Table, Tidy, FHash
  <1>1. Lists(h, s, Keys(h))
    BY <1>0, EntriesList
  <1>2. CASE h.length = 0
    <2>1. Keys(h) = {} /\ hs_copy(h) = make_hash
      BY <1>2, EmptyTable DEF hs_copy
    <2> QED
      BY <2>1, EmptyTable DEF Copies
  <1>3. CASE h.length # 0
    <2>1. hs_copy(h) = SetAll(make_hash, s)
      BY <1>0, <1>3 DEF hs_copy
    <2>2. Len(s) \in Nat
      BY <1>1 DEF Lists
    <2> HIDE DEF s
    <2>3. PICK f : SetRuns(make_hash, s, Len(s), f) /\ SetAll(make_hash, s) = f[Len(s)]
      BY <2>2, SetAllRuns
    <2>4. \A m \in 0..Len(s) : f[m] = IF m = 0 THEN make_hash ELSE fth_hash_set(f[m - 1], s[m].key, s[m].value)
      BY <2>3 DEF SetRuns
    <2> DEFINE P == {n \in Nat : n <= Len(s) => Copies(f[n], h, First(n))}
    <2>5. 0 \in P
      <3>1. f[0] = make_hash
        BY <2>2, <2>4
      <3>2. First(0) = {}
        OBVIOUS
      <3>3. Copies(make_hash, h, {})
        BY EmptyTable DEF Copies
      <3> QED
        BY <3>1, <3>2, <3>3
    <2>6. ASSUME NEW n \in P PROVE n + 1 \in P
      <3>1. n \in Nat /\ n + 1 \in Nat
        OBVIOUS
      <3> SUFFICES ASSUME n + 1 <= Len(s) PROVE Copies(f[n + 1], h, First(n + 1))
        BY <3>1
      <3>2. n <= Len(s) /\ n + 1 \in 1..Len(s) /\ n + 1 \in 0..Len(s) /\ n + 1 # 0 /\ (n + 1) - 1 = n
        BY <2>2, <3>1
      <3>3. Copies(f[n], h, First(n))
        BY <3>2
      <3> DEFINE e == s[n + 1]
      <3>4. f[n + 1] = fth_hash_set(f[n], e.key, e.value)
        BY <2>4, <3>2
      <3>5. e \in Item /\ EntryOf(h, e.key) = e
        BY <1>1, <3>2 DEF Lists
      <3>6. e.key \in Key /\ e.value \in Val
        BY <3>5 DEF Item
      <3>7. First(n + 1) = First(n) \cup {e.key}
        <4>1. \A i \in 1..(n + 1) : i \in 1..n \/ i = n + 1
          BY <3>1
        <4>2. \A i \in 1..n : i \in 1..(n + 1)
          BY <3>1
        <4>3. n + 1 \in 1..(n + 1)
          BY <3>1
        <4> QED
          BY <4>1, <4>2, <4>3
      <3> HIDE DEF e, First, P
      <3>8. Table(f[n]) /\ Keys(f[n]) = First(n) /\ \A k \in First(n) : EntryOf(f[n], k).value = EntryOf(h, k).value
        BY <3>3 DEF Copies
      <3>9. /\ Table(f[n + 1]) /\ Keys(f[n + 1]) = First(n) \cup {e.key}
            /\ \A x \in First(n) \cup {e.key} : EntryOf(f[n + 1], x).value =
                  IF x = e.key THEN e.value ELSE EntryOf(f[n], x).value
        BY <3>4, <3>6, <3>8, SetTable
      <3> QED
        BY <3>5, <3>7, <3>8, <3>9 DEF Copies
    <2>7. Len(s) \in P
      <3> HIDE DEF P
      <3>1. P \in SUBSET Nat
        BY DEF P
      <3> QED
        BY <2>2, <2>5, <2>6, <3>1, Upward
    <2>8. Copies(f[Len(s)], h, First(Len(s)))
      BY <2>2, <2>7
    <2>9. First(Len(s)) = Keys(h)
      BY <1>1 DEF Lists
    <2> QED
      BY <2>1, <2>3, <2>8, <2>9
  <1> QED
    BY <1>2, <1>3

\* And hash= finds the two equal.
LEMMA CopyEqual ==
    ASSUME NEW h, Table(h)
    PROVE  hs_equal_p(hs_copy(h), h)
  <1> DEFINE g == hs_copy(h)
             s == Entries(g)
  <1>1. Table(g) /\ Keys(g) = Keys(h) /\ \A k \in Keys(h) : EntryOf(g, k).value = EntryOf(h, k).value
    BY CopyTable DEF Copies
  <1>2. Lists(g, s, Keys(h)) /\ g.length = h.length
    BY <1>1, EntriesList DEF Table
  <1> HIDE DEF g, s
  <1>3. ASSUME NEW i \in DOMAIN s
        PROVE  fth_hash_member_p(h, s[i].key) /\ fth_hash_find(h, s[i].key)[2] = s[i].value
    <2>1. s[i].key \in Keys(h) /\ EntryOf(g, s[i].key) = s[i]
      BY <1>2 DEF Lists
    <2>2. s[i].key \in Key
      BY <2>1 DEF Keys
    <2>3. fth_hash_member_p(h, s[i].key)
      BY <2>1, <2>2, MemberIs
    <2> QED
      BY <1>1, <2>1, <2>3 DEF fth_hash_find
  <1> QED
    BY <1>2, <1>3 DEF hs_equal_p, g, s

\* >hash of two pairs: the last one is set first, so the first counts.
LEMMA ValuesTable ==
    ASSUME NEW k1 \in Key, NEW k2 \in Key, NEW v1 \in Val, NEW v2 \in Val
    PROVE  LET g == ficl_values_to_hash(<<<<k1, v1>>, <<k2, v2>>>>)
           IN  /\ Table(g) /\ Keys(g) = {k1, k2}
               /\ \A k \in {k1, k2} : EntryOf(g, k).value = IF k = k1 THEN v1 ELSE v2
  <1> DEFINE s == <<[key |-> k2, value |-> v2], [key |-> k1, value |-> v1]>>
             g == ficl_values_to_hash(<<<<k1, v1>>, <<k2, v2>>>>)
  <1>1. g = SetAll(make_hash, s)
    <2> DEFINE p == <<<<k1, v1>>, <<k2, v2>>>>
               t == [i \in DOMAIN p |-> [key |-> p[Len(p) + 1 - i][1], value |-> p[Len(p) + 1 - i][2]]]
    <2>1. t = s
      OBVIOUS
    <2>2. g = SetAll(make_hash, t)
      BY DEF ficl_values_to_hash
    <2> QED
      BY <2>1, <2>2
  <1>2. Len(s) = 2 /\ s[1] = [key |-> k2, value |-> v2] /\ s[2] = [key |-> k1, value |-> v1]
    OBVIOUS
  <1> HIDE DEF s, g
  <1>3. PICK f : SetRuns(make_hash, s, 2, f) /\ SetAll(make_hash, s) = f[2]
    <2>1. Len(s) \in Nat
      BY <1>2
    <2>2. \E f : SetRuns(make_hash, s, Len(s), f) /\ SetAll(make_hash, s) = f[Len(s)]
      BY <2>1, SetAllRuns
    <2> QED
      BY <1>2, <2>2
  <1>4. \A m \in 0..2 : f[m] = IF m = 0 THEN make_hash ELSE fth_hash_set(f[m - 1], s[m].key, s[m].value)
    BY <1>3 DEF SetRuns
  <1>5. f[0] = make_hash
    BY <1>4
  <1>6. f[1] = fth_hash_set(make_hash, k2, v2)
    BY <1>2, <1>4, <1>5
  <1>7. f[2] = fth_hash_set(f[1], k1, v1)
    BY <1>2, <1>4
  <1>8. Table(f[1]) /\ Keys(f[1]) = {k2} /\ EntryOf(f[1], k2).value = v2
    BY <1>6, EmptyTable, SetTable
  <1>9. Table(f[2]) /\ Keys(f[2]) = {k1, k2}
        /\ \A k \in {k1, k2} : EntryOf(f[2], k).value = IF k = k1 THEN v1 ELSE v2
    BY <1>7, <1>8, SetTable
  <1> QED
    BY <1>1, <1>3, <1>9 DEF g


-----------------------------------------------------------------------------
(* The hash is a map. *)

\* The map a hash stands for: that of the refinement.
MapOf(h) == [k \in {x \in Key : Present(h, x)} |-> EntryOf(h, k).value]

\* The domain of that map, and what it gives.
LEMMA MapIs ==
    ASSUME NEW h
    PROVE  DOMAIN MapOf(h) = Keys(h) /\ \A k \in Keys(h) : MapOf(h)[k] = EntryOf(h, k).value
  BY DEF MapOf, Keys

\* A new hash is the empty map.
LEMMA InitRefines == Init => Abstract!Init
  <1> SUFFICES ASSUME Init PROVE Abstract!Init
    OBVIOUS
  <1>1. hash = make_hash /\ result = <<"ok">>
    BY DEF Init
  <1>2. MapOf(hash) = [k \in {} |-> False]
    BY <1>1, EmptyTable, MapIs DEF MapOf, Keys
  <1> QED
    BY <1>1, <1>2 DEF Abstract!Init, Abstract!Empty, MapOf

\* hash-set! adds a pair or changes one.
LEMMA SetRefines ==
    ASSUME Table(hash), NEW k \in Key, NEW v \in Val, Set(k, v)
    PROVE  Abstract!Set(k, v)
  <1>1. hash' = fth_hash_set(hash, k, v) /\ result' = <<"set">>
    BY DEF Set
  <1>2. Keys(hash') = Keys(hash) \cup {k}
        /\ \A x \in Keys(hash) \cup {k} : EntryOf(hash', x).value = IF x = k THEN v ELSE EntryOf(hash, x).value
    BY <1>1, SetTable
  <1>3. MapOf(hash') = [x \in DOMAIN MapOf(hash) \cup {k} |-> IF x = k THEN v ELSE MapOf(hash)[x]]
    BY <1>2, MapIs DEF MapOf, Keys
  <1> QED
    BY <1>1, <1>3 DEF Abstract!Set, Abstract!With, MapOf


\* hash-find gives the pair of a key that is there.
LEMMA FindIs ==
    ASSUME NEW h, Table(h), NEW k \in Key
    PROVE  fth_hash_find(h, k) = IF k \in DOMAIN MapOf(h) THEN <<k, MapOf(h)[k]>> ELSE False
  <1>1. fth_hash_member_p(h, k) <=> k \in Keys(h)
    BY MemberIs
  <1>2. k \in Keys(h) => EntryOf(h, k).key = k
    BY ChainOf DEF Table
  <1> QED
    BY <1>1, <1>2, MapIs DEF fth_hash_find

\* hash-delete, hash-clear.
LEMMA DeleteRefines ==
    ASSUME Table(hash), NEW k \in Key, Delete(k)
    PROVE  Abstract!Delete(k)
  <1>1. hash' = fth_hash_delete(hash, k) /\ result' = <<"delete", fth_hash_find(hash, k)>>
    BY DEF Delete
  <1>2. Keys(hash') = Keys(hash) \ {k} /\ \A x \in Keys(hash) \ {k} : EntryOf(hash', x) = EntryOf(hash, x)
    BY <1>1, DeleteTable
  <1>3. MapOf(hash') = [x \in DOMAIN MapOf(hash) \ {k} |-> MapOf(hash)[x]]
    BY <1>2, MapIs DEF MapOf, Keys
  <1>4. fth_hash_find(hash, k) = IF k \in DOMAIN MapOf(hash) THEN <<k, MapOf(hash)[k]>> ELSE False
    BY FindIs
  <1> QED
    BY <1>1, <1>3, <1>4 DEF Abstract!Delete, Abstract!Pair, Abstract!Has, Abstract!Without, MapOf

\* hash-clear leaves the empty map.
LEMMA ClearRefines ==
    ASSUME Table(hash), Clear
    PROVE  Abstract!Clear
  <1>1. hash' = fth_hash_clear(hash) /\ result' = <<"clear">>
    BY DEF Clear
  <1>2. Keys(hash') = {}
    BY <1>1, EmptyTable
  <1>3. MapOf(hash') = [k \in {} |-> False]
    BY <1>2, MapIs DEF MapOf, Keys
  <1> QED
    BY <1>1, <1>3 DEF Abstract!Clear, Abstract!Empty, MapOf

\* The words that only look: hash-ref, hash-find, hash-member?.
LEMMA LookRefines ==
    ASSUME Table(hash), NEW k \in Key, Ref(k) \/ Find(k) \/ Member(k)
    PROVE  Abstract!Ref(k) \/ Abstract!Find(k) \/ Abstract!Member(k)
  <1>1. UNCHANGED hash
    BY DEF Ref, Find, Member, Answers
  <1>2. MapOf(hash') = MapOf(hash)
    BY <1>1 DEF MapOf
  <1>3. CASE Ref(k)
    <2>1. result' = <<"ref", fth_hash_ref(hash, k)>>
      BY <1>3 DEF Ref, Answers
    <2>2. fth_hash_ref(hash, k) = IF k \in DOMAIN MapOf(hash) THEN MapOf(hash)[k] ELSE False
      BY MapIs DEF fth_hash_ref, Keys
    <2> QED
      BY <1>2, <2>1, <2>2 DEF Abstract!Ref, Abstract!Asks, Abstract!Has, MapOf
  <1>4. CASE Find(k)
    <2>1. result' = <<"find", fth_hash_find(hash, k)>>
      BY <1>4 DEF Find, Answers
    <2>2. fth_hash_find(hash, k) = IF k \in DOMAIN MapOf(hash) THEN <<k, MapOf(hash)[k]>> ELSE False
      BY FindIs
    <2> QED
      BY <1>2, <2>1, <2>2 DEF Abstract!Find, Abstract!Asks, Abstract!Pair, Abstract!Has, MapOf
  <1>5. CASE Member(k)
    <2>1. result' = <<"member", fth_hash_member_p(hash, k)>>
      BY <1>5 DEF Member, Answers
    <2>2. fth_hash_member_p(hash, k) = (k \in DOMAIN MapOf(hash))
      BY MemberIs, MapIs DEF fth_hash_member_p
    <2> QED
      BY <1>2, <2>1, <2>2 DEF Abstract!Member, Abstract!Asks, Abstract!Has, MapOf
  <1> QED
    BY <1>3, <1>4, <1>5

\* hash->array gives each key with its value, once.
LEMMA ToArrayRefines ==
    ASSUME Table(hash), ToArray
    PROVE  Abstract!ToArray
  <1> DEFINE e == Entries(hash)
             s == [i \in DOMAIN e |-> e[i].key]
             m == MapOf(hash)
  <1>1. result' = <<"array", hs_to_array(hash)>> /\ UNCHANGED hash
    BY DEF ToArray, Answers
  <1>2. Lists(hash, e, Keys(hash)) /\ Len(e) = Cardinality(Keys(hash))
    BY EntriesList, EntriesCount DEF Table
  <1>3. DOMAIN e = 1..Cardinality(DOMAIN m)
    BY <1>2, MapIs DEF Lists
  <1>4. hs_to_array(hash) = [i \in DOMAIN e |-> <<e[i].key, e[i].value>>]
    BY DEF hs_to_array
  <1>5. Keys(hash) \subseteq Key /\ DOMAIN m = Keys(hash)
    BY MapIs DEF Keys
  <1>6. \A i \in DOMAIN e : e[i].key \in Keys(hash) /\ m[e[i].key] = e[i].value
    BY <1>2, MapIs DEF Lists
  <1>7. \A k \in Keys(hash) : \E i \in DOMAIN e : e[i].key = k
    BY <1>2 DEF Lists
  <1>8. MapOf(hash)' = MapOf(hash)
    BY <1>1 DEF MapOf
  <1> HIDE DEF e, m
  <1>9. s \in [1..Cardinality(DOMAIN m) -> Key]
    BY <1>3, <1>5, <1>6
  <1>10. {s[i] : i \in DOMAIN s} = DOMAIN m
    BY <1>5, <1>6, <1>7
  <1>11. hs_to_array(hash) = [i \in DOMAIN s |-> <<s[i], m[s[i]]>>]
    BY <1>4, <1>6
  <1>12. result'[1] = "array"
    BY <1>1
  <1>13. result' = <<"array", [i \in DOMAIN s |-> <<s[i], m[s[i]]>>]>>
    BY <1>1, <1>11
  <1>14. MapOf(hash)' = m
    BY <1>8 DEF m
  <1> HIDE DEF s
  <1>15. \E t \in [1..Cardinality(DOMAIN m) -> Key] :
            /\ {t[i] : i \in DOMAIN t} = DOMAIN m
            /\ result' = <<"array", [i \in DOMAIN t |-> <<t[i], m[t[i]]>>]>> /\ MapOf(hash)' = m
    BY <1>9, <1>10, <1>13, <1>14
  <1>16. Cardinality(DOMAIN m) = Abstract!Cardinality(DOMAIN m)
    BY Zenon DEF Abstract!Cardinality, Cardinality
  <1> QED
    BY <1>12, <1>15, <1>16 DEF Abstract!ToArray, Abstract!Asks, MapOf, m

\* hash-copy, with hash= of the copy and the original; >hash.
LEMMA CopyRefines ==
    ASSUME Table(hash), Copy
    PROVE  Abstract!Copy
  <1>1. hash' = hs_copy(hash) /\ result' = <<"equal", hs_equal_p(hs_copy(hash), hash)>>
    BY DEF Copy
  <1>2. hs_equal_p(hs_copy(hash), hash) = TRUE
    BY CopyEqual DEF hs_equal_p
  <1>3. Keys(hash') = Keys(hash) /\ \A k \in Keys(hash) : EntryOf(hash', k).value = EntryOf(hash, k).value
    BY <1>1, CopyTable DEF Copies
  <1>4. MapOf(hash') = MapOf(hash)
    BY <1>3 DEF MapOf, Keys
  <1> QED
    BY <1>1, <1>2, <1>4 DEF Abstract!Copy, Abstract!Asks, MapOf

\* #{ }: pairs put in one after the other are a map of the first pair of each key.
LEMMA ValuesRefines ==
    ASSUME NEW k1 \in Key, NEW k2 \in Key, NEW v1 \in Val, NEW v2 \in Val, Values(<<<<k1, v1>>, <<k2, v2>>>>)
    PROVE  Abstract!Values(<<<<k1, v1>>, <<k2, v2>>>>)
  <1> DEFINE s == <<<<k1, v1>>, <<k2, v2>>>>
             first(k) == CHOOSE i \in DOMAIN s : s[i][1] = k /\ \A j \in 1..(i - 1) : s[j][1] # k
  <1>1. hash' = ficl_values_to_hash(s) /\ result' = <<"values">>
    BY DEF Values
  <1>2. Keys(hash') = {k1, k2} /\ \A k \in {k1, k2} : EntryOf(hash', k).value = IF k = k1 THEN v1 ELSE v2
    BY <1>1, ValuesTable
  <1>3. DOMAIN s = {1, 2} /\ s[1][1] = k1 /\ s[1][2] = v1 /\ s[2][1] = k2 /\ s[2][2] = v2
    OBVIOUS
  <1> HIDE DEF s
  <1>4. {s[i][1] : i \in DOMAIN s} = {k1, k2}
    BY <1>3
  <1>5. ASSUME NEW k \in {k1, k2}
        PROVE  s[first(k)][2] = IF k = k1 THEN v1 ELSE v2
    <2>1. CASE k = k1
      <3>1. \A i \in DOMAIN s : (s[i][1] = k /\ \A j \in 1..(i - 1) : s[j][1] # k) <=> i = 1
        BY <1>3, <2>1
      <3>2. first(k) = 1
        BY <1>3, <3>1
      <3> QED
        BY <1>3, <2>1, <3>2
    <2>2. CASE k # k1
      <3>1. \A i \in DOMAIN s : (s[i][1] = k /\ \A j \in 1..(i - 1) : s[j][1] # k) <=> i = 2
        BY <1>3, <2>2
      <3>2. first(k) = 2
        BY <1>3, <3>1
      <3> QED
        BY <1>3, <2>2, <3>2
    <2> QED
      BY <2>1, <2>2
  <1>6. MapOf(hash') = [k \in {k1, k2} |-> IF k = k1 THEN v1 ELSE v2]
    BY <1>2 DEF MapOf, Keys
  <1>7. MapOf(hash') = [k \in {s[i][1] : i \in DOMAIN s} |-> s[first(k)][2]]
    <2> HIDE DEF first
    <2> QED
      BY <1>4, <1>5, <1>6
  <1>8. MapOf(hash)' = MapOf(hash')
    BY DEF MapOf
  <1> QED
    BY <1>1, <1>7, <1>8 DEF Abstract!Values, MapOf, s


-----------------------------------------------------------------------------
(* Walks: what hash-each and hash-map have come past. *)

\* k is the key a or comes before it in a walk.
UpTo(h, a, k) ==
    \/ hash_key_to_val(k) < hash_key_to_val(a)
    \/ hash_key_to_val(k) = hash_key_to_val(a) /\ At(h, k) <= At(h, a)
Passed(k) == walk.at \in Key /\ UpTo(hash, walk.at, k)
Visited == {visited[i] : i \in DOMAIN visited}

\* Two keys are not in one place of a chain.
LEMMA AtOnce ==
    ASSUME NEW h, Tidy(h), NEW x \in Keys(h), NEW y \in Keys(h),
           hash_key_to_val(x) = hash_key_to_val(y), At(h, x) = At(h, y)
    PROVE  x = y
  <1>1. x \in Key /\ y \in Key
    BY DEF Keys
  <1>2. EntryOf(h, x) = EntryOf(h, y)
    BY DEF EntryOf, At, Chain
  <1>3. EntryOf(h, x).key = x /\ EntryOf(h, y).key = y
    BY <1>1, ChainOf
  <1> QED
    BY <1>2, <1>3

\* The numbers UpTo compares.
LEMMA KeyNumbers ==
    ASSUME NEW h, Tidy(h), NEW k \in Keys(h)
    PROVE  k \in Key /\ hash_key_to_val(k) \in Nat /\ hash_key_to_val(k) \in Buckets
           /\ At(h, k) \in Nat /\ At(h, k) >= 1 /\ At(h, k) <= Len(Chain(h, k)) /\ Len(Chain(h, k)) \in Nat
  <1>1. k \in Key
    BY DEF Keys
  <1>2. hash_key_to_val(k) \in Buckets
    BY <1>1, BucketOf
  <1>3. hash_key_to_val(k) \in Nat
    BY <1>2 DEF Buckets
  <1>4. At(h, k) \in 1..Len(Chain(h, k)) /\ Chain(h, k) \in Seq(Item)
    BY <1>1, ChainOf
  <1>5. Len(Chain(h, k)) \in Nat
    BY <1>4
  <1> QED
    BY <1>1, <1>2, <1>3, <1>4, <1>5

\* HeadFrom(b) is the first entry of the buckets from b on.
LEMMA HeadFromIs ==
    ASSUME Tidy(hash), NEW b \in Nat
    PROVE  \/ /\ HeadFrom(b) = [at |-> NoEntry, bucket |-> HashSize]
              /\ \A k \in Keys(hash) : hash_key_to_val(k) < b
           \/ \E a \in Keys(hash) :
                 /\ HeadFrom(b) = [at |-> a, bucket |-> hash_key_to_val(a)]
                 /\ hash_key_to_val(a) >= b /\ At(hash, a) = 1
                 /\ \A k \in Keys(hash) : hash_key_to_val(k) >= b => hash_key_to_val(k) >= hash_key_to_val(a)
  <1>1. Heads(b) \in SUBSET Nat /\ Heads(b) \subseteq Buckets
    BY DEF Heads, Buckets
  <1>2. ASSUME NEW k \in Keys(hash), hash_key_to_val(k) >= b PROVE hash_key_to_val(k) \in Heads(b)
    <2>1. Chain(hash, k) = hash.data[hash_key_to_val(k)]
      BY DEF Chain
    <2>2. Len(Chain(hash, k)) # 0 /\ hash_key_to_val(k) \in Buckets
      BY KeyNumbers
    <2>3. Chain(hash, k) # <<>>
      BY <2>2
    <2> QED
      BY <1>2, <2>1, <2>2, <2>3 DEF Heads
  <1>3. CASE Heads(b) = {}
    <2>1. HeadFrom(b) = [at |-> NoEntry, bucket |-> HashSize]
      BY <1>3 DEF HeadFrom
    <2>2. \A k \in Keys(hash) : hash_key_to_val(k) < b
      BY <1>2, <1>3, KeyNumbers
    <2> QED
      BY <2>1, <2>2
  <1>4. CASE Heads(b) # {}
    <2> DEFINE c == CHOOSE c \in Heads(b) : \A d \in Heads(b) : c <= d
    <2>1. c \in Heads(b) /\ \A d \in Heads(b) : c <= d
      <3>1. \E m \in Heads(b) : \A d \in Heads(b) : m <= d
        BY <1>1, <1>4, Least
      <3> QED
        BY <3>1
    <2>2. HeadFrom(b) = [at |-> hash.data[c][1].key, bucket |-> c]
      BY <1>4 DEF HeadFrom
    <2> HIDE DEF c
    <2>3. c \in Buckets /\ c \in Nat /\ c >= b /\ hash.data[c] # <<>>
      BY <1>1, <2>1 DEF Heads
    <2>4. hash.data[c] \in Seq(Item)
      BY <2>3 DEF Tidy, FHash
    <2>5. 1 \in 1..Len(hash.data[c])
      BY <2>3, <2>4
    <2> DEFINE a == hash.data[c][1].key
    <2>6. a \in Keys(hash) /\ hash_key_to_val(a) = c /\ At(hash, a) = 1
      BY <2>3, <2>5, EntryAt
    <2> HIDE DEF a
    <2>7. \A k \in Keys(hash) : hash_key_to_val(k) >= b => hash_key_to_val(k) >= c
      BY <1>2, <2>1, <2>3, KeyNumbers
    <2> QED
      BY <2>2, <2>3, <2>6, <2>7 DEF a
  <1> QED
    BY <1>3, <1>4

\* A walk goes to the next entry in the order of UpTo, and has passed every
\* entry when there is none.
LEMMA FollowingIs ==
    ASSUME Tidy(hash),
           walk.at = NoEntry \/ (walk.at \in Keys(hash) /\ walk.bucket = hash_key_to_val(walk.at))
    PROVE  \/ /\ Following = [at |-> NoEntry, bucket |-> HashSize]
              /\ \A k \in Keys(hash) : Passed(k)
           \/ \E a \in Keys(hash) :
                 /\ Following = [at |-> a, bucket |-> hash_key_to_val(a)]
                 /\ ~Passed(a)
                 /\ walk.at \in Key => hash_key_to_val(walk.at) <= hash_key_to_val(a)
                 /\ \A k \in Keys(hash) : UpTo(hash, a, k) <=> Passed(k) \/ k = a
  <1> DEFINE bk(k) == hash_key_to_val(k)
  <1>1. \A k \in Keys(hash) : bk(k) \in Nat /\ At(hash, k) \in Nat /\ At(hash, k) >= 1
    BY KeyNumbers
  <1>2. \A x, y \in Keys(hash) : bk(x) = bk(y) /\ At(hash, x) = At(hash, y) => x = y
    BY AtOnce
  <1>3. ASSUME NEW a \in Keys(hash), NEW b \in Nat, bk(a) >= b, At(hash, a) = 1,
               \A k \in Keys(hash) : bk(k) >= b => bk(k) >= bk(a)
        PROVE  \A k \in Keys(hash) : UpTo(hash, a, k) <=> bk(k) < b \/ k = a
    <2> SUFFICES ASSUME NEW k \in Keys(hash) PROVE UpTo(hash, a, k) <=> bk(k) < b \/ k = a
      OBVIOUS
    <2>1. bk(k) \in Nat /\ At(hash, k) \in Nat /\ At(hash, k) >= 1 /\ bk(a) \in Nat
      BY <1>1
    <2>2. bk(k) = bk(a) /\ At(hash, k) = 1 => k = a
      BY <1>2, <1>3
    <2>3. bk(k) >= b => bk(k) >= bk(a)
      BY <1>3
    <2> HIDE DEF bk
    <2>4. (bk(k) < bk(a) \/ (bk(k) = bk(a) /\ At(hash, k) <= At(hash, a))) <=> bk(k) < b \/ k = a
      BY <1>3, <2>1, <2>2, <2>3
    <2> QED
      BY <2>4 DEF UpTo, bk
  <1>4. CASE walk.at = NoEntry
    <2>1. Following = HeadFrom(0) /\ ~(walk.at \in Key)
      BY <1>4, HashAssumption DEF Following
    <2>2. \A k : ~Passed(k)
      BY <2>1 DEF Passed
    <2>3. CASE /\ HeadFrom(0) = [at |-> NoEntry, bucket |-> HashSize]
               /\ \A k \in Keys(hash) : bk(k) < 0
      BY <1>1, <2>1, <2>3
    <2>4. ASSUME NEW a \in Keys(hash), HeadFrom(0) = [at |-> a, bucket |-> bk(a)], bk(a) >= 0, At(hash, a) = 1,
                 \A k \in Keys(hash) : bk(k) >= 0 => bk(k) >= bk(a)
          PROVE  Following = [at |-> a, bucket |-> bk(a)]
                 /\ \A k \in Keys(hash) : UpTo(hash, a, k) <=> Passed(k) \/ k = a
      <3>1. \A k \in Keys(hash) : UpTo(hash, a, k) <=> bk(k) < 0 \/ k = a
        BY <1>3, <2>4
      <3>2. \A k \in Keys(hash) : ~(bk(k) < 0)
        BY <1>1
      <3> QED
        BY <2>1, <2>2, <2>4, <3>1, <3>2
    <2>5. 0 \in Nat
      OBVIOUS
    <2> QED
      BY <2>1, <2>2, <2>3, <2>4, <2>5, HeadFromIs
  <1>5. CASE walk.at \in Keys(hash) /\ walk.bucket = bk(walk.at)
    <2> DEFINE x == walk.at
               c == hash.data[bk(x)]
               j == At(hash, x)
    <2>1. x \in Key /\ x # NoEntry /\ bk(x) \in Nat /\ bk(x) \in Buckets /\ j \in Nat /\ j >= 1
      BY <1>5, KeyNumbers, HashAssumption
    <2>2. c = Chain(hash, x) /\ j = Place(c, x) /\ j <= Len(c) /\ Len(c) \in Nat
      BY <1>5, KeyNumbers DEF Chain, At
    <2>3. Following = IF j < Len(c) THEN [at |-> c[j + 1].key, bucket |-> bk(x)] ELSE HeadFrom(bk(x) + 1)
      BY <1>5, <2>1, <2>2 DEF Following
    <2>4. \A k : Passed(k) <=> bk(k) < bk(x) \/ (bk(k) = bk(x) /\ At(hash, k) <= j)
      BY <2>1 DEF Passed, UpTo
    <2> HIDE DEF j, c
    <2>5. CASE j < Len(c)
      <3> DEFINE a == c[j + 1].key
      <3>1. j + 1 \in 1..Len(c)
        BY <2>1, <2>2, <2>5
      <3>2. a \in Keys(hash) /\ bk(a) = bk(x) /\ At(hash, a) = j + 1
        BY <2>1, <3>1, EntryAt DEF c
      <3>3. Following = [at |-> a, bucket |-> bk(a)]
        BY <2>3, <2>5, <3>2
      <3> HIDE DEF a
      <3>4. ASSUME NEW k \in Keys(hash) PROVE UpTo(hash, a, k) <=> Passed(k) \/ k = a
        <4>1. bk(k) \in Nat /\ At(hash, k) \in Nat
          BY <1>1
        <4>2. bk(k) = bk(x) /\ At(hash, k) = j + 1 => k = a
          BY <1>2, <3>2
        <4>3. UpTo(hash, a, k) <=> bk(k) < bk(x) \/ (bk(k) = bk(x) /\ At(hash, k) <= j + 1)
          BY <3>2 DEF UpTo
        <4>4. At(hash, k) <= j + 1 <=> At(hash, k) <= j \/ At(hash, k) = j + 1
          BY <2>1, <4>1
        <4> QED
          BY <2>4, <3>2, <4>2, <4>3, <4>4
      <3>5. ~Passed(a)
        <4>1. ~(bk(a) < bk(x)) /\ ~(At(hash, a) <= j)
          BY <2>1, <3>2
        <4> QED
          BY <2>4, <4>1
      <3>6. bk(x) <= bk(a)
        BY <2>1, <3>2
      <3> QED
        BY <3>2, <3>3, <3>4, <3>5, <3>6
    <2>6. CASE ~(j < Len(c))
      <3> DEFINE b == bk(x) + 1
      <3>1. b \in Nat /\ Following = HeadFrom(b)
        BY <2>1, <2>3, <2>6
      <3>2. ASSUME NEW k \in Keys(hash) PROVE Passed(k) <=> bk(k) < b
        <4>1. bk(k) \in Nat /\ At(hash, k) \in Nat
          BY <1>1
        <4>2. bk(k) = bk(x) => At(hash, k) <= j
          <5>1. bk(k) = bk(x) => Chain(hash, k) = c
            BY DEF Chain, c
          <5>2. At(hash, k) <= Len(Chain(hash, k))
            BY KeyNumbers
          <5> QED
            BY <2>1, <2>2, <2>6, <4>1, <5>1, <5>2
        <4>3. bk(k) < b <=> bk(k) < bk(x) \/ bk(k) = bk(x)
          BY <2>1, <4>1
        <4> QED
          BY <2>4, <4>2, <4>3
      <3> HIDE DEF b
      <3>3. CASE /\ HeadFrom(b) = [at |-> NoEntry, bucket |-> HashSize]
                 /\ \A k \in Keys(hash) : bk(k) < b
        BY <3>1, <3>2, <3>3
      <3>4. ASSUME NEW a \in Keys(hash), HeadFrom(b) = [at |-> a, bucket |-> bk(a)], bk(a) >= b, At(hash, a) = 1,
                   \A k \in Keys(hash) : bk(k) >= b => bk(k) >= bk(a)
            PROVE  /\ Following = [at |-> a, bucket |-> bk(a)] /\ ~Passed(a) /\ bk(x) <= bk(a)
                   /\ \A k \in Keys(hash) : UpTo(hash, a, k) <=> Passed(k) \/ k = a
        <4>1. \A k \in Keys(hash) : UpTo(hash, a, k) <=> bk(k) < b \/ k = a
          BY <1>3, <3>1, <3>4
        <4>2. bk(a) \in Nat
          BY <1>1
        <4>3. ~(bk(a) < b)
          BY <3>1, <3>4, <4>2
        <4>4. bk(x) <= bk(a)
          BY <2>1, <3>4, <4>2 DEF b
        <4> QED
          BY <3>1, <3>2, <3>4, <4>1, <4>3, <4>4
      <3> QED
        BY <3>1, <3>3, <3>4, HeadFromIs
    <2> QED
      BY <2>5, <2>6
  <1> QED
    BY <1>4, <1>5


-----------------------------------------------------------------------------
(* The invariant. *)

\* A walk calls its block once for each key: what it has visited and is still
\* there is what it has passed, and it has visited all it passed that stayed in.
WalkSound ==
    /\ \A i, j \in DOMAIN visited : visited[i] = visited[j] => i = j
    /\ walk.op = "none" => stable \subseteq Visited
    /\ walk.op \in {"each", "map"} =>
         /\ stable \subseteq Keys(hash)
         /\ walk.at = NoEntry => visited = <<>>
         /\ walk.at \in Key =>
              /\ walk.at \in Keys(hash) /\ walk.at \in Visited /\ walk.bucket = hash_key_to_val(walk.at)
              /\ \A k \in Visited : hash_key_to_val(k) <= walk.bucket
              /\ \A k \in Visited : k \in Keys(hash) => Passed(k)
              /\ \A k \in stable : Passed(k) => k \in Visited

\* The hash that hash-map makes has the keys whose block has returned.
OutSound ==
    walk.op = "map" =>
        /\ Table(walk.out)
        /\ walk.at = NoEntry => Keys(walk.out) = {}
        /\ walk.at \in Key => Keys(walk.out) = Visited \ {walk.at}

HashInv == TypeOK /\ Table(hash) /\ WalkSound /\ OutSound

\* make-hash has no entries, and nobody walks through it.
LEMMA HashInit == Init => HashInv
  <1> SUFFICES ASSUME Init PROVE HashInv
    OBVIOUS
  <1>1. /\ hash = make_hash /\ walk = [op |-> "none", at |-> NoEntry, bucket |-> 0, out |-> make_hash]
        /\ visited = <<>> /\ stable = {}
    BY DEF Init, NoWalk
  <1>2. Table(make_hash) /\ make_hash \in FHash
    BY EmptyTable DEF Table, Tidy
  <1>3. TypeOK
    <2>1. 0 \in 0..HashSize
      BY HashAssumption
    <2> QED
      BY <1>1, <1>2, <2>1 DEF TypeOK
  <1>4. WalkSound /\ OutSound
    BY <1>1 DEF WalkSound, OutSound
  <1> QED
    BY <1>1, <1>2, <1>3, <1>4 DEF HashInv

\* A word outside of walks ends what is remembered of the last one.
LEMMA ForgetKeeps ==
    ASSUME Forget, Table(hash')
    PROVE  HashInv'
  <1>1. walk' = [op |-> "none", at |-> NoEntry, bucket |-> 0, out |-> make_hash] /\ visited' = <<>> /\ stable' = {}
    BY DEF Forget, NoWalk
  <1>2. make_hash \in FHash /\ hash' \in FHash
    BY EmptyTable DEF Table, Tidy
  <1>3. TypeOK'
    <2>1. 0 \in 0..HashSize
      BY HashAssumption
    <2> QED
      BY <1>1, <1>2, <2>1 DEF TypeOK
  <1>4. WalkSound' /\ OutSound'
    BY <1>1 DEF WalkSound, OutSound
  <1> QED
    BY <1>3, <1>4 DEF HashInv, Table, Keys

\* A word in a block that takes the keys ks away, and may add others: the keys
\* that stay keep their order, and a new one is not behind them in its chain.
LEMMA LosesKeeps ==
    ASSUME HashInv, Table(hash'), NEW ks \in SUBSET Key, Loses(ks),
           Keys(hash) \ ks \subseteq Keys(hash'),
           \A x, y \in Keys(hash) \ ks : hash_key_to_val(x) = hash_key_to_val(y) =>
              (At(hash', x) <= At(hash', y) <=> At(hash, x) <= At(hash, y)),
           \A x \in Keys(hash') \ (Keys(hash) \ ks), y \in Keys(hash) \ ks :
              hash_key_to_val(x) = hash_key_to_val(y) => At(hash', x) <= At(hash', y)
    PROVE  HashInv'
  <1>1. CASE walk.op = "none" /\ Forget
    BY <1>1, ForgetKeeps
  <1>2. CASE /\ walk.op \in {"each", "map"} /\ walk.at # NoEntry
             /\ walk' = IF walk.at \in ks THEN [walk EXCEPT !.at = Freed] ELSE walk
             /\ stable' = stable \ ks
             /\ UNCHANGED visited
    <2>1. TypeOK /\ WalkSound /\ OutSound
      BY DEF HashInv
    <2>2. /\ walk \in [op : {"none", "each", "map", "undefined"}, at : Key \cup {NoEntry, Freed},
                       bucket : 0..HashSize, out : FHash]
          /\ visited \in Seq(Key) /\ stable \subseteq Key
      BY <2>1 DEF TypeOK
    <2>3. visited' = visited /\ Visited' = Visited
      BY <1>2 DEF Visited
    <2>4. Freed \notin Key /\ NoEntry \notin Key /\ NoEntry # Freed
      BY HashAssumption
    <2>5. /\ walk'.op = walk.op /\ walk'.bucket = walk.bucket /\ walk'.out = walk.out
          /\ walk'.at = (IF walk.at \in ks THEN Freed ELSE walk.at)
          /\ walk' \in [op : {"none", "each", "map", "undefined"}, at : Key \cup {NoEntry, Freed},
                        bucket : 0..HashSize, out : FHash]
      BY <1>2, <2>2
    <2>6. TypeOK'
      <3>1. hash' \in FHash
        BY DEF Table, Tidy
      <3> QED
        BY <1>2, <2>2, <2>3, <2>5, <3>1 DEF TypeOK
    <2>7. walk'.at \in Key => walk.at \in Key /\ walk.at \notin ks /\ walk'.at = walk.at
      BY <2>4, <2>5
    <2>8. walk'.at # NoEntry
      BY <1>2, <2>4, <2>5
    <2>9. stable' \subseteq Keys(hash')
      BY <1>2, <2>1 DEF WalkSound
    <2>10. ASSUME walk'.at \in Key
           PROVE  /\ walk'.at \in Keys(hash') /\ walk'.at \in Visited' /\ walk'.bucket = hash_key_to_val(walk'.at)
                  /\ \A k \in Visited' : hash_key_to_val(k) <= walk'.bucket
                  /\ \A k \in Visited' : k \in Keys(hash') => Passed(k)'
                  /\ \A k \in stable' : Passed(k)' => k \in Visited'
      <3> DEFINE a == walk.at
      <3>1. /\ a \in Key /\ a \notin ks /\ walk'.at = a
            /\ a \in Keys(hash) /\ a \in Visited /\ walk.bucket = hash_key_to_val(a)
            /\ \A k \in Visited : hash_key_to_val(k) <= hash_key_to_val(a)
            /\ \A k \in Visited : k \in Keys(hash) => UpTo(hash, a, k)
            /\ \A k \in stable : UpTo(hash, a, k) => k \in Visited
        BY <1>2, <2>1, <2>7, <2>10 DEF WalkSound, Passed
      <3>2. \A k : Passed(k)' <=> UpTo(hash', a, k)
        BY <3>1 DEF Passed, UpTo, At, Chain, hash_key_to_val
      <3> HIDE DEF a
      <3>3. a \in Keys(hash')
        BY <3>1
      <3>4. ASSUME NEW k \in Visited, k \in Keys(hash') PROVE UpTo(hash', a, k)
        <4>1. hash_key_to_val(k) \in Nat /\ hash_key_to_val(a) \in Nat /\ hash_key_to_val(k) <= hash_key_to_val(a)
          BY <3>1, <3>3, <3>4, KeyNumbers DEF Table
        <4>2. CASE hash_key_to_val(k) # hash_key_to_val(a)
          BY <4>1, <4>2 DEF UpTo
        <4>3. CASE hash_key_to_val(k) = hash_key_to_val(a)
          <5>1. CASE k \in Keys(hash) \ ks
            <6>1. At(hash, k) <= At(hash, a)
              <7>1. UpTo(hash, a, k) /\ ~(hash_key_to_val(k) < hash_key_to_val(a))
                BY <3>1, <4>1, <4>3, <5>1
              <7> QED
                BY <7>1 DEF UpTo
            <6> QED
              BY <3>1, <4>3, <5>1, <6>1 DEF UpTo
          <5>2. CASE k \notin Keys(hash) \ ks
            BY <3>1, <3>4, <4>3, <5>2 DEF UpTo
          <5> QED
            BY <5>1, <5>2
        <4> QED
          BY <4>2, <4>3
      <3>5. ASSUME NEW k \in stable', UpTo(hash', a, k) PROVE k \in Visited
        <4>1. k \in stable /\ k \notin ks /\ k \in Keys(hash)
          BY <1>2, <2>1 DEF WalkSound
        <4>2. UpTo(hash, a, k)
          BY <3>1, <3>5, <4>1 DEF UpTo
        <4> QED
          BY <3>1, <4>1, <4>2
      <3> QED
        BY <2>3, <2>5, <3>1, <3>2, <3>3, <3>4, <3>5
    <2>11. WalkSound'
      <3>1. walk'.op # "none"
        BY <1>2, <2>5
      <3>2. \A i, j \in DOMAIN visited' : visited'[i] = visited'[j] => i = j
        BY <2>1, <2>3 DEF WalkSound
      <3> QED
        BY <2>8, <2>9, <2>10, <3>1, <3>2 DEF WalkSound, Keys, Passed, Present
    <2>12. OutSound'
      <3>1. walk.op = "map" => Table(walk.out) /\ (walk.at \in Key => Keys(walk.out) = Visited \ {walk.at})
        BY <2>1 DEF OutSound
      <3>2. walk'.op = "map" => Table(walk'.out) /\ (walk'.at \in Key => Keys(walk'.out) = Visited' \ {walk'.at})
        BY <2>3, <2>5, <2>7, <3>1
      <3> QED
        BY <2>8, <3>2 DEF OutSound
    <2> QED
      BY <2>6, <2>11, <2>12 DEF HashInv, Table, Keys, Tidy
  <1> QED
    BY <1>1, <1>2 DEF Loses


\* hash-set!, hash-delete! and hash-clear, in blocks too.
LEMMA SetKeeps ==
    ASSUME HashInv, NEW k \in Key, NEW v \in Val, Set(k, v)
    PROVE  HashInv'
  <1>1. Table(hash) /\ hash' = fth_hash_set(hash, k, v) /\ Loses({})
    BY DEF HashInv, Set
  <1>2. /\ Table(hash') /\ Keys(hash') = Keys(hash) \cup {k}
        /\ \A x, y \in Keys(hash) : hash_key_to_val(x) = hash_key_to_val(y) =>
              (At(hash', x) <= At(hash', y) <=> At(hash, x) <= At(hash, y))
        /\ k \notin Keys(hash) => \A y \in Keys(hash) : hash_key_to_val(k) = hash_key_to_val(y) =>
              At(hash', k) <= At(hash', y)
    BY <1>1, SetTable
  <1> QED
    BY <1>1, <1>2, LosesKeeps

\* hash-delete! unlinks one entry and leaves the order of the others; an iteration
\* that stands on it then stands on freed memory.
LEMMA DeleteKeeps ==
    ASSUME HashInv, NEW k \in Key, Delete(k)
    PROVE  HashInv'
  <1>1. Table(hash) /\ hash' = fth_hash_delete(hash, k) /\ Loses({k})
    BY DEF HashInv, Delete
  <1>2. /\ Table(hash') /\ Keys(hash') = Keys(hash) \ {k}
        /\ \A x, y \in Keys(hash) \ {k} : hash_key_to_val(x) = hash_key_to_val(y) =>
              (At(hash', x) <= At(hash', y) <=> At(hash, x) <= At(hash, y))
    BY <1>1, DeleteTable
  <1> QED
    BY <1>1, <1>2, LosesKeeps

\* hash-clear takes every entry away from under an iteration.
LEMMA ClearKeeps ==
    ASSUME HashInv, Clear
    PROVE  HashInv'
  <1>1. Table(hash) /\ hash' = fth_hash_clear(hash) /\ Loses(Key)
    BY DEF HashInv, Clear
  <1>2. Table(hash') /\ Keys(hash') = {} /\ Keys(hash) \ Key = {}
    BY <1>1, EmptyTable DEF Keys
  <1> QED
    BY <1>1, <1>2, LosesKeeps

\* A walk begins with nothing visited and all keys in.
LEMMA EachStartKeeps ==
    ASSUME HashInv, NEW op \in {"each", "map"}, EachStart(op)
    PROVE  HashInv'
  <1>1. /\ walk' = [op |-> op, at |-> NoEntry, bucket |-> 0, out |-> make_hash] /\ hash' = hash
        /\ visited' = <<>> /\ stable' = Keys(hash)
    BY DEF EachStart, NoWalk, Keys
  <1>2. Table(make_hash) /\ make_hash \in FHash /\ Keys(make_hash) = {}
    BY EmptyTable DEF Table, Tidy
  <1>3. Table(hash') /\ hash' \in FHash
    BY <1>1 DEF HashInv, Table, Tidy
  <1>4. TypeOK'
    <2>1. 0 \in 0..HashSize /\ Keys(hash) \subseteq Key
      BY HashAssumption DEF Keys
    <2> QED
      BY <1>1, <1>2, <1>3, <2>1 DEF TypeOK
  <1>5. walk'.op \in {"each", "map"} /\ walk'.at = NoEntry /\ walk'.at \notin Key /\ walk'.out = make_hash
    BY <1>1, HashAssumption
  <1>6. WalkSound'
    BY <1>1, <1>5 DEF WalkSound, Keys, Present
  <1>7. OutSound'
    BY <1>2, <1>5 DEF OutSound
  <1> QED
    BY <1>3, <1>4, <1>6, <1>7 DEF HashInv, Table

\* Where a walk stands that is not on freed memory, and the hash of hash-map when
\* the block has returned.
LEMMA Standing ==
    ASSUME HashInv, walk.op \in {"each", "map"}, walk.at # Freed
    PROVE  /\ walk.at = NoEntry \/ (walk.at \in Keys(hash) /\ walk.bucket = hash_key_to_val(walk.at))
           /\ walk.at \in Key \cup {NoEntry}
           /\ \A v \in Val : /\ BlockReturns(v) \in FHash
                             /\ walk.op = "map" => Table(BlockReturns(v)) /\ Keys(BlockReturns(v)) = Visited
  <1>1. walk.at \in Key \cup {NoEntry} /\ walk.out \in FHash
    BY DEF HashInv, TypeOK
  <1>2. walk.at = NoEntry \/ (walk.at \in Keys(hash) /\ walk.bucket = hash_key_to_val(walk.at))
    BY <1>1 DEF HashInv, WalkSound
  <1>3. ASSUME NEW v \in Val
        PROVE  /\ BlockReturns(v) \in FHash
               /\ walk.op = "map" => Table(BlockReturns(v)) /\ Keys(BlockReturns(v)) = Visited
    <2>1. CASE walk.op # "map"
      BY <1>1, <2>1 DEF BlockReturns
    <2>2. CASE walk.op = "map" /\ walk.at = NoEntry
      <3>1. Table(walk.out) /\ Keys(walk.out) = {} /\ BlockReturns(v) = walk.out
        BY <2>2 DEF HashInv, OutSound, BlockReturns
      <3>2. visited = <<>>
        BY <2>2 DEF HashInv, WalkSound
      <3>3. Visited = {}
        BY <3>2 DEF Visited
      <3> QED
        BY <1>1, <3>1, <3>3
    <2>3. CASE walk.op = "map" /\ walk.at # NoEntry
      <3>1. walk.at \in Key
        BY <1>1, <2>3
      <3>2. Table(walk.out) /\ Keys(walk.out) = Visited \ {walk.at} /\ walk.at \in Visited
        BY <2>3, <3>1 DEF HashInv, OutSound, WalkSound
      <3>3. BlockReturns(v) = fth_hash_set(walk.out, walk.at, v)
        BY <2>3 DEF BlockReturns
      <3>4. Table(BlockReturns(v)) /\ Keys(BlockReturns(v)) = Visited
        BY <3>1, <3>2, <3>3, SetTable
      <3> QED
        BY <3>4 DEF Table, Tidy
    <2> QED
      BY <2>1, <2>2, <2>3
  <1> QED
    BY <1>1, <1>2, <1>3

\* A walk goes on: the next entry has not been visited.
LEMMA EachStepKeeps ==
    ASSUME HashInv, NEW v \in Val, EachStep(v)
    PROVE  HashInv'
  <1>0. walk.op \in {"each", "map"} /\ walk.at # Freed /\ Following.at # NoEntry
    BY DEF EachStep
  <1>1. TypeOK /\ Table(hash) /\ Tidy(hash) /\ WalkSound /\ OutSound
    BY DEF HashInv, Table
  <1>2. /\ walk.at = NoEntry \/ (walk.at \in Keys(hash) /\ walk.bucket = hash_key_to_val(walk.at))
        /\ BlockReturns(v) \in FHash
        /\ walk.op = "map" => Table(BlockReturns(v)) /\ Keys(BlockReturns(v)) = Visited
    BY <1>0, Standing
  <1>3. PICK a \in Keys(hash) :
            /\ Following = [at |-> a, bucket |-> hash_key_to_val(a)]
            /\ ~Passed(a)
            /\ walk.at \in Key => hash_key_to_val(walk.at) <= hash_key_to_val(a)
            /\ \A k \in Keys(hash) : UpTo(hash, a, k) <=> Passed(k) \/ k = a
    BY <1>0, <1>1, <1>2, FollowingIs
  <1>4. a \in Key /\ a # NoEntry /\ hash_key_to_val(a) \in Nat /\ hash_key_to_val(a) \in 0..HashSize
    <2>1. a \in Key /\ hash_key_to_val(a) \in Nat /\ hash_key_to_val(a) \in Buckets
      BY <1>1, KeyNumbers
    <2> QED
      BY <2>1, HashAssumption DEF Buckets
  <1>5. /\ walk' = [walk EXCEPT !.at = a, !.bucket = hash_key_to_val(a), !.out = BlockReturns(v)]
        /\ visited' = Append(visited, a) /\ hash' = hash /\ stable' = stable
    BY <1>3 DEF EachStep
  <1>6. /\ walk \in [op : {"none", "each", "map", "undefined"}, at : Key \cup {NoEntry, Freed},
                     bucket : 0..HashSize, out : FHash]
        /\ hash \in FHash /\ visited \in Seq(Key) /\ stable \subseteq Key
    BY <1>1 DEF TypeOK
  <1>7. /\ walk'.op = walk.op /\ walk'.at = a /\ walk'.bucket = hash_key_to_val(a) /\ walk'.out = BlockReturns(v)
        /\ walk' \in [op : {"none", "each", "map", "undefined"}, at : Key \cup {NoEntry, Freed},
                      bucket : 0..HashSize, out : FHash]
    BY <1>2, <1>4, <1>5, <1>6
  <1>8. visited' \in Seq(Key)
    BY <1>4, <1>5, <1>6
  <1>9. TypeOK'
    BY <1>5, <1>6, <1>7, <1>8 DEF TypeOK
  <1>10. a \notin Visited
    <2>1. CASE walk.at = NoEntry
      BY <1>0, <1>1, <2>1 DEF WalkSound, Visited
    <2>2. CASE walk.at \in Keys(hash)
      <3>1. walk.at \in Key
        BY <2>2 DEF Keys
      <3> QED
        BY <1>0, <1>1, <1>3, <3>1 DEF WalkSound
    <2> QED
      BY <1>2, <2>1, <2>2
  <1>11. Len(visited) \in Nat /\ Len(visited') = Len(visited) + 1 /\ DOMAIN visited = 1..Len(visited)
         /\ DOMAIN visited' = 1..(Len(visited) + 1) /\ visited'[Len(visited) + 1] = a
         /\ \A i \in 1..Len(visited) : visited'[i] = visited[i]
    BY <1>4, <1>5, <1>6
  <1>12. Visited' = Visited \cup {a}
    <2>1. \A i \in DOMAIN visited' : i \in DOMAIN visited \/ i = Len(visited) + 1
      BY <1>11
    <2>2. \A i \in DOMAIN visited : i \in DOMAIN visited'
      BY <1>11
    <2>3. Len(visited) + 1 \in DOMAIN visited'
      BY <1>11
    <2>4. Visited' = {visited'[i] : i \in DOMAIN visited'}
      BY DEF Visited
    <2> QED
      BY <1>11, <2>1, <2>2, <2>3, <2>4 DEF Visited
  <1>13. ASSUME NEW i \in DOMAIN visited', NEW j \in DOMAIN visited', visited'[i] = visited'[j]
         PROVE  i = j
    <2>1. (i \in DOMAIN visited \/ i = Len(visited) + 1) /\ (j \in DOMAIN visited \/ j = Len(visited) + 1)
      BY <1>11
    <2>2. \A n \in DOMAIN visited : visited'[n] = visited[n] /\ visited[n] # a
      BY <1>10, <1>11 DEF Visited
    <2>3. \A m, n \in DOMAIN visited : visited[m] = visited[n] => m = n
      BY <1>1 DEF WalkSound
    <2> QED
      BY <1>11, <1>13, <2>1, <2>2, <2>3
  <1>14. \A k : Passed(k)' <=> UpTo(hash, a, k)
    BY <1>4, <1>5, <1>7 DEF Passed, UpTo, At, Chain, hash_key_to_val
  <1>15. ASSUME NEW k \in Visited' PROVE hash_key_to_val(k) <= hash_key_to_val(a)
    <2>1. CASE k = a
      BY <1>4, <2>1
    <2>2. CASE k \in Visited
      <3>1. walk.at \in Key
        <4>1. visited # <<>>
          BY <2>2 DEF Visited
        <4> QED
          BY <1>0, <1>1, <1>2, <4>1 DEF WalkSound, Keys
      <3>2. hash_key_to_val(k) <= hash_key_to_val(walk.at) /\ k \in Key
        BY <1>0, <1>1, <1>6, <2>2, <3>1 DEF WalkSound, Visited
      <3>3. hash_key_to_val(k) \in Nat /\ hash_key_to_val(walk.at) \in Nat
        BY <3>1, <3>2, BucketOf DEF Buckets
      <3> QED
        BY <1>3, <1>4, <3>1, <3>2, <3>3
    <2> QED
      BY <1>12, <2>1, <2>2
  <1>16. ASSUME NEW k \in Visited', k \in Keys(hash) PROVE UpTo(hash, a, k)
    <2>1. CASE k \in Visited
      <3>1. walk.at \in Key
        <4>1. visited # <<>>
          BY <2>1 DEF Visited
        <4> QED
          BY <1>0, <1>1, <1>2, <4>1 DEF WalkSound, Keys
      <3>2. Passed(k)
        BY <1>0, <1>1, <1>16, <2>1, <3>1 DEF WalkSound
      <3> QED
        BY <1>3, <1>16, <3>2
    <2> QED
      BY <1>3, <1>12, <1>16, <2>1
  <1>17. ASSUME NEW k \in stable, UpTo(hash, a, k) PROVE k \in Visited'
    <2>1. k \in Keys(hash)
      BY <1>0, <1>1 DEF WalkSound
    <2>2. CASE Passed(k)
      <3>1. walk.at \in Key
        BY <2>2 DEF Passed
      <3> QED
        BY <1>0, <1>1, <1>12, <2>2, <3>1 DEF WalkSound
    <2> QED
      BY <1>3, <1>12, <1>17, <2>1, <2>2
  <1>18. WalkSound'
    <2>1. walk'.op \in {"each", "map"} /\ walk'.op # "none" /\ walk'.at # NoEntry /\ walk'.bucket = hash_key_to_val(walk'.at)
      BY <1>0, <1>4, <1>7
    <2>2. stable' \subseteq Keys(hash')
      BY <1>0, <1>1, <1>5 DEF WalkSound
    <2>3. walk'.at \in Keys(hash') /\ walk'.at \in Visited'
      BY <1>5, <1>7, <1>12
    <2>4. \A k \in Visited' : hash_key_to_val(k) <= walk'.bucket
      BY <1>7, <1>15
    <2>5. \A k \in Visited' : k \in Keys(hash') => Passed(k)'
      BY <1>5, <1>14, <1>16
    <2>6. \A k \in stable' : Passed(k)' => k \in Visited'
      BY <1>5, <1>14, <1>17
    <2> QED
      BY <1>13, <2>1, <2>2, <2>3, <2>4, <2>5, <2>6 DEF WalkSound, Keys, Passed, Present
  <1>19. OutSound'
    <2>1. Visited' \ {a} = Visited
      BY <1>10, <1>12
    <2>2. walk'.op = "map" => Table(walk'.out) /\ Keys(walk'.out) = Visited' \ {walk'.at}
      BY <1>2, <1>7, <2>1
    <2>3. walk'.at # NoEntry
      BY <1>4, <1>7
    <2> QED
      BY <2>2, <2>3 DEF OutSound
  <1>20. Table(hash')
    BY <1>1, <1>5
  <1> QED
    BY <1>9, <1>18, <1>19, <1>20 DEF HashInv, Table

\* A walk ends when it has passed every entry.
LEMMA EachDoneKeeps ==
    ASSUME HashInv, NEW v \in Val, EachDone(v)
    PROVE  HashInv'
  <1>0. walk.op \in {"each", "map"} /\ walk.at # Freed /\ Following.at = NoEntry
    BY DEF EachDone
  <1>1. TypeOK /\ Table(hash) /\ Tidy(hash) /\ WalkSound
    BY DEF HashInv, Table
  <1>2. /\ walk.at = NoEntry \/ (walk.at \in Keys(hash) /\ walk.bucket = hash_key_to_val(walk.at))
        /\ BlockReturns(v) \in FHash
    BY <1>0, Standing
  <1>3. \A k \in Keys(hash) : Passed(k)
    <2>1. \A a \in Keys(hash) : Following # [at |-> a, bucket |-> hash_key_to_val(a)]
      BY <1>0, HashAssumption DEF Keys
    <2> QED
      BY <1>1, <1>2, <2>1, FollowingIs
  <1>4. /\ walk' = [op |-> "none", at |-> NoEntry, bucket |-> 0, out |-> BlockReturns(v)]
        /\ hash' = hash /\ visited' = visited /\ stable' = stable
    BY DEF EachDone, NoWalk, history
  <1>5. TypeOK'
    <2>1. 0 \in 0..HashSize
      BY HashAssumption
    <2> QED
      BY <1>1, <1>2, <1>4, <2>1 DEF TypeOK
  <1>6. stable \subseteq Visited
    <2> SUFFICES ASSUME NEW k \in stable PROVE k \in Visited
      OBVIOUS
    <2>1. k \in Keys(hash)
      BY <1>0, <1>1 DEF WalkSound
    <2>2. Passed(k) /\ walk.at \in Key
      BY <1>3, <2>1 DEF Passed
    <2> QED
      BY <1>0, <1>1, <2>2 DEF WalkSound
  <1>7. WalkSound' /\ OutSound'
    <2>1. Visited' = Visited /\ walk'.op = "none"
      BY <1>4 DEF Visited
    <2>2. \A i, j \in DOMAIN visited : visited[i] = visited[j] => i = j
      BY <1>1 DEF WalkSound
    <2> QED
      BY <1>4, <1>6, <2>1, <2>2 DEF WalkSound, OutSound
  <1> QED
    BY <1>1, <1>4, <1>5, <1>7 DEF HashInv

\* Reading entry->next of freed memory is the end of what is modelled.
LEMMA EachFreedKeeps ==
    ASSUME HashInv, EachFreed
    PROVE  HashInv'
  <1>1. TypeOK /\ Table(hash) /\ WalkSound
    BY DEF HashInv
  <1>2. walk' = [walk EXCEPT !.op = "undefined", !.at = NoEntry] /\ hash' = hash /\ visited' = visited /\ stable' = stable
    BY DEF EachFreed, history
  <1>3. TypeOK' /\ walk'.op = "undefined"
    BY <1>1, <1>2 DEF TypeOK
  <1>4. WalkSound' /\ OutSound'
    BY <1>1, <1>2, <1>3 DEF WalkSound, OutSound
  <1> QED
    BY <1>1, <1>2, <1>3, <1>4 DEF HashInv

\* Every word keeps the invariant.
LEMMA HashStep == HashInv /\ [Next]_vars => HashInv'
  <1> SUFFICES ASSUME HashInv, [Next]_vars PROVE HashInv'
    OBVIOUS
  <1>1. Table(hash)
    BY DEF HashInv
  <1>2. ASSUME NEW k \in Key, NEW v \in Val, Set(k, v) PROVE HashInv'
    BY <1>2, SetKeeps
  <1>3. ASSUME NEW k \in Key, Ref(k) \/ Find(k) \/ Member(k) PROVE HashInv'
    BY <1>1, <1>3, ForgetKeeps DEF Ref, Find, Member, Answers
  <1>4. ASSUME NEW k \in Key, Delete(k) PROVE HashInv'
    BY <1>4, DeleteKeeps
  <1>5. ASSUME NEW k1 \in Key, NEW k2 \in Key, NEW v1 \in Val, NEW v2 \in Val, Values(<<<<k1, v1>>, <<k2, v2>>>>)
        PROVE  HashInv'
    BY <1>5, ValuesTable, ForgetKeeps DEF Values
  <1>6. CASE Clear
    BY <1>6, ClearKeeps
  <1>7. CASE ToArray
    BY <1>1, <1>7, ForgetKeeps DEF ToArray, Answers
  <1>8. CASE Copy
    BY <1>1, <1>8, CopyTable, ForgetKeeps DEF Copy, Copies
  <1>9. ASSUME NEW op \in {"each", "map"}, EachStart(op) PROVE HashInv'
    BY <1>9, EachStartKeeps
  <1>10. ASSUME NEW v \in Val, EachStep(v) \/ EachDone(v) PROVE HashInv'
    BY <1>10, EachStepKeeps, EachDoneKeeps
  <1>11. CASE EachFreed
    BY <1>11, EachFreedKeeps
  <1>12. CASE UNCHANGED vars
    <2>1. hash' = hash /\ walk' = walk /\ visited' = visited /\ stable' = stable
      BY <1>12 DEF vars, history
    <2> QED
      BY <2>1 DEF HashInv, TypeOK, WalkSound, OutSound, Passed, Visited
  <1> QED
    BY <1>2, <1>3, <1>4, <1>5, <1>6, <1>7, <1>8, <1>9, <1>10, <1>11, <1>12 DEF Next


-----------------------------------------------------------------------------
(* Theorems. *)

\* fth_hash_set, delete, clear, copy and >hash keep each key in the bucket of its
\* hash-id, once, and the length the number of keys; hash-each and hash-map have
\* visited what they have passed.
THEOREM HashInvariant == Spec => []HashInv
  BY HashInit, HashStep, PTL DEF Spec

\* hash-each and hash-map call their block at most once for each key, whatever
\* the block sets and deletes, and have called it for all that stayed in.
THEOREM EachVisitsOnce == Spec => []VisitsOnce
  <1>1. HashInv => VisitsOnce
    BY DEF HashInv, WalkSound, VisitsOnce, Visited
  <1> QED
    BY <1>1, HashInvariant, PTL

\* The hash that hash-map makes has the keys whose block has returned, and its
\* length counts its entries.
THEOREM MapMakesKeys == Spec => []MapFollowsWalk
  <1>1. HashInv => MapFollowsWalk
    <2> SUFFICES ASSUME HashInv, walk.op = "map"
                 PROVE  /\ walk.out.length = Len(Entries(walk.out))
                        /\ walk.at \in Key => Keys(walk.out) = Visited \ {walk.at}
      BY DEF MapFollowsWalk, Keys, Visited
    <2>1. Table(walk.out) /\ (walk.at \in Key => Keys(walk.out) = Visited \ {walk.at})
      BY DEF HashInv, OutSound
    <2> QED
      BY <2>1, EntriesCount DEF Table
  <1> QED
    BY <1>1, HashInvariant, PTL

\* Each word does to the hash, and answers, what it would with a map.
LEMMA StepRefines == HashInv /\ [Next]_vars => [Abstract!Next]_(Abstract!mapvars)
  <1> SUFFICES ASSUME HashInv, [Next]_vars PROVE [Abstract!Next]_(Abstract!mapvars)
    OBVIOUS
  <1>1. Table(hash)
    BY DEF HashInv
  <1>2. ASSUME NEW k \in Key, NEW v \in Val, Set(k, v) PROVE Abstract!Next
    BY <1>1, <1>2, SetRefines DEF Abstract!Next
  <1>3. ASSUME NEW k \in Key, Ref(k) \/ Find(k) \/ Member(k) PROVE Abstract!Next
    BY <1>1, <1>3, LookRefines DEF Abstract!Next
  <1>4. ASSUME NEW k \in Key, Delete(k) PROVE Abstract!Next
    BY <1>1, <1>4, DeleteRefines DEF Abstract!Next
  <1>5. ASSUME NEW k1 \in Key, NEW k2 \in Key, NEW v1 \in Val, NEW v2 \in Val, Values(<<<<k1, v1>>, <<k2, v2>>>>)
        PROVE  Abstract!Next
    <2>1. Abstract!Values(<<<<k1, v1>>, <<k2, v2>>>>)
      BY <1>5, ValuesRefines
    <2> QED
      BY <2>1, Zenon DEF Abstract!Next
  <1>6. CASE Clear
    BY <1>1, <1>6, ClearRefines DEF Abstract!Next
  <1>7. CASE ToArray
    BY <1>1, <1>7, ToArrayRefines DEF Abstract!Next
  <1>8. CASE Copy
    BY <1>1, <1>8, CopyRefines DEF Abstract!Next
  <1>9. ASSUME NEW op \in {"each", "map"}, EachStart(op) PROVE Abstract!EachStart
    <2>1. hash' = hash /\ result' = <<"start">>
      BY <1>9 DEF EachStart
    <2> QED
      BY <2>1 DEF Abstract!EachStart, Abstract!Asks
  <1>10. ASSUME NEW v \in Val, EachDone(v) PROVE Abstract!EachDone
    <2>1. hash' = hash /\ result' = <<"done">>
      BY <1>10 DEF EachDone
    <2> QED
      BY <2>1 DEF Abstract!EachDone, Abstract!Asks
  <1>11. ASSUME UNCHANGED <<hash, result>> PROVE UNCHANGED Abstract!mapvars
    BY <1>11 DEF Abstract!mapvars
  <1>12. ASSUME NEW v \in Val, EachStep(v) PROVE UNCHANGED <<hash, result>>
    BY <1>12 DEF EachStep
  <1>13. CASE EachFreed
    BY <1>11, <1>13 DEF EachFreed
  <1>14. CASE UNCHANGED vars
    BY <1>11, <1>14 DEF vars
  <1>15. (Abstract!EachStart => Abstract!Next) /\ (Abstract!EachDone => Abstract!Next)
    BY DEF Abstract!Next
  <1> QED
    BY <1>2, <1>3, <1>4, <1>5, <1>6, <1>7, <1>8, <1>9, <1>10, <1>11, <1>12, <1>13, <1>14, <1>15 DEF Next

\* A hash is a map: hash-set!, hash-ref, hash-delete!, hash-find, hash-copy,
\* hash->array, #{ } and what hash-each changes are words on a map.
THEOREM HashIsMap == Spec => RefinesMap
  <1>1. Spec => Abstract!Init /\ [][Abstract!Next]_(Abstract!mapvars)
    BY InitRefines, StepRefines, HashInvariant, PTL DEF Spec
  <1> QED
    BY <1>1 DEF RefinesMap, Abstract!Spec

\* A program that has hashes and association arrays keeps all of that: no word
\* of the one touches the other.
THEOREM TablesKeep == TablesSpec => []VisitsOnce /\ []MapFollowsWalk /\ RefinesMap
  <1>1. TablesInit => Init
    BY DEF TablesInit
  <1>2. [TablesNext]_<<vars, assocvars, kind>> => [Next]_vars
    BY DEF TablesNext
  <1>3. TablesSpec => Spec
    BY <1>1, <1>2, PTL DEF TablesSpec, Spec
  <1> QED
    BY <1>3, EachVisitsOnce, MapMakesKeys, HashIsMap, PTL

-----------------------------------------------------------------------------
(* The bisection. *)

\* The pairs <<beg, end>> the search goes through, and those less than n apart.
Pairs(a) == (0..Len(a)) \X (-1..(Len(a) - 1))
Near(a, n) == {p \in Pairs(a) : p[2] - p[1] < n}
\* One step of the search, and what it goes through.
Mid(p) == (p[1] + p[2]) \div 2
Probe(f, a, k, p) ==
    IF p[1] > p[2] THEN -1
    ELSE IF Id[k] = A!IdAt(a, Mid(p)) THEN Mid(p)
    ELSE IF Id[k] < A!IdAt(a, Mid(p)) THEN f[<<p[1], Mid(p) - 1>>]
    ELSE f[<<Mid(p) + 1, p[2]>>]
Searches(a, k, S, f) == f = [p \in S |-> Probe(f, a, k, p)]

\* The middle is between the ends, and both halves are nearer than the whole.
LEMMA Halves ==
    ASSUME NEW a, Len(a) \in Nat, NEW n \in Nat, NEW p \in Near(a, n + 1), p[1] <= p[2]
    PROVE  /\ p[1] \in Int /\ p[2] \in Int /\ p[1] >= 0 /\ p[2] <= Len(a) - 1
           /\ Mid(p) \in Int /\ p[1] <= Mid(p) /\ Mid(p) <= p[2]
           /\ <<p[1], Mid(p) - 1>> \in Near(a, n) /\ <<Mid(p) + 1, p[2]>> \in Near(a, n)
  <1>1. /\ p[1] \in Int /\ p[2] \in Int /\ p[1] >= 0 /\ p[1] <= Len(a) /\ p[2] >= -1
        /\ p[2] <= Len(a) - 1 /\ p[2] - p[1] < n + 1
    BY DEF Near, Pairs
  <1> DEFINE m == (p[1] + p[2]) \div 2
  <1>2. m \in Int /\ p[1] <= m /\ m <= p[2]
    BY <1>1
  <1>3. Mid(p) = m
    BY DEF Mid
  <1> HIDE DEF m
  <1>4. p[1] \in 0..Len(a) /\ m - 1 \in -1..(Len(a) - 1) /\ (m - 1) - p[1] < n
    BY <1>1, <1>2
  <1>5. m + 1 \in 0..Len(a) /\ p[2] \in -1..(Len(a) - 1) /\ p[2] - (m + 1) < n
    BY <1>1, <1>2
  <1>6. <<p[1], m - 1>> \in Near(a, n)
    BY <1>4 DEF Near, Pairs
  <1>7. <<m + 1, p[2]>> \in Near(a, n)
    BY <1>5 DEF Near, Pairs
  <1> QED
    BY <1>1, <1>2, <1>3, <1>6, <1>7

\* The recursion in assoc_index has a solution.
LEMMA SearchRuns ==
    ASSUME NEW a, Len(a) \in Nat, NEW k
    PROVE  \E f : Searches(a, k, Pairs(a), f) /\ A!assoc_index(a, k) = f[<<0, Len(a) - 1>>]
  <1> DEFINE P == {n \in Nat : \E f : Searches(a, k, Near(a, n), f)}
  <1>1. 0 \in P
    <2> DEFINE f == [p \in Near(a, 0) |-> -1]
    <2>1. \A p \in Near(a, 0) : Probe(f, a, k, p) = -1
      <3> SUFFICES ASSUME NEW p \in Near(a, 0) PROVE p[1] > p[2]
        BY DEF Probe
      <3>1. p[1] \in Int /\ p[2] \in Int /\ p[2] - p[1] < 0
        BY DEF Near, Pairs
      <3> QED
        BY <3>1
    <2>2. Searches(a, k, Near(a, 0), f)
      BY <2>1 DEF Searches
    <2> QED
      BY <2>2
  <1>2. ASSUME NEW n \in P PROVE n + 1 \in P
    <2>1. PICK f : Searches(a, k, Near(a, n), f)
      BY <1>2
    <2> DEFINE g == [p \in Near(a, n + 1) |-> IF p \in Near(a, n) THEN f[p] ELSE Probe(f, a, k, p)]
    <2>2. n \in Nat
      OBVIOUS
    <2>3. \A p \in Near(a, n) : f[p] = Probe(f, a, k, p)
      BY <2>1 DEF Searches
    <2>4. Near(a, n) \subseteq Near(a, n + 1)
      <3>1. ASSUME NEW p \in Near(a, n) PROVE p \in Near(a, n + 1)
        <4>1. p \in Pairs(a) /\ p[1] \in Int /\ p[2] \in Int /\ p[2] - p[1] < n
          BY DEF Near, Pairs
        <4>2. p[2] - p[1] < n + 1
          BY <2>2, <4>1
        <4> QED
          BY <4>1, <4>2 DEF Near
      <3> QED
        BY <3>1
    <2>5. \A p \in Near(a, n) : g[p] = f[p]
      BY <2>4
    <2>6. \A p \in Near(a, n + 1) : g[p] = Probe(f, a, k, p)
      BY <2>3, <2>4
    <2>7. g = [p \in Near(a, n + 1) |-> g[p]]
      OBVIOUS
    <2> HIDE DEF g
    <2>8. ASSUME NEW p \in Near(a, n + 1) PROVE Probe(f, a, k, p) = Probe(g, a, k, p)
      <3>1. CASE p[1] > p[2]
        BY <3>1 DEF Probe
      <3>2. CASE p[1] <= p[2]
        <4>1. <<p[1], Mid(p) - 1>> \in Near(a, n) /\ <<Mid(p) + 1, p[2]>> \in Near(a, n)
          BY <2>2, <3>2, Halves
        <4> QED
          BY <2>5, <4>1 DEF Probe
      <3>3. p[1] > p[2] \/ p[1] <= p[2]
        BY DEF Near, Pairs
      <3> QED
        BY <3>1, <3>2, <3>3
    <2>9. Searches(a, k, Near(a, n + 1), g)
      BY <2>6, <2>7, <2>8 DEF Searches
    <2> QED
      BY <2>2, <2>9
  <1>3. Len(a) + 1 \in P
    <2> HIDE DEF P
    <2>1. P \in SUBSET Nat /\ Len(a) + 1 \in Nat
      BY DEF P
    <2> QED
      BY <1>1, <1>2, <2>1, Upward
  <1>4. Near(a, Len(a) + 1) = Pairs(a)
    BY DEF Near, Pairs
  <1>5. \E f : Searches(a, k, Pairs(a), f)
    BY <1>3, <1>4
  <1> DEFINE u == CHOOSE f : Searches(a, k, Pairs(a), f)
  <1>6. Searches(a, k, Pairs(a), u)
    BY <1>5
  <1>7. A!assoc_index(a, k) = u[<<0, Len(a) - 1>>]
    BY DEF A!assoc_index, Searches, Probe, Mid, Pairs
  <1> QED
    BY <1>6, <1>7

\* The cells are sorted by the hash-ids of their keys.
Sorted(a) == \A i, j \in 1..Len(a) : i <= j => Id[a[i].key] <= Id[a[j].key]
\* What a search between p[1] and p[2] may answer.
Found(a, k, p, r) ==
    /\ r = -1 \/ (r \in Int /\ p[1] <= r /\ r <= p[2] /\ A!IdAt(a, r) = Id[k])
    /\ Sorted(a) /\ r = -1 => \A i \in p[1]..p[2] : A!IdAt(a, i) # Id[k]

\* The ids are numbers.
LEMMA CellIds ==
    ASSUME NEW a \in Seq(A!Cell), NEW i \in 0..(Len(a) - 1)
    PROVE  /\ i + 1 \in 1..Len(a) /\ a[i + 1] \in A!Cell /\ a[i + 1].key \in Key
           /\ A!IdAt(a, i) \in Nat /\ A!IdAt(a, i) = Id[a[i + 1].key]
  <1>1. i + 1 \in 1..Len(a)
    BY DEF A!Cell
  <1>2. a[i + 1] \in A!Cell
    BY <1>1
  <1>3. a[i + 1].key \in Key
    BY <1>2 DEF A!Cell
  <1> QED
    BY <1>1, <1>2, <1>3, HashAssumption DEF A!IdAt

\* A search finds a cell with the id of k if there is one between the ends.
LEMMA SearchFinds ==
    ASSUME NEW a \in Seq(A!Cell), NEW k \in Key, NEW f, Searches(a, k, Pairs(a), f)
    PROVE  \A p \in Pairs(a) : Found(a, k, p, f[p])
  <1>0. Len(a) \in Nat /\ Id[k] \in Nat
    BY HashAssumption
  <1>1. \A p \in Pairs(a) : f[p] = Probe(f, a, k, p)
    BY DEF Searches
  <1> DEFINE P == {n \in Nat : \A p \in Near(a, n) : Found(a, k, p, f[p])}
  <1>2. ASSUME NEW p \in Pairs(a), p[1] > p[2] PROVE Found(a, k, p, f[p])
    <2>1. f[p] = -1
      BY <1>1, <1>2 DEF Probe
    <2>2. p[1] \in Int /\ p[2] \in Int
      BY DEF Pairs
    <2>3. p[1]..p[2] = {}
      BY <1>2, <2>2
    <2> QED
      BY <2>1, <2>3 DEF Found
  <1>3. 0 \in P
    <2> SUFFICES ASSUME NEW p \in Near(a, 0) PROVE Found(a, k, p, f[p])
      OBVIOUS
    <2>1. p \in Pairs(a) /\ p[1] \in Int /\ p[2] \in Int /\ p[2] - p[1] < 0
      BY DEF Near, Pairs
    <2>2. p[1] > p[2]
      BY <2>1
    <2> QED
      BY <1>2, <2>1, <2>2
  <1>4. ASSUME NEW n \in P PROVE n + 1 \in P
    <2>0. n \in Nat
      OBVIOUS
    <2> SUFFICES ASSUME NEW p \in Near(a, n + 1) PROVE Found(a, k, p, f[p])
      BY <2>0
    <2>1. p \in Pairs(a)
      BY DEF Near
    <2>2. CASE p[1] > p[2]
      BY <1>2, <2>1, <2>2
    <2>3. CASE p[1] <= p[2]
      <3> DEFINE m == Mid(p)
                 b == p[1]
                 e == p[2]
                 lo == <<b, m - 1>>
                 hi == <<m + 1, e>>
      <3>1. /\ b \in Int /\ e \in Int /\ b >= 0 /\ e <= Len(a) - 1 /\ m \in Int /\ b <= m /\ m <= e
            /\ lo \in Near(a, n) /\ hi \in Near(a, n)
        BY <1>0, <2>0, <2>3, Halves
      <3>2. Found(a, k, lo, f[lo]) /\ Found(a, k, hi, f[hi])
        BY <3>1
      <3>3. f[p] = IF Id[k] = A!IdAt(a, m) THEN m ELSE IF Id[k] < A!IdAt(a, m) THEN f[lo] ELSE f[hi]
        <4>1. ~(p[1] > p[2])
          BY <2>3, <3>1
        <4> QED
          BY <1>1, <2>1, <4>1 DEF Probe
      <3>4. lo[1] = b /\ lo[2] = m - 1 /\ hi[1] = m + 1 /\ hi[2] = e
        OBVIOUS
      <3> HIDE DEF m, b, e, lo, hi
      <3>5. m \in 0..(Len(a) - 1) /\ A!IdAt(a, m) \in Nat
        BY <1>0, <3>1, CellIds
      <3>6. ASSUME NEW i \in b..e, NEW j \in b..e, i <= j, Sorted(a)
            PROVE  A!IdAt(a, i) <= A!IdAt(a, j) /\ A!IdAt(a, i) \in Nat /\ A!IdAt(a, j) \in Nat
        <4>1. i \in 0..(Len(a) - 1) /\ j \in 0..(Len(a) - 1) /\ i + 1 <= j + 1
          BY <1>0, <3>1, <3>6
        <4>2. i + 1 \in 1..Len(a) /\ j + 1 \in 1..Len(a)
          BY <4>1, CellIds
        <4> QED
          BY <3>6, <4>1, <4>2, CellIds DEF Sorted
      <3>7. m \in b..e
        BY <3>1
      <3>8. CASE Id[k] = A!IdAt(a, m)
        <4>1. f[p] = m /\ m # -1
          BY <3>1, <3>3, <3>8
        <4> QED
          BY <3>1, <3>8, <4>1 DEF Found, b, e
      <3>9. CASE Id[k] < A!IdAt(a, m)
        <4>1. f[p] = f[lo]
          BY <1>0, <3>3, <3>5, <3>9
        <4>2. f[lo] = -1 \/ (f[lo] \in Int /\ b <= f[lo] /\ f[lo] <= e /\ A!IdAt(a, f[lo]) = Id[k])
          BY <3>1, <3>2, <3>4 DEF Found
        <4>3. ASSUME Sorted(a), f[lo] = -1, NEW i \in b..e PROVE A!IdAt(a, i) # Id[k]
          <5>1. CASE i < m
            <6>1. i \in lo[1]..lo[2]
              BY <3>1, <3>4, <5>1
            <6> QED
              BY <3>2, <4>3, <6>1 DEF Found
          <5>2. CASE i >= m
            <6>1. A!IdAt(a, m) <= A!IdAt(a, i) /\ A!IdAt(a, i) \in Nat
              BY <3>6, <3>7, <4>3, <5>2
            <6> QED
              BY <1>0, <3>5, <3>9, <6>1
          <5>3. i < m \/ i >= m
            BY <3>1
          <5> QED
            BY <5>1, <5>2, <5>3
        <4> QED
          BY <4>1, <4>2, <4>3 DEF Found, b, e
      <3>10. CASE ~(Id[k] = A!IdAt(a, m)) /\ ~(Id[k] < A!IdAt(a, m))
        <4>0. A!IdAt(a, m) < Id[k]
          BY <1>0, <3>5, <3>10
        <4>1. f[p] = f[hi]
          BY <3>3, <3>10
        <4>2. f[hi] = -1 \/ (f[hi] \in Int /\ b <= f[hi] /\ f[hi] <= e /\ A!IdAt(a, f[hi]) = Id[k])
          BY <3>1, <3>2, <3>4 DEF Found
        <4>3. ASSUME Sorted(a), f[hi] = -1, NEW i \in b..e PROVE A!IdAt(a, i) # Id[k]
          <5>1. CASE i > m
            <6>1. i \in hi[1]..hi[2]
              BY <3>1, <3>4, <5>1
            <6> QED
              BY <3>2, <4>3, <6>1 DEF Found
          <5>2. CASE i <= m
            <6>1. A!IdAt(a, i) <= A!IdAt(a, m) /\ A!IdAt(a, i) \in Nat
              BY <3>6, <3>7, <4>3, <5>2
            <6> QED
              BY <1>0, <3>5, <4>0, <6>1
          <5>3. i > m \/ i <= m
            BY <3>1
          <5> QED
            BY <5>1, <5>2, <5>3
        <4> QED
          BY <4>1, <4>2, <4>3 DEF Found, b, e
      <3> QED
        BY <3>8, <3>9, <3>10
    <2>4. p[1] > p[2] \/ p[1] <= p[2]
      BY <2>1 DEF Pairs
    <2> QED
      BY <2>2, <2>3, <2>4
  <1>5. P = Nat
    <2> HIDE DEF P
    <2>1. P \in SUBSET Nat
      BY DEF P
    <2> QED
      BY <1>3, <1>4, <2>1, Upward
  <1>6. Len(a) + 1 \in P /\ Near(a, Len(a) + 1) = Pairs(a)
    BY <1>0, <1>5 DEF Near, Pairs
  <1> QED
    BY <1>6

\* array-assoc answers the index of a cell with the id of the key or -1, and in a
\* sorted array -1 only when there is none.
LEMMA IndexIs ==
    ASSUME NEW a \in Seq(A!Cell), NEW k \in Key
    PROVE  /\ A!assoc_index(a, k) = -1 \/ (A!assoc_index(a, k) \in 0..(Len(a) - 1)
                                           /\ A!assoc_index(a, k) + 1 \in A!Matches(a, k))
           /\ Sorted(a) /\ A!Matches(a, k) # {} => A!assoc_index(a, k) # -1
  <1>0. Len(a) \in Nat
    OBVIOUS
  <1>1. PICK f : Searches(a, k, Pairs(a), f) /\ A!assoc_index(a, k) = f[<<0, Len(a) - 1>>]
    BY <1>0, SearchRuns
  <1> DEFINE p == <<0, Len(a) - 1>>
             r == A!assoc_index(a, k)
  <1>2. p \in Pairs(a)
    <2>1. 0 \in 0..Len(a) /\ Len(a) - 1 \in -1..(Len(a) - 1)
      BY <1>0
    <2> QED
      BY <2>1 DEF Pairs
  <1>3. Found(a, k, p, r) /\ p[1] = 0 /\ p[2] = Len(a) - 1
    BY <1>1, <1>2, SearchFinds
  <1> HIDE DEF p, r
  <1>4. r = -1 \/ (r \in 0..(Len(a) - 1) /\ A!IdAt(a, r) = Id[k])
    BY <1>0, <1>3 DEF Found
  <1>5. ASSUME r \in 0..(Len(a) - 1), A!IdAt(a, r) = Id[k] PROVE r + 1 \in A!Matches(a, k)
    BY <1>5, CellIds DEF A!Matches
  <1>6. ASSUME Sorted(a), NEW m \in A!Matches(a, k) PROVE r # -1
    <2>1. m \in 1..Len(a) /\ Id[a[m].key] = Id[k]
      BY DEF A!Matches
    <2>2. m - 1 \in 0..(Len(a) - 1) /\ (m - 1) + 1 = m
      BY <1>0, <2>1
    <2>3. A!IdAt(a, m - 1) = Id[k]
      BY <2>1, <2>2, CellIds
    <2>4. m - 1 \in p[1]..p[2]
      BY <1>3, <2>2
    <2> QED
      BY <1>3, <1>6, <2>3, <2>4 DEF Found
  <1> QED
    BY <1>4, <1>5, <1>6 DEF r


-----------------------------------------------------------------------------
(* The changes. *)

\* A cell goes in at place i, counted from 0.
InsertAt(a, i, e) == SubSeq(a, 1, i) \o <<e>> \o SubSeq(a, i + 1, Len(a))

\* b is a with e in that place.
Inserted(a, i, e, b) ==
    /\ b \in Seq(A!Cell) /\ Len(b) = Len(a) + 1 /\ b[i + 1] = e
    /\ \A j \in 1..Len(a) : \E m \in 1..(Len(a) + 1) : b[m] = a[j]
    /\ \A j \in 1..(Len(a) + 1) : b[j] = IF j <= i THEN a[j] ELSE IF j = i + 1 THEN e ELSE a[j - 1]

\* array_insert puts the cell in its place and moves those behind it.
LEMMA InsertAtIs ==
    ASSUME NEW a \in Seq(A!Cell), NEW i \in 0..Len(a), NEW e \in A!Cell
    PROVE  Inserted(a, i, e, InsertAt(a, i, e))
  <1> DEFINE b == SubSeq(a, 1, i)
             d == SubSeq(a, i + 1, Len(a))
             s == b \o <<e>>
  <1>0. Len(a) \in Nat /\ i \in Nat /\ i <= Len(a)
    OBVIOUS
  <1>1. b \in Seq(A!Cell) /\ Len(b) = i /\ \A j \in 1..i : b[j] = a[j]
    BY <1>0
  <1>2. d \in Seq(A!Cell) /\ Len(d) = Len(a) - i /\ \A j \in 1..(Len(a) - i) : d[j] = a[i + j]
    BY <1>0
  <1> HIDE DEF b, d
  <1>3. s \in Seq(A!Cell) /\ Len(s) = i + 1
        /\ \A j \in 1..(i + 1) : s[j] = IF j <= i THEN b[j] ELSE e
    BY <1>0, <1>1
  <1> HIDE DEF s
  <1> DEFINE t == s \o d
  <1>4. t \in Seq(A!Cell) /\ Len(t) = Len(a) + 1
    <2>1. d \in Seq(A!Cell) /\ s \in Seq(A!Cell) /\ Len(s) + Len(d) = Len(a) + 1
      BY <1>0, <1>2, <1>3
    <2> QED
      BY <2>1
  <1>5. \A j \in 1..(Len(a) + 1) : t[j] = IF j <= i + 1 THEN s[j] ELSE d[j - (i + 1)]
    <2>1. \A j \in 1..(Len(s) + Len(d)) : t[j] = IF j <= Len(s) THEN s[j] ELSE d[j - Len(s)]
      BY <1>2, <1>3
    <2>2. Len(s) + Len(d) = Len(a) + 1 /\ Len(s) = i + 1
      BY <1>0, <1>2, <1>3
    <2> HIDE DEF t
    <2> QED
      BY <2>1, <2>2
  <1> HIDE DEF t
  <1>6. ASSUME NEW j \in 1..(Len(a) + 1)
        PROVE  t[j] = IF j <= i THEN a[j] ELSE IF j = i + 1 THEN e ELSE a[j - 1]
    <2>0. j \in Int /\ j >= 1 /\ j <= Len(a) + 1
      BY <1>0
    <2>1. CASE j <= i
      <3>1. j \in 1..i /\ j \in 1..(i + 1) /\ j <= i + 1
        BY <1>0, <2>0, <2>1
      <3> QED
        BY <1>1, <1>3, <1>5, <2>1, <3>1
    <2>2. CASE j = i + 1
      <3>1. j \in 1..(i + 1) /\ j <= i + 1 /\ ~(j <= i)
        BY <1>0, <2>0, <2>2
      <3> QED
        BY <1>3, <1>5, <2>2, <3>1
    <2>3. CASE j > i + 1
      <3>1. j - (i + 1) \in 1..(Len(a) - i) /\ i + (j - (i + 1)) = j - 1
            /\ ~(j <= i + 1) /\ ~(j <= i) /\ j # i + 1
        BY <1>0, <2>0, <2>3
      <3>2. d[j - (i + 1)] = a[j - 1]
        BY <1>2, <3>1
      <3> QED
        BY <1>5, <3>1, <3>2
    <2>4. j <= i \/ j = i + 1 \/ j > i + 1
      BY <1>0, <2>0
    <2> QED
      BY <2>1, <2>2, <2>3, <2>4
  <1>7. t = InsertAt(a, i, e)
    BY DEF InsertAt, t, s, b, d
  <1>8. t[i + 1] = e
    <2>1. i + 1 \in 1..(Len(a) + 1) /\ ~(i + 1 <= i)
      BY <1>0
    <2> QED
      BY <1>6, <2>1
  <1>9. ASSUME NEW j \in 1..Len(a) PROVE \E m \in 1..(Len(a) + 1) : t[m] = a[j]
    <2>1. CASE j <= i
      <3>1. j \in 1..(Len(a) + 1)
        BY <1>0
      <3>2. t[j] = a[j]
        BY <1>6, <2>1, <3>1
      <3> QED
        BY <3>1, <3>2
    <2>2. CASE ~(j <= i)
      <3>1. j + 1 \in 1..(Len(a) + 1) /\ ~(j + 1 <= i) /\ j + 1 # i + 1 /\ (j + 1) - 1 = j
        BY <1>0, <2>2
      <3>2. t[j + 1] = a[j]
        BY <1>6, <3>1
      <3> QED
        BY <3>1, <3>2
    <2> QED
      BY <2>1, <2>2
  <1> QED
    BY <1>4, <1>6, <1>7, <1>8, <1>9 DEF Inserted

\* assoc puts the cell behind those with a smaller or the same id.
LEMMA PlaceForIs ==
    ASSUME NEW a \in Seq(A!Cell), NEW n \in Nat
    PROVE  /\ A!InsertPlace(a, n) \in 0..Len(a)
           /\ Sorted(a) => /\ \A j \in 1..Len(a) : j <= A!InsertPlace(a, n) => Id[a[j].key] <= n
                           /\ \A j \in 1..Len(a) : j > A!InsertPlace(a, n) => n < Id[a[j].key]
  <1> DEFINE G == {i \in 0..(Len(a) - 1) : n < A!IdAt(a, i)}
             r == A!InsertPlace(a, n)
  <1>0. Len(a) \in Nat
    OBVIOUS
  <1>1. ASSUME NEW j \in 1..Len(a)
        PROVE  j - 1 \in 0..(Len(a) - 1) /\ A!IdAt(a, j - 1) = Id[a[j].key] /\ Id[a[j].key] \in Nat
    <2>1. j - 1 \in 0..(Len(a) - 1) /\ (j - 1) + 1 = j
      BY <1>0
    <2> QED
      BY <2>1, CellIds
  <1>2. CASE G = {}
    <2>1. r = Len(a)
      BY <1>2 DEF A!InsertPlace
    <2>2. \A j \in 1..Len(a) : Id[a[j].key] <= n
      BY <1>1, <1>2
    <2> QED
      BY <1>0, <2>1, <2>2
  <1>3. CASE G # {}
    <2>1. G \in SUBSET Nat
      OBVIOUS
    <2>2. \E i \in G : \A j \in G : i <= j
      <3> HIDE DEF G
      <3> QED
        BY <1>3, <2>1, Least
    <2>3. r = CHOOSE i \in G : \A j \in G : i <= j
      BY <1>3 DEF A!InsertPlace
    <2>4. r \in G /\ \A j \in G : r <= j
      <3> HIDE DEF G, r
      <3> QED
        BY <2>2, <2>3
    <2> HIDE DEF r
    <2>5. r \in 0..(Len(a) - 1) /\ r \in Nat /\ r <= Len(a) - 1 /\ n < A!IdAt(a, r)
      BY <1>0, <2>4
    <2>6. r + 1 \in 1..Len(a) /\ Id[a[r + 1].key] = A!IdAt(a, r)
      BY <2>5, CellIds
    <2>7. ASSUME NEW j \in 1..Len(a), j <= r PROVE Id[a[j].key] <= n
      <3>1. j - 1 \notin G
        <4>1. j \in Int /\ ~(r <= j - 1)
          BY <1>0, <2>5, <2>7
        <4> QED
          BY <2>4, <4>1
      <3>2. ~(n < Id[a[j].key])
        BY <1>1, <3>1
      <3> QED
        BY <1>1, <3>2
    <2>8. ASSUME Sorted(a), NEW j \in 1..Len(a), j > r PROVE n < Id[a[j].key]
      <3>1. r + 1 <= j
        BY <2>5, <2>8
      <3>2. Id[a[r + 1].key] <= Id[a[j].key] /\ Id[a[r + 1].key] \in Nat
        BY <1>1, <2>6, <2>8, <3>1 DEF Sorted
      <3> QED
        BY <1>1, <2>5, <2>6, <3>2
    <2>9. r \in 0..Len(a)
      BY <1>0, <2>5
    <2> QED
      BY <2>7, <2>8, <2>9 DEF r
  <1> QED
    BY <1>2, <1>3

\* b has for the keys with other ids than k the cells of a, and is sorted if a is.
Others(a, b, k) ==
    /\ b \in Seq(A!Cell)
    /\ Sorted(a) => Sorted(b)
    /\ \A m \in 1..Len(b) : Id[b[m].key] # Id[k] => \E n \in 1..Len(a) : b[m] = a[n]
    /\ \A n \in 1..Len(a) : Id[a[n].key] # Id[k] => \E m \in 1..Len(b) : b[m] = a[n]

\* The ids at two places.
LEMMA IdsAre ==
    ASSUME NEW a \in Seq(A!Cell), NEW i \in 1..Len(a)
    PROVE  a[i] \in A!Cell /\ a[i].key \in Key /\ Id[a[i].key] \in Nat
  <1>1. a[i] \in A!Cell
    OBVIOUS
  <1> QED
    BY <1>1, HashAssumption DEF A!Cell

\* assoc, array-assoc-set! and list-assoc-set! of a key that is not there.
LEMMA AssocAdds ==
    ASSUME NEW a \in Seq(A!Cell), NEW k \in Key, NEW v \in Val
    PROVE  Others(a, A!fth_assoc(a, k, v), k)
  <1> DEFINE e == [key |-> k, value |-> v]
             n == Id[k]
             i == A!InsertPlace(a, n)
             b == InsertAt(a, i, e)
  <1>0. Len(a) \in Nat /\ n \in Nat /\ e \in A!Cell /\ e.key = k
    BY HashAssumption DEF A!Cell
  <1>1. A!fth_assoc(a, k, v) = b
    BY DEF A!fth_assoc, A!assoc_insert, InsertAt
  <1>2. i \in 0..Len(a)
        /\ (Sorted(a) => /\ \A j \in 1..Len(a) : j <= i => Id[a[j].key] <= n
                         /\ \A j \in 1..Len(a) : j > i => n < Id[a[j].key])
    BY <1>0, PlaceForIs
  <1> HIDE DEF i, e, n
  <1>3. /\ b \in Seq(A!Cell) /\ Len(b) = Len(a) + 1
        /\ \A j \in 1..Len(a) : \E m \in 1..(Len(a) + 1) : b[m] = a[j]
        /\ \A j \in 1..(Len(a) + 1) : b[j] = IF j <= i THEN a[j] ELSE IF j = i + 1 THEN e ELSE a[j - 1]
    <2>1. i \in 0..Len(a) /\ e \in A!Cell
      BY <1>0, <1>2
    <2>2. Inserted(a, i, e, b)
      BY <2>1, InsertAtIs
    <2> HIDE DEF b
    <2> QED
      BY <2>2 DEF Inserted
  <1> HIDE DEF b
  <1>4. \A j \in 1..Len(b) : (j <= i /\ j \in 1..Len(a)) \/ j = i + 1 \/ (j > i + 1 /\ j - 1 \in 1..Len(a))
    BY <1>0, <1>2, <1>3
  <1>5. ASSUME NEW m \in 1..Len(b), Id[b[m].key] # Id[k] PROVE \E j \in 1..Len(a) : b[m] = a[j]
    <2>1. m # i + 1
      <3>1. m = i + 1 => ~(m <= i)
        BY <1>2
      <3> QED
        BY <1>0, <1>3, <1>5, <3>1
    <2>2. CASE m <= i /\ m \in 1..Len(a)
      BY <1>3, <2>2
    <2>3. CASE m > i + 1 /\ m - 1 \in 1..Len(a)
      <3>1. ~(m <= i)
        BY <1>2, <2>3
      <3> QED
        BY <1>3, <2>1, <2>3, <3>1
    <2> QED
      BY <1>4, <2>1, <2>2, <2>3
  <1>6. \A j \in 1..Len(a) : \E m \in 1..Len(b) : b[m] = a[j]
    BY <1>3
  <1>7. ASSUME Sorted(a), NEW x \in 1..Len(b), NEW y \in 1..Len(b), x <= y
        PROVE  Id[b[x].key] <= Id[b[y].key]
    <2> DEFINE z(q) == IF q <= i THEN q ELSE q - 1
    <2>1. \A q \in 1..Len(b) : b[q] = (IF q = i + 1 THEN e ELSE a[z(q)]) /\ (q # i + 1 => z(q) \in 1..Len(a))
      BY <1>0, <1>2, <1>3, <1>4
    <2>2. x \in Int /\ y \in Int /\ i \in Nat
      BY <1>2
    <2>3. CASE x # i + 1 /\ y # i + 1
      <3>1. z(x) <= z(y)
        BY <1>7, <2>2, <2>3
      <3> HIDE DEF z
      <3> QED
        BY <1>7, <2>1, <2>3, <3>1 DEF Sorted
    <2>4. CASE x = i + 1 /\ y # i + 1
      <3>1. z(y) > i /\ z(y) = y - 1
        BY <1>7, <2>2, <2>4
      <3>2. z(y) \in 1..Len(a) /\ b[y] = a[z(y)] /\ b[x] = e
        BY <2>1, <2>4
      <3> HIDE DEF z
      <3>3. n < Id[a[z(y)].key]
        BY <1>2, <1>7, <3>1, <3>2
      <3>4. Id[a[z(y)].key] \in Nat
        BY <3>2, IdsAre
      <3> QED
        BY <1>0, <3>2, <3>3, <3>4 DEF n
    <2>5. CASE y = i + 1 /\ x # i + 1
      <3>1. z(x) <= i /\ z(x) = x
        BY <1>7, <2>2, <2>5
      <3>2. z(x) \in 1..Len(a) /\ b[x] = a[z(x)] /\ b[y] = e
        BY <2>1, <2>5
      <3> HIDE DEF z
      <3>3. Id[a[z(x)].key] <= n
        BY <1>2, <1>7, <3>1, <3>2
      <3> QED
        BY <1>0, <3>2, <3>3 DEF n
    <2>6. CASE x = i + 1 /\ y = i + 1
      BY <1>0, <2>1, <2>6 DEF n
    <2> QED
      BY <2>3, <2>4, <2>5, <2>6
  <1>8. Sorted(a) => Sorted(b)
    BY <1>7 DEF Sorted
  <1> QED
    BY <1>1, <1>3, <1>5, <1>6, <1>8 DEF Others


\* Another cell is put in, or the cell gets another key and another value: what
\* array-assoc-set! and list-assoc-set! do.
Replaced(a, i, k, v) == [a EXCEPT ![i] = [key |-> k, value |-> v]]
Rewritten(a, i, k, v) == [a EXCEPT ![i].key = k, ![i].value = v]

\* array-assoc-set! and list-assoc-set! of a key that is there: the cell found gets key and value.
LEMMA CellSet ==
    ASSUME NEW a \in Seq(A!Cell), NEW k \in Key, NEW v \in Val, NEW i \in 1..Len(a), Id[a[i].key] = Id[k]
    PROVE  Others(a, Replaced(a, i, k, v), k) /\ Rewritten(a, i, k, v) = Replaced(a, i, k, v)
  <1> DEFINE e == [key |-> k, value |-> v]
             b == [a EXCEPT ![i] = e]
  <1>1. e \in A!Cell /\ e.key = k /\ e.value = v
    BY DEF A!Cell
  <1>2. b \in Seq(A!Cell) /\ Len(b) = Len(a) /\ \A j \in 1..Len(a) : b[j] = IF j = i THEN e ELSE a[j]
    <2> HIDE DEF e
    <2> QED
      BY <1>1
  <1>3. [a EXCEPT ![i].key = k, ![i].value = v] = b
    <2>1. a[i] \in A!Cell
      OBVIOUS
    <2>2. \A c \in A!Cell : [[c EXCEPT !.key = k] EXCEPT !.value = v] = e
      <3> SUFFICES ASSUME NEW c \in A!Cell PROVE [[c EXCEPT !.key = k] EXCEPT !.value = v] = e
        OBVIOUS
      <3>1. [c EXCEPT !.key = k] = [key |-> k, value |-> c.value]
        BY DEF A!Cell
      <3>2. [[key |-> k, value |-> c.value] EXCEPT !.value = v] = e
        OBVIOUS
      <3> QED
        BY <3>1, <3>2
    <2> DEFINE d == [a EXCEPT ![i] = [a[i] EXCEPT !.key = k]]
    <2>3. [a EXCEPT ![i].key = k, ![i].value = v] = [d EXCEPT ![i] = [d[i] EXCEPT !.value = v]]
      OBVIOUS
    <2>4. d[i] = [a[i] EXCEPT !.key = k]
      OBVIOUS
    <2>5. [d[i] EXCEPT !.value = v] = e
      BY <2>1, <2>2, <2>4
    <2>6. [d EXCEPT ![i] = e] = b
      <3> HIDE DEF e
      <3> QED
        OBVIOUS
    <2> HIDE DEF e, b, d
    <2> QED
      BY <2>3, <2>5, <2>6
  <1> HIDE DEF b, e
  <1>4. \A j \in 1..Len(a) : Id[b[j].key] = Id[a[j].key]
    BY <1>1, <1>2
  <1>5. Sorted(a) => Sorted(b)
    BY <1>2, <1>4 DEF Sorted
  <1>6. \A j \in 1..Len(a) : Id[a[j].key] # Id[k] => b[j] = a[j]
    BY <1>2
  <1>7. Others(a, b, k)
    BY <1>2, <1>4, <1>5, <1>6 DEF Others
  <1> QED
    BY <1>3, <1>7 DEF b, e, Rewritten, Replaced

\* array-assoc-remove! and list-assoc-remove!: the cell found goes.
LEMMA CellRemoved ==
    ASSUME NEW a \in Seq(A!Cell), NEW k \in Key, NEW i \in 0..(Len(a) - 1), Id[a[i + 1].key] = Id[k]
    PROVE  Others(a, A!RemoveAt(a, i), k)
  <1> DEFINE p == i + 1
             b == A!RemoveAt(a, i)
  <1>0. Len(a) \in Nat /\ p \in 1..Len(a) /\ p \in Nat /\ p - 1 = i /\ p + 1 = i + 2
    OBVIOUS
  <1>1. b = Unlink(a, p)
    BY <1>0 DEF A!RemoveAt, Unlink
  <1>2. A!Cell = Item
    BY DEF A!Cell, Item
  <1> HIDE DEF p, b
  <1>3. /\ b \in Seq(A!Cell) /\ Len(b) = Len(a) - 1
        /\ \A j \in 1..(Len(a) - 1) : b[j] = IF j < p THEN a[j] ELSE a[j + 1]
    BY <1>0, <1>1, <1>2, UnlinkChain
  <1> DEFINE up(j) == IF j < p THEN j ELSE j + 1
  <1>4. \A j \in 1..Len(b) : up(j) \in 1..Len(a) /\ b[j] = a[up(j)]
    BY <1>0, <1>3
  <1>5. \A j, m \in 1..Len(b) : j <= m => up(j) <= up(m)
    BY <1>0, <1>3
  <1>6. ASSUME NEW n \in 1..Len(a), Id[a[n].key] # Id[k] PROVE \E m \in 1..Len(b) : b[m] = a[n]
    <2>0. n # p /\ n \in Int
      BY <1>6 DEF p
    <2>1. CASE n < p
      <3>1. n \in 1..Len(b) /\ up(n) = n
        BY <1>0, <1>3, <2>0, <2>1
      <3> HIDE DEF up
      <3> QED
        BY <1>4, <3>1
    <2>2. CASE n > p
      <3>1. n - 1 \in 1..Len(b) /\ up(n - 1) = n
        BY <1>0, <1>3, <2>0, <2>2
      <3> HIDE DEF up
      <3> QED
        BY <1>4, <3>1
    <2>3. n < p \/ n > p
      BY <1>0, <2>0
    <2> QED
      BY <2>1, <2>2, <2>3
  <1> HIDE DEF up
  <1>7. Sorted(a) => Sorted(b)
    BY <1>4, <1>5 DEF Sorted
  <1> QED
    BY <1>3, <1>4, <1>6, <1>7 DEF Others, b

\* The words that change one key.
LEMMA WordsKeepOthers ==
    ASSUME NEW a \in Seq(A!Cell), NEW k \in Key
    PROVE  /\ \A v \in Val : /\ Others(a, A!fth_assoc(a, k, v), k)
                             /\ Others(a, A!fth_array_assoc_set(a, k, v), k)
                             /\ Others(a, A!fth_list_assoc_set(a, k, v), k)
           /\ Others(a, A!fth_array_assoc_remove(a, k), k)
           /\ Others(a, A!fth_list_assoc_remove(a, k), k)
  <1> DEFINE i == A!assoc_index(a, k)
  <1>1. i = -1 \/ (i \in 0..(Len(a) - 1) /\ i + 1 \in A!Matches(a, k))
    BY IndexIs
  <1>2. \A v \in Val : Others(a, A!fth_assoc(a, k, v), k)
    BY AssocAdds
  <1>3. Others(a, a, k)
    BY DEF Others
  <1>4. CASE i = -1
    <2>1. ~(i >= 0)
      BY <1>4
    <2> QED
      BY <1>2, <1>3, <2>1 DEF A!fth_array_assoc_set, A!fth_list_assoc_set, A!fth_array_assoc_remove, A!fth_list_assoc_remove
  <1>5. CASE i \in 0..(Len(a) - 1) /\ i + 1 \in A!Matches(a, k)
    <2>1. i >= 0 /\ i + 1 \in 1..Len(a) /\ Id[a[i + 1].key] = Id[k]
      BY <1>5 DEF A!Matches
    <2> DEFINE j == i + 1
    <2>2. A!fth_array_assoc_remove(a, k) = A!RemoveAt(a, i)
      BY <2>1 DEF A!fth_array_assoc_remove
    <2>3. A!fth_list_assoc_remove(a, k) = A!fth_array_assoc_remove(a, k)
      BY DEF A!fth_list_assoc_remove
    <2>4. \A v : /\ A!fth_array_assoc_set(a, k, v) = Replaced(a, j, k, v)
                 /\ A!fth_list_assoc_set(a, k, v) = Rewritten(a, j, k, v)
      BY <2>1 DEF A!fth_array_assoc_set, A!fth_list_assoc_set, Replaced, Rewritten
    <2> HIDE DEF i
    <2>5. Others(a, A!RemoveAt(a, i), k)
      BY <1>5, <2>1, CellRemoved
    <2>6. j \in 1..Len(a) /\ Id[a[j].key] = Id[k]
      BY <2>1
    <2> HIDE DEF j
    <2>7. ASSUME NEW v \in Val
          PROVE  Others(a, A!fth_array_assoc_set(a, k, v), k) /\ Others(a, A!fth_list_assoc_set(a, k, v), k)
      <3>1. Others(a, Replaced(a, j, k, v), k)
        BY <2>6, CellSet
      <3>2. Rewritten(a, j, k, v) = Replaced(a, j, k, v)
        BY <2>6, CellSet
      <3>3. A!fth_array_assoc_set(a, k, v) = Replaced(a, j, k, v)
        BY <2>4
      <3>4. A!fth_list_assoc_set(a, k, v) = Rewritten(a, j, k, v)
        BY <2>4
      <3> QED
        BY <3>1, <3>2, <3>3, <3>4
    <2> QED
      BY <1>2, <2>2, <2>3, <2>5, <2>7
  <1> QED
    BY <1>1, <1>4, <1>5

\* acons puts its cell before the others.
LEMMA AconsAdds ==
    ASSUME NEW a \in Seq(A!Cell), NEW k \in Key, NEW v \in Val
    PROVE  /\ A!fth_acons(a, k, v) \in Seq(A!Cell)
           /\ a = <<>> => Others(a, A!fth_acons(a, k, v), k)
  <1> DEFINE e == [key |-> k, value |-> v]
  <1>1. e \in A!Cell /\ e.key = k
    BY DEF A!Cell
  <1>2. A!fth_acons(a, k, v) = <<e>> \o a
    BY DEF A!fth_acons
  <1> HIDE DEF e
  <1>3. <<e>> \o a \in Seq(A!Cell)
    BY <1>1
  <1>4. ASSUME a = <<>> PROVE Others(a, <<e>> \o a, k)
    <2>1. <<e>> \o a = <<e>>
      BY <1>1, <1>4
    <2>2. Len(<<e>>) = 1 /\ <<e>>[1] = e
      OBVIOUS
    <2>3. <<e>> \in Seq(A!Cell)
      BY <1>1
    <2>4. Id[k] \in Nat
      BY HashAssumption
    <2>5. Sorted(<<e>>)
      BY <1>1, <2>2, <2>4 DEF Sorted
    <2> QED
      BY <1>1, <1>4, <2>1, <2>2, <2>3, <2>5 DEF Others
  <1> QED
    BY <1>2, <1>3, <1>4

\* >assoc and >alist of two pairs.
LEMMA ValuesSorted ==
    ASSUME NEW k1 \in Key, NEW k2 \in Key, NEW v1 \in Val, NEW v2 \in Val
    PROVE  LET a == A!ficl_values_to_assoc(<<<<k1, v1>>, <<k2, v2>>>>) IN a \in Seq(A!Cell) /\ Sorted(a)
  <1> DEFINE s == <<<<k1, v1>>, <<k2, v2>>>>
             F(f) == f = [n \in 0..Len(s) |->
                            IF n = 0 THEN <<>>
                            ELSE A!fth_assoc(f[n - 1], s[Len(s) + 1 - n][1], s[Len(s) + 1 - n][2])]
             a1 == A!fth_assoc(<<>>, k2, v2)
             a2 == A!fth_assoc(a1, k1, v1)
  <1>1. Len(s) = 2 /\ s[1][1] = k1 /\ s[1][2] = v1 /\ s[2][1] = k2 /\ s[2][2] = v2
    OBVIOUS
  <1>2. A!ficl_values_to_assoc(s) = (CHOOSE f : F(f))[Len(s)]
    BY DEF A!ficl_values_to_assoc
  <1> HIDE DEF s
  <1>3. \E f : F(f)
    <2> DEFINE g == [n \in 0..2 |-> IF n = 0 THEN <<>> ELSE IF n = 1 THEN a1 ELSE a2]
    <2>1. \A n \in 0..2 : n = 0 \/ n = 1 \/ n = 2
      OBVIOUS
    <2>2. g[0] = <<>> /\ g[1] = a1 /\ g[2] = a2
      <3> HIDE DEF a1, a2
      <3> QED
        OBVIOUS
    <2>3. g = [n \in 0..2 |-> g[n]]
      OBVIOUS
    <2> HIDE DEF g
    <2>4. \A n \in 0..2 : g[n] = IF n = 0 THEN <<>> ELSE A!fth_assoc(g[n - 1], s[2 + 1 - n][1], s[2 + 1 - n][2])
      BY <1>1, <2>1, <2>2
    <2>5. F(g)
      BY <1>1, <2>3, <2>4
    <2> QED
      BY <2>5
  <1> DEFINE u == CHOOSE f : F(f)
  <1>4. F(u)
    BY <1>3
  <1> HIDE DEF u
  <1>5. \A n \in 0..2 : u[n] = IF n = 0 THEN <<>> ELSE A!fth_assoc(u[n - 1], s[2 + 1 - n][1], s[2 + 1 - n][2])
    BY <1>1, <1>4
  <1>6. u[0] = <<>>
    BY <1>5
  <1>7. u[1] = a1
    BY <1>1, <1>5, <1>6
  <1>8. u[2] = a2
    BY <1>1, <1>5, <1>7
  <1>9. <<>> \in Seq(A!Cell) /\ Sorted(<<>>)
    BY DEF Sorted
  <1> HIDE DEF F
  <1>10. a1 \in Seq(A!Cell) /\ Sorted(a1)
    BY <1>9, AssocAdds DEF Others
  <1>11. a2 \in Seq(A!Cell) /\ Sorted(a2)
    <2> HIDE DEF a1
    <2> QED
      BY <1>10, AssocAdds DEF Others
  <1>12. A!ficl_values_to_assoc(s) = a2
    BY <1>1, <1>2, <1>8 DEF u
  <1> QED
    BY <1>11, <1>12 DEF s


-----------------------------------------------------------------------------
(* The theorems. *)

\* What array-assoc-ref gives for a key with one cell does not depend on the
\* other cells.
LEMMA RefSame ==
    ASSUME NEW a, NEW b, NEW k \in Key, NEW j \in Key, a \in Seq(A!Cell), Others(a, b, k), Sorted(a),
           Id[j] # Id[k], \A m, n \in A!Matches(a, j) : m = n
    PROVE  A!fth_array_assoc_ref(b, j) = A!fth_array_assoc_ref(a, j)
  <1>1. b \in Seq(A!Cell) /\ Sorted(b)
    BY DEF Others
  <1>2. \A m \in A!Matches(b, j) : \E n \in A!Matches(a, j) : b[m] = a[n]
    <2> SUFFICES ASSUME NEW m \in A!Matches(b, j) PROVE \E n \in A!Matches(a, j) : b[m] = a[n]
      OBVIOUS
    <2>1. m \in 1..Len(b) /\ Id[b[m].key] = Id[j]
      BY <1>1 DEF A!Matches
    <2>2. PICK n \in 1..Len(a) : b[m] = a[n]
      BY <2>1 DEF Others
    <2> QED
      BY <2>1, <2>2 DEF A!Matches
  <1>3. A!Matches(a, j) # {} => A!Matches(b, j) # {}
    <2> SUFFICES ASSUME NEW n \in A!Matches(a, j) PROVE A!Matches(b, j) # {}
      OBVIOUS
    <2>1. n \in 1..Len(a) /\ Id[a[n].key] = Id[j]
      BY DEF A!Matches
    <2>2. PICK m \in 1..Len(b) : b[m] = a[n]
      BY <2>1 DEF Others
    <2> QED
      BY <1>1, <2>1, <2>2 DEF A!Matches
  <1> DEFINE p == A!assoc_index(a, j)
             q == A!assoc_index(b, j)
  <1>4. /\ p = -1 \/ (p \in 0..(Len(a) - 1) /\ p + 1 \in A!Matches(a, j))
        /\ A!Matches(a, j) # {} => p # -1
    BY IndexIs
  <1>5. /\ q = -1 \/ (q \in 0..(Len(b) - 1) /\ q + 1 \in A!Matches(b, j))
        /\ A!Matches(b, j) # {} => q # -1
    BY <1>1, IndexIs
  <1>6. /\ A!fth_array_assoc_ref(a, j) = IF p >= 0 THEN a[p + 1].value ELSE False
        /\ A!fth_array_assoc_ref(b, j) = IF q >= 0 THEN b[q + 1].value ELSE False
    BY DEF A!fth_array_assoc_ref
  <1> HIDE DEF p, q
  <1>7. CASE q = -1
    <2>1. p = -1
      BY <1>3, <1>4, <1>5, <1>7
    <2> QED
      BY <1>6, <1>7, <2>1
  <1>8. CASE q # -1
    <2>1. q + 1 \in A!Matches(b, j) /\ q >= 0
      BY <1>1, <1>5, <1>8
    <2>2. PICK n \in A!Matches(a, j) : b[q + 1] = a[n]
      BY <1>2, <2>1
    <2>3. p + 1 \in A!Matches(a, j) /\ p >= 0
      BY <1>4, <2>2
    <2>4. p + 1 = n
      BY <2>2, <2>3
    <2> QED
      BY <1>6, <2>1, <2>2, <2>3, <2>4
  <1> QED
    BY <1>7, <1>8

\* The invariant: the cells are sorted until acons puts one before others.
AssocInv == A!TypeOK /\ (~consed => Sorted(assoc))

\* What a word leaves alone: the body of AssocOthersKeep.
KeepsOthers ==
    \A k \in touched', j \in Key :
        ~consed' /\ Id[j] # Id[k] /\ (\A m, n \in A!Matches(assoc, j) : m = n) =>
            A!fth_array_assoc_ref(assoc', j) = A!fth_array_assoc_ref(assoc, j)

\* A word that changes one key, or puts a cell before others.
LEMMA ChangeKeeps ==
    ASSUME AssocInv, NEW k \in Key, touched' = {k}, assoc' \in Seq(A!Cell),
           ~consed' => ~consed /\ Others(assoc, assoc', k)
    PROVE  AssocInv' /\ KeepsOthers
  <1>1. assoc \in Seq(A!Cell) /\ (~consed => Sorted(assoc))
    BY DEF AssocInv, A!TypeOK
  <1>2. AssocInv'
    BY <1>1 DEF AssocInv, A!TypeOK, Others, Sorted, A!Cell
  <1>3. KeepsOthers
    <2> SUFFICES ASSUME NEW j \in Key, ~consed', Id[j] # Id[k], \A m, n \in A!Matches(assoc, j) : m = n
                 PROVE  A!fth_array_assoc_ref(assoc', j) = A!fth_array_assoc_ref(assoc, j)
      BY DEF KeepsOthers
    <2> QED
      BY <1>1, RefSame
  <1> QED
    BY <1>2, <1>3

\* Every word keeps the invariant, and the other keys.
LEMMA AssocStep == AssocInv /\ [A!Next]_(A!vars) => AssocInv' /\ (KeepsOthers \/ UNCHANGED A!vars)
  <1> SUFFICES ASSUME AssocInv, [A!Next]_(A!vars) PROVE AssocInv' /\ (KeepsOthers \/ UNCHANGED A!vars)
    OBVIOUS
  <1>0. assoc \in Seq(A!Cell)
    BY DEF AssocInv, A!TypeOK
  <1>1. ASSUME NEW k \in Key, NEW a, Others(assoc, a, k), A!Becomes(a, k) PROVE AssocInv' /\ KeepsOthers
    <2>1. assoc' = a /\ touched' = {k} /\ consed' = consed
      BY <1>1 DEF A!Becomes
    <2>2. assoc' \in Seq(A!Cell)
      BY <1>1, <2>1 DEF Others
    <2> QED
      BY <1>1, <2>1, <2>2, ChangeKeeps
  <1>2. ASSUME NEW r, A!Answers(r) PROVE AssocInv' /\ KeepsOthers
    <2>1. assoc' = assoc /\ touched' = {} /\ consed' = consed
      BY <1>2 DEF A!Answers
    <2> QED
      BY <2>1 DEF AssocInv, A!TypeOK, KeepsOthers
  <1>3. ASSUME NEW k \in Key, NEW v \in Val,
               A!Assoc(k, v) \/ A!AssocSet(k, v) \/ A!ListAssocSet(k, v)
        PROVE  AssocInv' /\ KeepsOthers
    BY <1>0, <1>1, <1>3, WordsKeepOthers DEF A!Assoc, A!AssocSet, A!ListAssocSet
  <1>4. ASSUME NEW k \in Key, A!AssocRemove(k) \/ A!ListAssocRemove(k) PROVE AssocInv' /\ KeepsOthers
    BY <1>0, <1>1, <1>4, WordsKeepOthers DEF A!AssocRemove, A!ListAssocRemove
  <1>5. ASSUME NEW k \in Key, A!ArrayAssoc(k) \/ A!AssocRef(k) \/ A!ListAssoc(k) \/ A!ListAssocRef(k)
        PROVE  AssocInv' /\ KeepsOthers
    BY <1>2, <1>5 DEF A!ArrayAssoc, A!AssocRef, A!ListAssoc, A!ListAssocRef
  <1>6. ASSUME NEW k \in Key, NEW v \in Val, A!Acons(k, v) PROVE AssocInv' /\ KeepsOthers
    <2>1. assoc' = A!fth_acons(assoc, k, v) /\ touched' = {k} /\ consed' = (assoc # <<>> \/ consed)
      BY <1>6 DEF A!Acons
    <2>2. assoc' \in Seq(A!Cell) /\ (assoc = <<>> => Others(assoc, assoc', k))
      BY <1>0, <2>1, AconsAdds
    <2> QED
      BY <2>1, <2>2, ChangeKeeps
  <1>7. ASSUME NEW k1 \in Key, NEW k2 \in Key, NEW v \in Val, A!Values(<<<<k1, v>>, <<k2, False>>>>)
        PROVE  AssocInv' /\ KeepsOthers
    <2> DEFINE s == <<<<k1, v>>, <<k2, False>>>>
               a == A!ficl_values_to_assoc(s)
    <2>1. A!ficl_values_to_alist(s) = a
      BY DEF A!ficl_values_to_alist
    <2>2. a \in Seq(A!Cell) /\ Sorted(a)
      BY HashAssumption, ValuesSorted
    <2>3. A!Goes(a)
      BY <1>7, <2>1 DEF A!Values
    <2> HIDE DEF a
    <2>4. assoc' = a /\ touched' = {}
      BY <2>3 DEF A!Goes
    <2> QED
      BY <2>2, <2>4 DEF AssocInv, A!TypeOK, Sorted, KeepsOthers, A!Cell
  <1>8. CASE UNCHANGED A!vars
    BY <1>8 DEF A!vars, AssocInv, A!TypeOK
  <1> QED
    BY <1>3, <1>4, <1>5, <1>6, <1>7, <1>8 DEF A!Next

\* The association array of a program with both kinds of table.
LEMMA AssocBehaves == TablesSpec => A!Init /\ [][A!Next]_(A!vars)
  <1>1. TablesInit => A!Init
    BY DEF TablesInit
  <1>2. [TablesNext]_<<vars, assocvars, kind>> => [A!Next]_(A!vars)
    BY DEF TablesNext, assocvars, A!vars
  <1> QED
    BY <1>1, <1>2, PTL DEF TablesSpec

\* assoc_insert, array-assoc-set!, array-assoc-remove! and >assoc keep the cells
\* sorted, until acons.
THEOREM AssocSorted == TablesSpec => []AssocInv
  <1>1. A!Init => AssocInv
    BY DEF A!Init, AssocInv, A!TypeOK, Sorted, A!Cell
  <1> QED
    BY <1>1, AssocStep, AssocBehaves, PTL

\* So the bisection finds a cell with the key's id whenever there is one.
THEOREM BisectionFinds == TablesSpec => []AssocFindsEveryKey
  <1>1. AssocInv => AssocFindsEveryKey
    <2> SUFFICES ASSUME AssocInv, NEW k \in Key
                 PROVE  /\ A!assoc_index(assoc, k) >= 0 => A!assoc_index(assoc, k) + 1 \in A!Matches(assoc, k)
                        /\ ~consed /\ A!Matches(assoc, k) # {} => A!assoc_index(assoc, k) >= 0
      BY DEF AssocFindsEveryKey, A!FindsEveryKey, AssocInv
    <2> DEFINE i == A!assoc_index(assoc, k)
    <2>1. assoc \in Seq(A!Cell) /\ (~consed => Sorted(assoc))
      BY DEF AssocInv, A!TypeOK
    <2>2. /\ i = -1 \/ (i \in 0..(Len(assoc) - 1) /\ i + 1 \in A!Matches(assoc, k))
          /\ Sorted(assoc) /\ A!Matches(assoc, k) # {} => i # -1
      BY <2>1, IndexIs
    <2> HIDE DEF i
    <2>3. (i >= 0 => i + 1 \in A!Matches(assoc, k)) /\ (i # -1 => i >= 0)
      BY <2>1, <2>2
    <2> QED
      BY <2>1, <2>2, <2>3 DEF i
  <1> QED
    BY <1>1, AssocSorted, PTL

\* A change of one key leaves what array-assoc-ref gives for the others alone.
THEOREM AssocOthersStay == TablesSpec => AssocOthersKeep
  <1>1. AssocInv /\ [A!Next]_(A!vars) => [KeepsOthers]_(A!vars)
    BY AssocStep
  <1>2. TablesSpec => [][KeepsOthers]_(A!vars)
    BY <1>1, AssocSorted, AssocBehaves, PTL
  <1> QED
    BY <1>2 DEF AssocOthersKeep, A!OthersKeep, KeepsOthers
=============================================================================
