--------------------------- MODULE FthForthProofs ---------------------------
(***************************************************************************)
(* Proofs about the two halves of FthForth.  The compiler: for any names of *)
(* locals, any number of them and any length of a definition.  The          *)
(* dictionary: for any names, word lists and buckets and any size of memory *)
(* and of the search order.                                                 *)
(***************************************************************************)
EXTENDS FthForth, WellFoundedInduction, TLAPS

Instruction == [op : Branches \cup {"link", "unlink", "tolocal", "getlocal", "drop",
                                    "exit", "does", "semi"}, to : Nat]
Typed(s, c) ==
    /\ s \in Seq(Cell)
    /\ \A i \in DOMAIN s : s[i][1] = "addr" => s[i][2] \in 1..(Len(c) + 1)

-----------------------------------------------------------------------------
(* The stack, whatever words a definition has. *)

\* The first q cells end with a group of cells: an address and its tag, the
\* addresses, number and tag of a case, or what : and lambda: put there.
Ends(s, q) == q = 0 \/ s[q][1] = "tag"
Forward == {"origin", "leave", "of", "fallthrough"}    \* tags of branches to patch
Back == {"target", "do"}                               \* tags of places to go back to

\* A while between the cells of a case: endcase will take a tag for an address.
Broken(s, m) ==
    /\ m > 1 /\ s[m] = Tag("case") /\ s[m - 1][1] = "num" /\ s[m - 1][2] <= m - 2
    /\ \E j \in 1..(m - 2) : j >= m - 1 - s[m - 1][2] /\ s[j][1] = "tag"

\* The group that ends at cell K is above cell M, and where it has to be patched is a branch.
GroupAt(s, c, m, k) ==
    /\ s[k][2] \in Forward \cup Back =>
          /\ k - 2 >= m /\ Ends(s, k - 2) /\ s[k - 1][1] = "addr"
          /\ s[k][2] \in Forward => s[k - 1][2] \in DOMAIN c /\ IsBranch(c, s[k - 1][2])
    /\ s[k][2] = "case" =>
          /\ k > 1 /\ s[k - 1][1] = "num"
          /\ k - 2 - s[k - 1][2] >= m /\ Ends(s, k - 2 - s[k - 1][2])
          /\ \A j \in 1..(k - 2) : j >= k - 1 - s[k - 1][2] =>
                s[j][1] = "addr" /\ s[j][2] \in DOMAIN c /\ IsBranch(c, s[j][2])
    /\ s[k][2] = "colon" => k = 1 \/ (s[k - 1] = Xt /\ k - 2 >= m /\ Ends(s, k - 2))
Grouped(s, c, m) ==
    /\ m \in 0..Len(s)
    /\ m = 0 \/ Broken(s, m)
    /\ Ends(s, Len(s))
    /\ \A k \in (m + 1)..Len(s) : s[k][1] = "tag" => GroupAt(s, c, m, k)
Groups(s, c) == \E m \in Nat : Grouped(s, c, m)

\* Code that keeps the instructions there are; the operands of branches may change.
Kept(c, d) ==
    /\ c \in Seq(Instruction) /\ d \in Seq(Instruction) /\ Len(c) <= Len(d)
    /\ \A i \in DOMAIN c : d[i].op = c[i].op
\* What a structure word does to the code: branches are patched, a branch or a drop is compiled.
Structured(c, d) ==
    /\ Kept(c, d) /\ Len(d) <= Len(c) + 1
    /\ \A i \in DOMAIN c : IsBranch(c, i) \/ d[i] = c[i]
    /\ \A i \in DOMAIN d : i \in DOMAIN c \/ d[i].op \in Branches \cup {"drop"}

-----------------------------------------------------------------------------
(* Cells pushed and dropped. *)

\* T is the first Q cells of S.
Dropped(s, t, q) == t \in Seq(Cell) /\ q \in 0..Len(s) /\ Len(t) = q /\ \A i \in 1..q : t[i] = s[i]
\* T is S and more cells, of which only the last is a tag.
Pushed(s, t) ==
    /\ t \in Seq(Cell) /\ Len(s) < Len(t) /\ \A i \in 1..Len(s) : t[i] = s[i]
    /\ t[Len(t)][1] = "tag"
    /\ \A i \in Nat : i > Len(s) /\ i < Len(t) => t[i][1] # "tag"
\* T is S and two cells.
PushedTwo(s, t, x, y) ==
    /\ t \in Seq(Cell) /\ Len(t) = Len(s) + 2 /\ \A i \in 1..Len(s) : t[i] = s[i]
    /\ t[Len(s) + 1] = x /\ t[Len(s) + 2] = y

\* F is A and then B.
Joined(a, b, f) ==
    /\ f \in Seq(Cell) /\ Len(f) = Len(a) + Len(b)
    /\ \A i \in 1..Len(a) : f[i] = a[i]
    /\ \A i \in 1..Len(b) : f[Len(a) + i] = b[i]

\* Cells on top of cells.
LEMMA Join ==
    ASSUME NEW a \in Seq(Cell), NEW b \in Seq(Cell), NEW f, f = a \o b
    PROVE  Joined(a, b, f)
  BY DEF Joined

\* Two cells pushed (stackPushPointer and stackPushUnsigned of markBranch).
LEMMA PushTwo ==
    ASSUME NEW s \in Seq(Cell), NEW x \in Cell, NEW y \in Cell, NEW t, t = s \o <<x, y>>
    PROVE  PushedTwo(s, t, x, y)
  <1>0. PICK n \in Nat : n = Len(s)
    OBVIOUS
  <1>1. PICK o : o = <<x, y>>
    OBVIOUS
  <1>2. o \in Seq(Cell) /\ Len(o) = 2 /\ o[1] = x /\ o[2] = y /\ t = s \o o
    BY <1>1
  <1>4. t \in Seq(Cell) /\ Len(t) = n + 2
    BY <1>0, <1>1, <1>2
  <1>5. \A i \in 1..n : t[i] = s[i]
    BY <1>0, <1>1, <1>2
  <1>6. \A i \in 1..2 : t[n + i] = o[i]
    BY <1>0, <1>1, <1>2
  <1>7. t[n + 1] = o[1] /\ t[n + 2] = o[2]
    BY <1>0, <1>6
  <1> QED
    BY <1>0, <1>1, <1>2, <1>4, <1>5, <1>7 DEF PushedTwo

\* Cells dropped (ficlStackDrop).
LEMMA DropSome ==
    ASSUME NEW s \in Seq(Cell), NEW q \in 0..Len(s), NEW t, t = SubSeq(s, 1, q)
    PROVE  Dropped(s, t, q)
  BY DEF Dropped

-----------------------------------------------------------------------------
(* Cells. *)

\* A cell is a pair whose first component says what it is (a ficlCell has no type: the model's).
LEMMA CellIs ==
    ASSUME NEW x \in Cell
    PROVE  /\ x = <<x[1], x[2]>> /\ x[1] \in {"tag", "addr", "num", "xt"}
           /\ x[1] = "tag" => x[2] \in {"colon", "origin", "target", "do", "leave", "case", "of", "fallthrough"}
           /\ x[1] # "tag" => x[2] \in Nat
  BY DEF Cell

\* The tags, addresses and numbers that the words push are cells.
LEMMA CellsPushed ==
    /\ \A a \in Nat : Addr(a) \in Cell /\ Num(a) \in Cell
    /\ \A t \in Forward \cup Back \cup {"case", "colon"} : Tag(t) \in Cell
    /\ Xt \in Cell
  BY DEF Cell, Addr, Num, Tag, Xt, Forward, Back

\* What a pushed cell says of itself.
LEMMA CellParts ==
    /\ \A a : Addr(a)[1] = "addr" /\ Addr(a)[2] = a
    /\ \A a : Num(a)[1] = "num" /\ Num(a)[2] = a
    /\ \A t : Tag(t)[1] = "tag" /\ Tag(t)[2] = t
    /\ Xt[1] = "xt" /\ Xt[2] = 0
  BY DEF Addr, Num, Tag, Xt

\* A group is as good for a stack that has the same cells up to it, and for code with the same
\* branches: no structure word removes or changes a branch.
LEMMA GroupKeeps ==
    ASSUME NEW s, NEW t, NEW c, NEW d, NEW m \in Nat, NEW k \in Nat, k > m, GroupAt(s, c, m, k), s[k][1] = "tag",
           s \in Seq(Cell), k <= Len(s),
           \A i \in 1..k : t[i] = s[i], Kept(c, d)
    PROVE  GroupAt(t, d, m, k)
  <1>1. \A a \in DOMAIN c : a \in DOMAIN d /\ (IsBranch(c, a) => IsBranch(d, a))
    BY DEF Kept, IsBranch
  <1>2. t[k] = s[k] /\ (k > 1 => t[k - 1] = s[k - 1])
    OBVIOUS
  <1>3. s[k][2] \in Forward \cup Back =>
          /\ k - 2 >= m /\ Ends(t, k - 2) /\ t[k - 1][1] = "addr"
          /\ s[k][2] \in Forward => t[k - 1][2] \in DOMAIN d /\ IsBranch(d, t[k - 1][2])
    BY <1>1, <1>2 DEF GroupAt, Ends
  <1>4. s[k][2] = "case" =>
          /\ k > 1 /\ t[k - 1][1] = "num"
          /\ k - 2 - t[k - 1][2] >= m /\ Ends(t, k - 2 - t[k - 1][2])
          /\ \A j \in 1..(k - 2) : j >= k - 1 - t[k - 1][2] =>
                t[j][1] = "addr" /\ t[j][2] \in DOMAIN d /\ IsBranch(d, t[j][2])
    <2> SUFFICES ASSUME s[k][2] = "case"
                 PROVE  /\ k > 1 /\ t[k - 1][1] = "num"
                        /\ k - 2 - t[k - 1][2] >= m /\ Ends(t, k - 2 - t[k - 1][2])
                        /\ \A j \in 1..(k - 2) : j >= k - 1 - t[k - 1][2] =>
                              t[j][1] = "addr" /\ t[j][2] \in DOMAIN d /\ IsBranch(d, t[j][2])
      OBVIOUS
    <2>1. /\ k > 1 /\ s[k - 1][1] = "num"
          /\ k - 2 - s[k - 1][2] >= m /\ Ends(s, k - 2 - s[k - 1][2])
          /\ \A j \in 1..(k - 2) : j >= k - 1 - s[k - 1][2] =>
                s[j][1] = "addr" /\ s[j][2] \in DOMAIN c /\ IsBranch(c, s[j][2])
      BY DEF GroupAt
    <2>2. k - 1 \in DOMAIN s /\ s[k - 1] \in Cell
      BY <2>1
    <2>3. s[k - 1][2] \in Nat
      BY <2>1, <2>2, CellIs
    <2>4. PICK v \in Nat : v = s[k - 1][2]
      BY <2>3
    <2>5. Ends(t, k - 2 - v)
      <3>1. PICK q \in Nat : q = k - 2 - v
        BY <2>1, <2>4
      <3>2. q = 0 \/ (q \in 1..k /\ s[q][1] = "tag")
        BY <2>1, <2>4, <3>1 DEF Ends
      <3> QED
        BY <3>1, <3>2 DEF Ends
    <2>6. \A j \in 1..(k - 2) : t[j] = s[j]
      BY <2>1
    <2> QED
      BY <1>1, <1>2, <2>1, <2>4, <2>5, <2>6
  <1>5. s[k][2] = "colon" => k = 1 \/ (t[k - 1] = Xt /\ k - 2 >= m /\ Ends(t, k - 2))
    BY <1>2 DEF GroupAt, Ends
  <1> QED
    BY <1>2, <1>3, <1>4, <1>5 DEF GroupAt

\* A case that a while has broken stays broken below what is pushed.
LEMMA BrokenKeeps ==
    ASSUME NEW s, NEW t, NEW m \in Nat, Broken(s, m), \A i \in 1..m : t[i] = s[i],
           s \in Seq(Cell), m <= Len(s)
    PROVE  Broken(t, m)
  <1>1. m > 1 /\ s[m - 1] \in Cell /\ s[m - 1][1] = "num"
    BY DEF Broken
  <1>2. PICK v \in Nat : v = s[m - 1][2]
    BY <1>1, CellIs
  <1>3. t[m] = s[m] /\ t[m - 1] = s[m - 1] /\ \A j \in 1..(m - 2) : t[j] = s[j]
    BY <1>1
  <1> QED
    BY <1>1, <1>2, <1>3 DEF Broken

\* Code that a structure word has changed keeps the groups.
LEMMA GroupedKeeps ==
    ASSUME NEW s \in Seq(Cell), NEW t \in Seq(Cell), NEW c, NEW d, NEW m \in Nat, NEW q \in Nat,
           Grouped(s, c, m), m <= q, q <= Len(s), q <= Len(t), \A i \in 1..q : t[i] = s[i],
           Kept(c, d)
    PROVE  /\ m = 0 \/ Broken(t, m)
           /\ \A k \in (m + 1)..q : t[k][1] = "tag" => GroupAt(t, d, m, k)
  <1>1. m = 0 \/ Broken(t, m)
    BY BrokenKeeps DEF Grouped
  <1>2. ASSUME NEW k \in (m + 1)..q, t[k][1] = "tag"
        PROVE  GroupAt(t, d, m, k)
    <2>1. k \in Nat /\ k > m /\ k <= Len(s) /\ k <= q /\ k \in (m + 1)..Len(s)
      OBVIOUS
    <2>2. t[k] = s[k] /\ \A i \in 1..k : t[i] = s[i]
      BY <2>1
    <2>3. GroupAt(s, c, m, k) /\ s[k][1] = "tag"
      BY <1>2, <2>1, <2>2 DEF Grouped
    <2> QED
      BY <2>1, <2>2, <2>3, GroupKeeps
  <1> QED
    BY <1>1, <1>2

\* The groups of a stack some of whose groups have been popped.
LEMMA PopKeeps ==
    ASSUME NEW s \in Seq(Cell), NEW t, NEW c, NEW d, NEW m \in Nat, NEW q,
           Grouped(s, c, m), Dropped(s, t, q), m <= q, Ends(s, q), Structured(c, d)
    PROVE  Grouped(t, d, m)
  <1>1. q \in Nat /\ t \in Seq(Cell) /\ q = Len(t) /\ Len(t) <= Len(s) /\ \A i \in 1..Len(t) : t[i] = s[i]
    BY DEF Dropped
  <1>2. /\ m = 0 \/ Broken(t, m)
        /\ \A k \in (m + 1)..Len(t) : t[k][1] = "tag" => GroupAt(t, d, m, k)
    <2>1. Kept(c, d)
      BY DEF Structured
    <2> QED
      BY <1>1, <2>1, GroupedKeeps
  <1>3. Ends(t, Len(t))
    BY <1>1 DEF Ends
  <1> QED
    BY <1>1, <1>2, <1>3 DEF Grouped

\* An address and its tag: what pops them finds a group below.
LEMMA PairOnTop ==
    ASSUME NEW s \in Seq(Cell), NEW c, NEW m \in Nat, Grouped(s, c, m), Len(s) > 0,
           NEW tag \in Forward \cup Back, s[Len(s)] = Tag(tag)
    PROVE  /\ Len(s) >= 2 /\ Len(s) - 2 >= m /\ Ends(s, Len(s) - 2) /\ s[Len(s) - 1][1] = "addr"
           /\ tag \in Forward => s[Len(s) - 1][2] \in DOMAIN c /\ IsBranch(c, s[Len(s) - 1][2])
  <1>1. PICK n \in Nat : n = Len(s)
    OBVIOUS
  <1>2. m # n
    <2>1. tag # "case"
      BY DEF Forward, Back
    <2>2. ~Broken(s, n)
      BY <1>1, <2>1, CellParts DEF Broken
    <2> QED
      BY <1>1, <2>2 DEF Grouped
  <1>3. GroupAt(s, c, m, n)
    BY <1>1, <1>2, CellParts DEF Grouped
  <1> QED
    BY <1>1, <1>3, CellParts DEF GroupAt

\* Below the tag of a case at K are the number of its addresses and those, above cell M.
CaseBelow(s, c, m, k) ==
    /\ k > 1 /\ s[k - 1][1] = "num" /\ s[k - 1][2] \in Nat
    /\ k - 2 - s[k - 1][2] >= m /\ Ends(s, k - 2 - s[k - 1][2])
    /\ \A j \in 1..(k - 2) : j >= k - 1 - s[k - 1][2] =>
            s[j][1] = "addr" /\ s[j][2] \in DOMAIN c /\ IsBranch(c, s[j][2])
\* A case that no while has broken, at cell K: its addresses are below.
LEMMA CaseAt ==
    ASSUME NEW s \in Seq(Cell), NEW c, NEW m \in Nat, Grouped(s, c, m), NEW k \in Nat, k > m, k <= Len(s),
           s[k] = Tag("case")
    PROVE  CaseBelow(s, c, m, k)
  <1>1. GroupAt(s, c, m, k)
    BY CellParts DEF Grouped
  <1>2. /\ k > 1 /\ s[k - 1][1] = "num"
        /\ k - 2 - s[k - 1][2] >= m /\ Ends(s, k - 2 - s[k - 1][2])
        /\ \A j \in 1..(k - 2) : j >= k - 1 - s[k - 1][2] =>
             s[j][1] = "addr" /\ s[j][2] \in DOMAIN c /\ IsBranch(c, s[j][2])
    BY <1>1, CellParts DEF GroupAt
  <1>3. s[k - 1] \in Cell
    BY <1>2
  <1> QED
    BY <1>2, <1>3, CellIs DEF CaseBelow

\* A group pushed on top of others.
LEMMA AddGroup ==
    ASSUME NEW s \in Seq(Cell), NEW t \in Seq(Cell), NEW c, NEW d, NEW m \in Nat,
           Grouped(s, c, m), Structured(c, d), Pushed(s, t), GroupAt(t, d, m, Len(t))
    PROVE  Grouped(t, d, m)
  <1>0. PICK n \in Nat, k \in Nat : n = Len(s) /\ k = Len(t)
    OBVIOUS
  <1>1. /\ m <= n /\ n < k /\ \A i \in 1..n : t[i] = s[i]
        /\ t[k][1] = "tag" /\ \A i \in Nat : i > n /\ i < k => t[i][1] # "tag"
    BY <1>0 DEF Grouped, Pushed
  <1>2. /\ m = 0 \/ Broken(t, m)
        /\ \A i \in (m + 1)..n : t[i][1] = "tag" => GroupAt(t, d, m, i)
    BY <1>0, <1>1, GroupedKeeps DEF Structured
  <1>3. ASSUME NEW i \in (m + 1)..Len(t), t[i][1] = "tag"
        PROVE  GroupAt(t, d, m, i)
    <2>1. i \in (m + 1)..n \/ i = k
      BY <1>0, <1>1, <1>3
    <2> QED
      BY <1>0, <1>2, <1>3, <2>1
  <1> QED
    BY <1>0, <1>1, <1>2, <1>3 DEF Grouped, Ends

\* An address and its tag pushed on top of others.
LEMMA AddPair ==
    ASSUME NEW s \in Seq(Cell), NEW t \in Seq(Cell), NEW c, NEW d, NEW m \in Nat,
           Grouped(s, c, m), Structured(c, d), NEW tag \in Forward \cup Back, NEW x,
           PushedTwo(s, t, x, Tag(tag)), x[1] = "addr",
           tag \in Forward => x[2] \in DOMAIN d /\ IsBranch(d, x[2])
    PROVE  Grouped(t, d, m)
  <1>1. PICK n \in Nat, k \in Nat : n = Len(s) /\ k = n + 2
    OBVIOUS
  <1>2. m <= n /\ Ends(s, n)
    BY <1>1 DEF Grouped
  <1>3. k = Len(t) /\ t[k] = Tag(tag) /\ t[n + 1] = x /\ \A i \in 1..n : t[i] = s[i]
    BY <1>1 DEF PushedTwo
  <1>4. tag # "case" /\ tag # "colon"
    BY DEF Forward, Back
  <1>5. Ends(t, n)
    BY <1>1, <1>2, <1>3 DEF Ends
  <1>6. GroupAt(t, d, m, k)
    BY <1>1, <1>2, <1>3, <1>4, <1>5, CellParts DEF GroupAt
  <1>7. Pushed(s, t)
    <2>1. \A i \in Nat : i > n /\ i < k => t[i][1] # "tag"
      BY <1>1, <1>3
    <2> QED
      BY <1>1, <1>3, <2>1, CellParts DEF Pushed
  <1> QED
    BY <1>3, <1>6, <1>7, AddGroup

\* The groups of a stack on which a while has put its own below the pair on top.
LEMMA SwapKeeps ==
    ASSUME NEW s \in Seq(Cell), NEW t \in Seq(Cell), NEW c, NEW d, NEW m \in Nat,
           Grouped(s, c, m), Structured(c, d), NEW p \in Nat, Len(s) = p + 2, Len(t) = p + 4,
           \A i \in 1..p : t[i] = s[i],
           t[p + 1][1] = "addr", t[p + 1][2] \in DOMAIN d, IsBranch(d, t[p + 1][2]),
           t[p + 2] = Tag("origin"), t[p + 3] = s[p + 1], t[p + 4] = s[p + 2]
    PROVE  Groups(t, d)
  <1>1. PICK n \in Nat, k \in Nat : n = p + 2 /\ k = p + 4
    OBVIOUS
  <1>2. n >= 2 /\ s[n] \in Cell /\ s[n - 1] \in Cell /\ s[n][1] = "tag" /\ m <= n
    BY <1>1 DEF Grouped, Ends
  <1>3. Structured(d, d) /\ Structured(c, c)
    BY DEF Structured, Kept
  <1>4. t[p + 1] \in Cell /\ t[p + 2] \in Cell /\ p \in 0..Len(s)
    OBVIOUS
  <1>5. PICK u : Dropped(s, u, p)
    BY <1>4, DropSome
  <1>6. PICK x \in Cell, y \in Cell : x = t[p + 1] /\ y = t[p + 2]
    BY <1>4
  <1>7. PICK w : PushedTwo(u, w, x, y)
    BY <1>5, PushTwo DEF Dropped
  <1>8. /\ w \in Seq(Cell) /\ Len(w) = n /\ w[n] = t[n] /\ \A i \in 1..n : w[i] = t[i]
    <2>1. Len(u) = p /\ \A i \in 1..p : u[i] = t[i]
      BY <1>5 DEF Dropped
    <2>2. w \in Seq(Cell) /\ Len(w) = p + 2 /\ w[p + 1] = x /\ w[p + 2] = y /\ \A i \in 1..p : w[i] = u[i]
      BY <1>7, <2>1 DEF PushedTwo
    <2>3. \A i \in 1..n : i \in 1..p \/ i = p + 1 \/ i = p + 2
      BY <1>1
    <2> QED
      BY <1>1, <1>6, <2>1, <2>2, <2>3
  <1>9. ASSUME p >= m, Ends(s, p)
        PROVE  Grouped(w, d, m)
    <2>1. Grouped(u, c, m)
      BY <1>3, <1>5, <1>9, PopKeeps
    <2>2. "origin" \in Forward \cup Back
      BY DEF Forward
    <2>3. x[1] = "addr" /\ x[2] \in DOMAIN d /\ IsBranch(d, x[2]) /\ y = Tag("origin")
      BY <1>6
    <2>4. u \in Seq(Cell) /\ w \in Seq(Cell)
      BY <1>5, <1>8 DEF Dropped
    <2> QED
      BY <1>7, <2>1, <2>2, <2>3, <2>4, AddPair
  <1>10. ASSUME p >= m, Ends(s, p), s[p + 1][1] # "tag", GroupAt(t, d, m, k)
        PROVE  Groups(t, d)
    <2>1. Grouped(w, d, m)
      BY <1>9, <1>10
    <2>2. k = Len(t) /\ t[k][1] = "tag" /\ n < k /\ t[n + 1][1] # "tag"
      BY <1>1, <1>2, <1>10
    <2>3. \A i \in Nat : i > n /\ i < k => t[i][1] # "tag"
      BY <1>1, <2>2
    <2>4. Pushed(w, t)
      BY <1>8, <2>2, <2>3 DEF Pushed
    <2>5. Grouped(t, d, m)
      BY <1>3, <1>8, <1>10, <2>1, <2>2, <2>4, AddGroup
    <2> QED
      BY <2>5 DEF Groups
  <1>11. Ends(t, n) /\ n = k - 2 /\ p = n - 2 /\ t[k] = s[n] /\ t[k - 1] = s[n - 1] /\ n = Len(s) /\ p + 1 = n - 1
    BY <1>1, CellParts DEF Ends
  <1>12. CASE s[n][2] \in Forward \cup Back
    <2>1. PICK tag \in Forward \cup Back : tag = s[n][2]
      BY <1>12
    <2>2. s[n] = Tag(tag)
      BY <1>2, <2>1, CellIs DEF Tag
    <2>3. /\ n - 2 >= m /\ Ends(s, n - 2) /\ s[n - 1][1] = "addr"
          /\ tag \in Forward => s[n - 1][2] \in DOMAIN c /\ IsBranch(c, s[n - 1][2])
      BY <1>2, <1>11, <2>2, PairOnTop
    <2>4. tag # "case" /\ tag # "colon"
      BY DEF Forward, Back
    <2>5. s[n - 1][2] \in DOMAIN c /\ IsBranch(c, s[n - 1][2]) => s[n - 1][2] \in DOMAIN d /\ IsBranch(d, s[n - 1][2])
      BY DEF Structured, Kept, IsBranch
    <2>6. GroupAt(t, d, m, k)
      BY <1>1, <1>2, <1>11, <2>1, <2>3, <2>4, <2>5 DEF GroupAt
    <2> QED
      BY <1>10, <1>11, <2>3, <2>6
  <1>13. CASE s[n][2] = "colon"
    <2>1. m # n
      BY <1>2, <1>11, <1>13, CellParts DEF Grouped, Broken
    <2>2. GroupAt(s, c, m, n)
      BY <1>2, <1>11, <2>1 DEF Grouped
    <2>3. s[n - 1] = Xt /\ n - 2 >= m /\ Ends(s, n - 2)
      BY <1>2, <1>13, <2>2 DEF GroupAt
    <2>4. GroupAt(t, d, m, k)
      BY <1>1, <1>2, <1>11, <1>13, <2>3 DEF GroupAt, Forward, Back
    <2> QED
      BY <1>10, <1>11, <2>3, <2>4, CellParts
  <1>14. CASE s[n][2] = "case"
    <2>1. s[n] = Tag("case")
      BY <1>2, <1>14, CellIs DEF Tag
    <2>2. /\ s[n - 1][1] = "num" /\ s[n - 1][2] \in Nat /\ s[n - 1][2] <= n - 2
          /\ s[n - 1][2] = 0 => n - 2 >= m /\ Ends(s, n - 2)
      <3>1. CASE m = n
        <4>1. Broken(s, n)
          BY <1>2, <3>1 DEF Grouped
        <4>2. s[n - 1][1] = "num" /\ s[n - 1][2] <= n - 2 /\ \E j \in 1..(n - 2) : j >= n - 1 - s[n - 1][2]
          BY <4>1 DEF Broken
        <4>3. s[n - 1][2] \in Nat
          BY <1>2, <4>2, CellIs
        <4>4. s[n - 1][2] # 0
          BY <1>2, <4>2
        <4> QED
          BY <4>2, <4>3, <4>4
      <3>2. CASE m # n
        <4>1. /\ n > 1 /\ s[n - 1][1] = "num" /\ s[n - 1][2] \in Nat
              /\ n - 2 - s[n - 1][2] >= m /\ Ends(s, n - 2 - s[n - 1][2])
          <5>1. n > m /\ n <= Len(s)
            BY <1>2, <1>11, <3>2
          <5>2. CaseBelow(s, c, m, n)
            BY <2>1, <5>1, CaseAt
          <5> QED
            BY <5>2 DEF CaseBelow
        <4>2. PICK v \in Nat : v = s[n - 1][2]
          BY <4>1
        <4> QED
          BY <1>2, <4>1, <4>2
      <3> QED
        BY <3>1, <3>2
    <2>3. PICK v \in Nat : v = s[n - 1][2]
      BY <2>2
    <2>4. CASE v = 0
      <3>1. p >= m /\ Ends(s, p)
        BY <1>11, <2>2, <2>3, <2>4
      <3>2. GroupAt(t, d, m, k)
        <4>1. t[k] = Tag("case") /\ t[k - 1][1] = "num" /\ t[k - 1][2] = 0
          BY <1>11, <2>1, <2>2, <2>3, <2>4
        <4> QED
          BY <1>1, <1>2, <1>11, <3>1, <4>1, CellParts DEF GroupAt, Forward, Back
      <3> QED
        BY <1>10, <1>11, <2>2, <3>1, <3>2
    <2>5. CASE v > 0
      <3>1. Broken(t, k)
        <4>1. t[k] = Tag("case") /\ t[k - 1][1] = "num" /\ t[k - 1][2] = v /\ t[n][1] = "tag" /\ v <= n - 2
          BY <1>1, <1>11, <2>1, <2>2, <2>3, CellParts
        <4> QED
          BY <1>1, <1>2, <2>5, <4>1 DEF Broken
      <3>2. Grouped(t, d, k)
        <4>1. k = Len(t) /\ t[k][1] = "tag" /\ k \in 0..Len(t)
          <5>1. k = Len(t)
            BY <1>1
          <5>2. t[k][1] = "tag"
            BY <1>2, <1>11
          <5> QED
            BY <5>1, <5>2
        <4>2. \A j \in (k + 1)..k : FALSE
          OBVIOUS
        <4> QED
          BY <3>1, <4>1, <4>2 DEF Grouped, Ends
      <3> QED
        BY <3>2 DEF Groups
    <2> QED
      BY <2>4, <2>5
  <1> QED
    BY <1>2, <1>12, <1>13, <1>14, CellIs DEF Forward, Back

\* A case that no word has entered.
LEMMA AddCase ==
    ASSUME NEW s \in Seq(Cell), NEW t \in Seq(Cell), NEW c, NEW d, NEW m \in Nat,
           Grouped(s, c, m), Structured(c, d), PushedTwo(s, t, Num(0), Tag("case"))
    PROVE  Grouped(t, d, m)
  <1>1. PICK n \in Nat, k \in Nat : n = Len(s) /\ k = n + 2
    OBVIOUS
  <1>2. m <= n /\ Ends(s, n)
    BY <1>1 DEF Grouped
  <1>3. k = Len(t) /\ t[k] = Tag("case") /\ t[k - 1] = Num(0) /\ t[n + 1] = Num(0) /\ \A i \in 1..n : t[i] = s[i]
    BY <1>1 DEF PushedTwo
  <1>4. Ends(t, n)
    BY <1>1, <1>2, <1>3 DEF Ends
  <1>5. t[k][1] = "tag" /\ t[k][2] = "case" /\ t[k - 1][1] = "num" /\ t[k - 1][2] = 0 /\ t[n + 1][1] = "num"
    BY <1>3, CellParts
  <1>6. GroupAt(t, d, m, k)
    BY <1>1, <1>2, <1>4, <1>5 DEF GroupAt, Forward, Back
  <1>7. Pushed(s, t)
    <2>1. \A i \in Nat : i > n /\ i < k => t[i][1] # "tag"
      BY <1>1, <1>5
    <2> QED
      BY <1>1, <1>3, <1>5, <2>1 DEF Pushed
  <1> QED
    BY <1>3, <1>6, <1>7, AddGroup

\* An endof puts the address of its branch on those of the endofs before it.
LEMMA EndofKeeps ==
    ASSUME NEW s \in Seq(Cell), NEW t \in Seq(Cell), NEW c, NEW d, NEW m \in Nat,
           Grouped(s, c, m), Structured(c, d), NEW p \in Nat, Len(s) = p + 4, Len(t) = p + 3,
           s[p + 4] = Tag("of"), s[p + 2] = Tag("case"),
           \A i \in 1..p : t[i] = s[i],
           t[p + 1][1] = "addr", t[p + 1][2] \in DOMAIN d, IsBranch(d, t[p + 1][2]),
           t[p + 2] = Num(s[p + 1][2] + 1), t[p + 3] = Tag("case")
    PROVE  Groups(t, d)
  <1>1. PICK n \in Nat, k \in Nat, l \in Nat : n = p + 4 /\ k = p + 2 /\ l = p + 3
    OBVIOUS
  <1>2. m <= k
    <2>1. "of" \in Forward \cup Back
      BY DEF Forward
    <2>2. Len(s) - 2 >= m
      BY <1>1, <2>1, PairOnTop
    <2> QED
      BY <1>1, <2>2
  <1>3. CASE m = k
    <2>1. Broken(s, k)
      BY <1>1, <1>3 DEF Grouped
    <2>2. s[k - 1][1] = "num" /\ s[k - 1] \in Cell /\ k - 1 = p + 1
      BY <1>1, <2>1 DEF Broken
    <2>3. PICK v \in Nat : v = s[p + 1][2]
      BY <1>1, <2>2, CellIs
    <2>4. v <= k - 2 /\ \E j \in 1..(k - 2) : j >= k - 1 - v /\ s[j][1] = "tag"
      BY <2>1, <2>2, <2>3 DEF Broken
    <2>5. t[l] = Tag("case") /\ t[l - 1][1] = "num" /\ t[l - 1][2] = v + 1
      BY <1>1, <2>3, CellParts
    <2>6. v + 1 <= l - 2 /\ \E j \in 1..(l - 2) : j >= l - 1 - (v + 1) /\ t[j][1] = "tag"
      BY <1>1, <2>4
    <2>7. Broken(t, l)
      BY <1>1, <2>5, <2>6 DEF Broken
    <2>8. Grouped(t, d, l)
      BY <1>1, <2>5, <2>7, CellParts DEF Grouped, Ends
    <2> QED
      BY <2>8 DEF Groups
  <1>4. CASE m # k
    <2>1. /\ s[k - 1][1] = "num" /\ s[k - 1][2] \in Nat
          /\ k - 2 - s[k - 1][2] >= m /\ Ends(s, k - 2 - s[k - 1][2])
          /\ \A j \in 1..(k - 2) : j >= k - 1 - s[k - 1][2] =>
               s[j][1] = "addr" /\ s[j][2] \in DOMAIN c /\ IsBranch(c, s[j][2])
      <3>1. k > m /\ k <= Len(s) /\ s[k] = Tag("case")
        BY <1>1, <1>2, <1>4
      <3>2. CaseBelow(s, c, m, k)
        BY <3>1, CaseAt
      <3> QED
        BY <3>2 DEF CaseBelow
    <2>2. PICK v \in Nat : v = s[k - 1][2] /\ k - 1 = p + 1
      BY <1>1, <2>1
    <2>3. PICK q \in 0..Len(s) : q = p - v /\ q >= m /\ Ends(s, q)
      <3>1. p - v >= m /\ Ends(s, p - v) /\ k - 2 - v = p - v
        BY <1>1, <2>1, <2>2
      <3>2. p - v \in 0..Len(s)
        <4>1. p - v \in 0..(p + 4)
          BY <3>1
        <4> QED
          BY <4>1
      <3> QED
        BY <3>1, <3>2
    <2>4. PICK u : Dropped(s, u, q)
      BY <2>3, DropSome
    <2>5. Grouped(u, c, m) /\ u \in Seq(Cell)
      <3>1. Structured(c, c)
        BY DEF Structured, Kept
      <3> QED
        BY <2>3, <2>4, <3>1, PopKeeps DEF Dropped
    <2>6. Len(u) = q /\ \A i \in 1..q : u[i] = t[i]
      <3>1. \A i \in 1..q : i \in 1..p
        <4>1. q <= p /\ q \in Nat
          BY <2>2, <2>3
        <4> QED
          BY <4>1
      <3>2. Len(u) = q /\ \A i \in 1..q : u[i] = s[i]
        BY <2>4 DEF Dropped
      <3> QED
        BY <3>1, <3>2
    <2>7. t[l] = Tag("case") /\ t[l - 1][1] = "num" /\ t[l - 1][2] = v + 1 /\ l - 1 = p + 2
      BY <1>1, <2>2, CellParts
    <2>8. \A j \in Nat : j > q /\ j <= p + 1 => t[j][1] = "addr" /\ t[j][2] \in DOMAIN d /\ IsBranch(d, t[j][2])
      <3> SUFFICES ASSUME NEW j \in Nat, j > q, j <= p + 1
                   PROVE  t[j][1] = "addr" /\ t[j][2] \in DOMAIN d /\ IsBranch(d, t[j][2])
        OBVIOUS
      <3>1. CASE j = p + 1
        BY <3>1
      <3>2. CASE j # p + 1
        <4>1. j \in 1..p /\ j \in 1..(k - 2) /\ j >= k - 1 - v
          <5>1. q = p - v /\ k = p + 2 /\ q \in Nat
            BY <1>1, <2>3
          <5> QED
            BY <3>2, <5>1
        <4>2. s[j][1] = "addr" /\ s[j][2] \in DOMAIN c /\ IsBranch(c, s[j][2]) /\ t[j] = s[j]
          BY <2>1, <2>2, <4>1
        <4> QED
          BY <4>2 DEF Structured, Kept, IsBranch
      <3> QED
        BY <3>1, <3>2
    <2>9. GroupAt(t, d, m, l)
      <3>0. q <= p /\ q = l - 2 - (v + 1)
        <4>1. q = p - v /\ l = p + 3
          BY <1>1, <2>3
        <4> QED
          BY <4>1
      <3>1. Ends(t, q)
        <4>1. q = 0 \/ (q \in 1..p /\ s[q][1] = "tag")
          BY <2>3, <3>0 DEF Ends
        <4> QED
          BY <4>1 DEF Ends
      <3>2. \A j \in 1..(l - 2) : j >= l - 1 - (v + 1) => j \in Nat /\ j > q /\ j <= p + 1
        BY <1>1, <2>3
      <3>3. t[l][2] = "case"
        BY <2>7, CellParts
      <3>4. l > 1 /\ l - 2 - (v + 1) >= m
        BY <1>1, <2>3
      <3> QED
        BY <2>7, <2>8, <3>0, <3>1, <3>2, <3>3, <3>4 DEF GroupAt, Forward, Back
    <2>10. Pushed(u, t)
      <3>1. \A i \in Nat : i > q /\ i < l => t[i][1] # "tag"
        <4> SUFFICES ASSUME NEW i \in Nat, i > q, i < l PROVE t[i][1] # "tag"
          OBVIOUS
        <4>1. i <= p + 1 \/ i = l - 1
          BY <1>1
        <4> QED
          BY <2>7, <2>8, <4>1
      <3>2. q < l /\ l = Len(t)
        BY <1>1, <2>2, <2>3
      <3> QED
        BY <2>6, <2>7, <3>1, <3>2, CellParts DEF Pushed
    <2>11. Grouped(t, d, m)
      BY <1>1, <2>5, <2>9, <2>10, AddGroup
    <2> QED
      BY <2>11 DEF Groups
  <1> QED
    BY <1>3, <1>4

-----------------------------------------------------------------------------
(* Code and stack together. *)

Well(s, c) == Typed(s, c) /\ Groups(s, c)

\* D is C and an instruction.
Compiled(c, d, op, to) ==
    /\ Structured(c, d) /\ Len(d) = Len(c) + 1 /\ d[Len(c) + 1] = Ins(op, to)
    /\ \A i \in DOMAIN c : d[i] = c[i]

\* An instruction compiled (FICL_WORD_APPEND_*) and an operand patched.
LEMMA StructuredAppend ==
    ASSUME NEW c \in Seq(Instruction), NEW op \in Branches \cup {"drop"}, NEW to \in Nat,
           NEW d, d = Append(c, Ins(op, to))
    PROVE  Compiled(c, d, op, to)
  <1>1. PICK e : e = Ins(op, to)
    OBVIOUS
  <1>2. e \in Instruction /\ e.op = op
    BY <1>1 DEF Ins, Instruction
  <1>3. PICK n \in Nat : n = Len(c)
    OBVIOUS
  <1>4. /\ d \in Seq(Instruction) /\ Len(d) = n + 1 /\ d[n + 1] = e /\ DOMAIN c = 1..n /\ DOMAIN d = 1..(n + 1)
        /\ \A i \in 1..n : d[i] = c[i]
    BY <1>1, <1>2, <1>3
  <1>5. \A i \in DOMAIN d : i \in DOMAIN c \/ d[i].op \in Branches \cup {"drop"}
    <2>1. \A i \in 1..(n + 1) : i \in 1..n \/ i = n + 1
      OBVIOUS
    <2> QED
      BY <1>2, <1>4, <2>1
  <1> QED
    BY <1>1, <1>3, <1>4, <1>5 DEF Structured, Kept, Compiled
\* The operand of a branch patched (resolveForwardBranch).
LEMMA StructuredPatch ==
    ASSUME NEW c, NEW d, Structured(c, d), NEW a \in DOMAIN d, IsBranch(d, a), NEW to \in Nat,
           NEW e, e = Patch(d, a, to)
    PROVE  /\ Structured(c, e) /\ Len(e) = Len(d) /\ e[a] = Ins(d[a].op, to)
           /\ \A i \in DOMAIN d \ {a} : e[i] = d[i]
  <1>1. d \in Seq(Instruction) /\ c \in Seq(Instruction) /\ \A i \in DOMAIN c : i \in DOMAIN d
    BY DEF Structured, Kept
  <1>2. d[a] \in Instruction
    BY <1>1
  <1>3. PICK x : x = Ins(d[a].op, to)
    OBVIOUS
  <1>4. x \in Instruction /\ x.op = d[a].op /\ x.to = to
    BY <1>2, <1>3 DEF Ins, Instruction
  <1>5. [d[a] EXCEPT !.to = to] = x
    BY <1>2, <1>3 DEF Ins, Instruction
  <1>6. e = [d EXCEPT ![a] = x]
    BY <1>5 DEF Patch
  <1>7. e \in Seq(Instruction) /\ Len(e) = Len(d) /\ DOMAIN e = DOMAIN d
    BY <1>1, <1>4, <1>6
  <1>8. e[a] = x /\ \A i \in DOMAIN d \ {a} : e[i] = d[i]
    BY <1>1, <1>6
  <1>9. \A i \in DOMAIN d : e[i].op = d[i].op /\ (IsBranch(d, i) \/ e[i] = d[i])
    BY <1>4, <1>8
  <1>10. \A i \in DOMAIN c : IsBranch(d, i) = IsBranch(c, i)
    BY DEF Structured, Kept, IsBranch
  <1>11. Structured(c, e)
    <2>1. \A i \in DOMAIN c : e[i].op = c[i].op
      BY <1>1, <1>9 DEF Structured, Kept
    <2>2. \A i \in DOMAIN c : IsBranch(c, i) \/ e[i] = c[i]
      BY <1>1, <1>9, <1>10 DEF Structured, Kept
    <2>3. \A i \in DOMAIN e : i \in DOMAIN c \/ e[i].op \in Branches \cup {"drop"}
      BY <1>7, <1>9 DEF Structured, Kept
    <2> QED
      BY <1>7, <2>1, <2>2, <2>3 DEF Structured, Kept
  <1> QED
    BY <1>3, <1>7, <1>8, <1>11

\* Code that nothing is done to.
LEMMA StructuredSame ==
    ASSUME NEW c \in Seq(Instruction)
    PROVE  Structured(c, c)
  BY DEF Structured, Kept

\* Cells stay typed when some are dropped and two are pushed.
LEMMA TypedPop ==
    ASSUME NEW s, NEW c, NEW d, NEW t, NEW q, Typed(s, c), Structured(c, d), Dropped(s, t, q)
    PROVE  Typed(t, d)
  <1>1. \A i \in DOMAIN t : i \in DOMAIN s /\ t[i] = s[i]
    BY DEF Typed, Dropped
  <1>2. t \in Seq(Cell) /\ s \in Seq(Cell) /\ \A i \in DOMAIN s : s[i] \in Cell
    BY DEF Typed, Dropped
  <1>3. Len(c) \in Nat /\ Len(d) \in Nat /\ Len(c) <= Len(d)
    BY DEF Structured, Kept
  <1>4. ASSUME NEW i \in DOMAIN t, t[i][1] = "addr"
        PROVE  t[i][2] \in 1..(Len(d) + 1)
    <2>1. s[i][2] \in 1..(Len(c) + 1) /\ t[i] = s[i]
      BY <1>1, <1>4 DEF Typed
    <2> QED
      BY <1>3, <2>1
  <1> QED
    BY <1>2, <1>4 DEF Typed
\* Cells pushed: an address is one of the code, or the one it ends at.
LEMMA TypedPush ==
    ASSUME NEW s, NEW c, NEW d, NEW t, Typed(s, c), Structured(c, d), NEW x, NEW y, PushedTwo(s, t, x, y),
           x[1] # "addr" \/ x[2] \in 1..(Len(d) + 1), y[1] # "addr"
    PROVE  Typed(t, d)
  <1>1. PICK n \in Nat : n = Len(s)
    BY DEF Typed
  <1>2. t \in Seq(Cell) /\ Len(t) = n + 2 /\ t[n + 1] = x /\ t[n + 2] = y /\ \A i \in 1..n : t[i] = s[i]
    BY <1>1 DEF PushedTwo
  <1>3. Len(c) \in Nat /\ Len(d) \in Nat /\ Len(c) <= Len(d) /\ s \in Seq(Cell) /\ DOMAIN s = 1..n
    BY <1>1 DEF Structured, Kept, Typed
  <1>4. ASSUME NEW i \in DOMAIN t, t[i][1] = "addr"
        PROVE  t[i][2] \in 1..(Len(d) + 1)
    <2>1. i \in 1..n \/ i = n + 1 \/ i = n + 2
      BY <1>2
    <2>2. CASE i \in 1..n
      <3>1. s[i][2] \in 1..(Len(c) + 1) /\ t[i] = s[i]
        BY <1>2, <1>3, <1>4, <2>2 DEF Typed
      <3> QED
        BY <1>3, <3>1
    <2> QED
      BY <1>2, <1>4, <2>1, <2>2
  <1> QED
    BY <1>2, <1>4 DEF Typed

\* The N-th cell is a tag with its address below, and what is below them is well.
PairAt(s, c, d, n, tag) ==
    /\ n >= 2 /\ s[n - 1][1] = "addr" /\ s[n - 1][2] \in 1..(Len(c) + 1)
    /\ tag \in Forward => s[n - 1][2] \in DOMAIN c /\ IsBranch(c, s[n - 1][2])
    /\ \A t : Dropped(s, t, n - 2) => Well(t, d)

\* What a word finds that takes an address and its tag, and what it leaves.
LEMMA WellPop ==
    ASSUME NEW s, NEW c, NEW d, Well(s, c), Structured(c, d), NEW n \in Nat, n = Len(s), n > 0,
           NEW tag \in Forward \cup Back, s[n] = Tag(tag)
    PROVE  PairAt(s, c, d, n, tag)
  <1>1. s \in Seq(Cell) /\ DOMAIN s = 1..n
    BY DEF Well, Typed
  <1>2. PICK m \in Nat : Grouped(s, c, m)
    BY DEF Well, Groups
  <1>3. /\ n >= 2 /\ n - 2 >= m /\ Ends(s, n - 2) /\ s[n - 1][1] = "addr"
        /\ tag \in Forward => s[n - 1][2] \in DOMAIN c /\ IsBranch(c, s[n - 1][2])
    BY <1>1, <1>2, PairOnTop
  <1>4. s[n - 1][2] \in 1..(Len(c) + 1)
    BY <1>1, <1>3 DEF Well, Typed
  <1>5. ASSUME NEW t, Dropped(s, t, n - 2)
        PROVE  Well(t, d)
    <2>1. PICK q \in Nat : q = n - 2
      BY <1>3
    <2>2. Grouped(t, d, m)
      BY <1>1, <1>2, <1>3, <1>5, <2>1, PopKeeps
    <2>3. Typed(t, d)
      BY <1>5, <2>1, TypedPop DEF Well
    <2> QED
      BY <2>2, <2>3 DEF Well, Groups
  <1> QED
    BY <1>3, <1>4, <1>5 DEF PairAt
\* What a word leaves that pushes an address and its tag.
LEMMA WellPush ==
    ASSUME NEW s, NEW c, NEW d, Well(s, c), Structured(c, d), NEW t, NEW a \in 1..(Len(d) + 1),
           NEW tag \in Forward \cup Back, t = s \o markBranch(a, tag),
           tag \in Forward => a \in DOMAIN d /\ IsBranch(d, a)
    PROVE  Well(t, d) /\ PushedTwo(s, t, Addr(a), Tag(tag)) /\ t \in Seq(Cell)
  <1>1. PICK x \in Cell, y \in Cell : x = Addr(a) /\ y = Tag(tag)
    BY CellsPushed DEF Structured, Kept
  <1>2. t = s \o <<x, y>>
    BY <1>1 DEF markBranch
  <1>3. s \in Seq(Cell)
    BY DEF Well, Typed
  <1>4. PushedTwo(s, t, x, y)
    BY <1>2, <1>3, PushTwo
  <1>5. t \in Seq(Cell)
    BY <1>4 DEF PushedTwo
  <1>6. x[1] = "addr" /\ x[2] = a /\ y[1] = "tag"
    BY <1>1, CellParts
  <1>7. PICK m \in Nat : Grouped(s, c, m)
    BY DEF Well, Groups
  <1>8. Grouped(t, d, m)
    BY <1>1, <1>3, <1>4, <1>5, <1>6, <1>7, AddPair
  <1>9. Typed(t, d)
    BY <1>4, <1>6, TypedPush DEF Well
  <1> QED
    BY <1>1, <1>4, <1>5, <1>8, <1>9 DEF Well, Groups

-----------------------------------------------------------------------------
(* The structure words, one at a time. *)

WordPre == TypeOK /\ Groups(stack, code)
WordPost ==
    /\ code' \in Seq(Instruction) /\ Typed(stack', code') /\ Len(code) <= Len(code')
    /\ ~wild' => Structured(code, code') /\ Groups(stack', code')

\* The types of the definition in progress, in the words of the lemmas.
LEMMA WordTypes ==
    ASSUME WordPre
    PROVE  /\ Well(stack, code) /\ code \in Seq(Instruction) /\ Structured(code, code)
           /\ stack \in Seq(Cell) /\ Len(code) \in Nat /\ here = Len(code) + 1
  <1>1. code \in Seq(Instruction)
    BY DEF WordPre, TypeOK, Code, Instruction
  <1>2. Typed(stack, code) /\ stack \in Seq(Cell)
    BY DEF WordPre, TypeOK, Typed, here
  <1> QED
    BY <1>1, <1>2, StructuredSame DEF WordPre, Well, here

\* Cells below the top of the stack.
LEMMA Tops ==
    ASSUME stack \in Seq(Cell), NEW n \in Nat, n = Len(stack)
    PROVE  /\ FromTop(1) = stack[n] /\ FromTop(2) = stack[n - 1] /\ FromTop(3) = stack[n - 2] /\ FromTop(4) = stack[n - 3]
           /\ Holds(2) = stack[n - 1][2] /\ Holds(4) = stack[n - 3][2]
           /\ \A k \in 0..n : Dropped(stack, Below(k), n - k)
  <1>1. n + 1 - 1 = n /\ n + 1 - 2 = n - 1 /\ n + 1 - 3 = n - 2 /\ n + 1 - 4 = n - 3
    OBVIOUS
  <1>2. ASSUME NEW k \in 0..n
        PROVE  Dropped(stack, Below(k), n - k)
    <2>1. PICK q \in 0..Len(stack) : q = n - k
      OBVIOUS
    <2>2. Below(k) = SubSeq(stack, 1, q)
      BY <2>1 DEF Below
    <2> QED
      BY <2>1, <2>2, DropSome
  <1> QED
    BY <1>1, <1>2 DEF FromTop, Holds

\* D is C and a branch to patch, T is S, its address and a tag.
Opens(s, c, d, t, tag) ==
    /\ Structured(c, d) /\ Well(t, d) /\ t \in Seq(Cell) /\ Len(d) = Len(c) + 1
    /\ PushedTwo(s, t, Addr(Len(c) + 1), Tag(tag)) /\ Len(c) + 1 \in DOMAIN d /\ IsBranch(d, Len(c) + 1)

\* A word that compiles a branch to patch and leaves its address: if, while's and do's branch.
LEMMA OpenBranch ==
    ASSUME NEW s, NEW c, NEW d, NEW t, Well(s, c), c \in Seq(Instruction), NEW op \in Branches,
           NEW tag \in Forward, d = Append(c, Ins(op, Open)), t = s \o markBranch(Len(c) + 1, tag)
    PROVE  Opens(s, c, d, t, tag)
  <1>1. PICK a \in Nat : a = Len(c) + 1
    OBVIOUS
  <1>2. Structured(c, d) /\ Len(d) = a /\ d[a] = Ins(op, Open)
    <2>1. Compiled(c, d, op, Open)
      BY StructuredAppend DEF Open
    <2> QED
      BY <1>1, <2>1 DEF Compiled
  <1>3. d \in Seq(Instruction)
    BY <1>2 DEF Structured, Kept
  <1>4. a \in DOMAIN d /\ a \in 1..(Len(d) + 1) /\ IsBranch(d, a)
    BY <1>1, <1>2, <1>3 DEF IsBranch, Ins
  <1>5. tag \in Forward \cup Back
    OBVIOUS
  <1>6. t = s \o markBranch(a, tag)
    BY <1>1
  <1>7. Well(t, d) /\ PushedTwo(s, t, Addr(a), Tag(tag)) /\ t \in Seq(Cell)
    BY <1>2, <1>4, <1>5, <1>6, WellPush
  <1> QED
    BY <1>1, <1>2, <1>4, <1>7 DEF Opens

\* E is the code with a branch to patch compiled and the branch on top of the stack patched.
Closes(e, n, old) ==
    /\ Structured(code, e) /\ Len(e) = Len(code) + 1
    /\ Len(code) + 1 \in DOMAIN e /\ IsBranch(e, Len(code) + 1)
    /\ PairAt(stack, code, code, n, old)

\* The code of else, of after a fallthrough, endof and fallthrough.
LEMMA CloseCode ==
    ASSUME WordPre, NEW old \in Forward, NEW op \in Branches, Matches(1, old),
           NEW e, e = Patch(Append(code, Ins(op, Open)), Holds(2), here + 1),
           NEW n \in Nat, n = Len(stack)
    PROVE  Closes(e, n, old) /\ n > 0 /\ stack[n] = Tag(old)
  <1>2. n > 0 /\ stack[n] = Tag(old) /\ old \in Forward \cup Back
    BY Tops, WordTypes DEF Matches
  <1>3. PICK a : a = stack[n - 1][2] /\ a = Holds(2)
    BY Tops, WordTypes
  <1>4. PICK b \in Nat : b = here /\ b = Len(code) + 1
    BY WordTypes
  <1>5. PICK d : d = Append(code, Ins(op, Open))
    OBVIOUS
  <1>6. Structured(code, d) /\ Len(d) = b /\ d[b] = Ins(op, Open)
    <2>1. Compiled(code, d, op, Open)
      BY <1>5, StructuredAppend, WordTypes DEF Open
    <2> QED
      BY <1>4, <2>1 DEF Compiled
  <1>7. PairAt(stack, code, code, n, old) /\ a \in DOMAIN code /\ IsBranch(code, a)
    BY <1>2, <1>3, WellPop, WordTypes DEF PairAt
  <1>8. a \in DOMAIN d /\ IsBranch(d, a)
    BY <1>6, <1>7 DEF Structured, Kept, IsBranch
  <1>9. e = Patch(d, a, b + 1)
    BY <1>3, <1>4, <1>5
  <1>10. Structured(code, e) /\ Len(e) = b
    BY <1>4, <1>6, <1>8, <1>9, StructuredPatch
  <1>11. b \in DOMAIN e /\ IsBranch(e, b)
    <2>1. b \in DOMAIN e
      BY <1>4, <1>10 DEF Structured, Kept
    <2>2. b \notin DOMAIN code
      BY <1>4, WordTypes
    <2>3. a # b
      BY <1>7, <2>2
    <2>4. b \in DOMAIN d
      BY <1>4, <1>6 DEF Structured, Kept
    <2>5. e[b] = d[b]
      BY <1>4, <1>6, <1>8, <1>9, <2>3, <2>4, StructuredPatch
    <2> QED
      BY <1>6, <2>1, <2>5 DEF IsBranch, Ins
  <1> QED
    BY <1>2, <1>4, <1>7, <1>10, <1>11 DEF Closes

\* else, of after a fallthrough and fallthrough: one branch is patched, another is left to patch.
LEMMA CloseAndOpen ==
    ASSUME WordPre, NEW old \in Forward, NEW tag \in Forward, NEW op \in Branches, Matches(1, old),
           code' = Patch(Append(code, Ins(op, Open)), Holds(2), here + 1),
           stack' = Below(2) \o markBranch(here, tag)
    PROVE  WordPost
  <1>1. PICK n \in Nat : n = Len(stack)
    BY WordTypes
  <1>2. PICK e : e = code'
    OBVIOUS
  <1>3. Closes(e, n, old)
    BY <1>1, <1>2, CloseCode
  <1>4. PICK b \in Nat : b = here /\ b = Len(code) + 1
    BY WordTypes
  <1>5. Well(Below(2), code)
    <2>1. 2 \in 0..n
      BY <1>3 DEF Closes, PairAt
    <2> QED
      BY <1>1, <1>3, <2>1, Tops, WordTypes DEF Closes, PairAt
  <1>6. Structured(code, e) /\ b \in 1..(Len(e) + 1) /\ b \in DOMAIN e /\ IsBranch(e, b)
    BY <1>3, <1>4 DEF Closes
  <1>7. tag \in Forward \cup Back /\ stack' = Below(2) \o markBranch(b, tag)
    BY <1>4
  <1>8. Well(stack', e)
    BY <1>5, <1>6, <1>7, WellPush
  <1> QED
    BY <1>2, <1>6, <1>8 DEF WordPost, Well, Structured, Kept

\* if
LEMMA IfKeeps == ASSUME WordPre, If PROVE WordPost
  <1>1. "if" \in Branches /\ "origin" \in Forward
    BY DEF Branches, Forward
  <1>2. code' = Append(code, Ins("if", Open)) /\ stack' = stack \o markBranch(Len(code) + 1, "origin")
    BY WordTypes DEF If, Plainly, Compiles
  <1>3. Opens(stack, code, code', stack', "origin")
    BY <1>1, <1>2, OpenBranch, WordTypes
  <1> QED
    BY <1>3 DEF WordPost, Well, Opens, Structured, Kept

\* else
LEMMA ElseKeeps == ASSUME WordPre, Else PROVE WordPost
  <1>1. "else" \in Branches /\ "origin" \in Forward
    BY DEF Branches, Forward
  <1> QED
    BY <1>1, CloseAndOpen DEF Else, Plainly, Compiles

\* fallthrough
LEMMA FallthroughKeeps == ASSUME WordPre, Fallthrough PROVE WordPost
  <1>1. "fallthrough" \in Branches /\ "fallthrough" \in Forward /\ "of" \in Forward
    BY DEF Branches, Forward
  <1> QED
    BY <1>1, CloseAndOpen DEF Fallthrough, Plainly, Compiles

\* of, after a fallthrough and after something else
LEMMA OfKeeps == ASSUME WordPre, Of PROVE WordPost
  <1>1. "of" \in Branches /\ "of" \in Forward /\ "fallthrough" \in Forward
    BY DEF Branches, Forward
  <1>2. CASE Matches(1, "fallthrough")
    <2>1. Fell = 2
      BY <1>2 DEF Fell
    <2>2. code' = Patch(Append(code, Ins("of", Open)), Holds(2), here + 1) /\ stack' = Below(2) \o markBranch(here, "of")
      BY <2>1 DEF Of, Plainly, Compiles
    <2> QED
      BY <1>1, <1>2, <2>2, CloseAndOpen
  <1>3. CASE ~Matches(1, "fallthrough")
    <2>1. Fell = 0
      BY <1>3 DEF Fell
    <2>2. code' = Append(code, Ins("of", Open)) /\ stack' = Below(0) \o markBranch(here, "of")
      BY <2>1 DEF Of, Plainly, Compiles
    <2>3. Below(0) = stack
      BY WordTypes DEF Below
    <2>4. stack' = stack \o markBranch(Len(code) + 1, "of")
      BY <2>2, <2>3, WordTypes
    <2>5. Opens(stack, code, code', stack', "of")
      BY <1>1, <2>2, <2>4, OpenBranch, WordTypes
    <2> QED
      BY <2>5 DEF WordPost, Well, Opens, Structured, Kept
  <1> QED
    BY <1>2, <1>3

\* then
LEMMA ThenKeeps == ASSUME WordPre, Then PROVE WordPost
  <1>1. PICK n \in Nat : n = Len(stack)
    BY WordTypes
  <1>2. n > 0 /\ stack[n] = Tag("origin") /\ "origin" \in Forward \cup Back /\ "origin" \in Forward
    BY <1>1, Tops, WordTypes DEF Then, Matches, Forward
  <1>3. PICK a : a = stack[n - 1][2] /\ a = Holds(2)
    BY <1>1, Tops, WordTypes
  <1>4. /\ n >= 2 /\ a \in DOMAIN code /\ IsBranch(code, a)
        /\ \A t : Dropped(stack, t, n - 2) => Well(t, code)
    BY <1>1, <1>2, <1>3, WellPop, WordTypes DEF PairAt
  <1>5. PICK h \in Nat : h = here
    BY WordTypes
  <1>6. PICK e : e = Patch(code, a, h) /\ e = code'
    BY <1>3, <1>5 DEF Then, Plainly, Compiles
  <1>7. Structured(code, e)
    BY <1>4, <1>5, <1>6, StructuredPatch, WordTypes
  <1>8. Dropped(stack, Below(2), n - 2) /\ stack' = Below(2)
    BY <1>1, <1>4, Tops, WordTypes DEF Then, Plainly, Compiles
  <1>9. Well(stack', e)
    BY <1>1, <1>2, <1>7, <1>8, WellPop, WordTypes DEF PairAt
  <1> QED
    BY <1>6, <1>7, <1>9 DEF WordPost, Well, Structured, Kept

\* until and again
LEMMA UntilKeeps == ASSUME WordPre, Until PROVE WordPost
  <1>1. PICK n \in Nat : n = Len(stack)
    BY WordTypes
  <1>2. n > 0 /\ stack[n] = Tag("target") /\ "target" \in Forward \cup Back
    BY <1>1, Tops, WordTypes DEF Until, Matches, Back
  <1>3. PICK a : a = stack[n - 1][2] /\ a = Holds(2)
    BY <1>1, Tops, WordTypes
  <1>4. n >= 2 /\ a \in Nat
    <2>1. PairAt(stack, code, code, n, "target")
      BY <1>1, <1>2, WellPop, WordTypes
    <2> QED
      BY <1>3, <2>1, WordTypes DEF PairAt
  <1>5. PICK d : d = Append(code, Ins("until", a)) /\ d = code'
    BY <1>3 DEF Until, Plainly, Compiles
  <1>6. Structured(code, d)
    <2>1. "until" \in Branches
      BY DEF Branches
    <2>2. Compiled(code, d, "until", a)
      BY <1>4, <1>5, <2>1, StructuredAppend, WordTypes
    <2> QED
      BY <2>2 DEF Compiled
  <1>7. Dropped(stack, Below(2), n - 2) /\ stack' = Below(2)
    BY <1>1, <1>4, Tops, WordTypes DEF Until, Plainly, Compiles
  <1>8. Well(stack', d)
    BY <1>1, <1>2, <1>6, <1>7, WellPop, WordTypes DEF PairAt
  <1> QED
    BY <1>5, <1>6, <1>8 DEF WordPost, Well, Structured, Kept

\* begin
LEMMA BeginLoopKeeps == ASSUME WordPre, BeginLoop PROVE WordPost
  <1>1. PICK a \in Nat : a = here /\ a = Len(code) + 1
    BY WordTypes
  <1>2. PICK t : t = stack' /\ t = stack \o markBranch(a, "target")
    BY <1>1 DEF BeginLoop, Plainly, Compiles
  <1>3. "target" \in Forward \cup Back /\ "target" \notin Forward /\ a \in 1..(Len(code) + 1)
    BY <1>1, WordTypes DEF Forward, Back
  <1>4. Well(t, code)
    BY <1>2, <1>3, WellPush, WordTypes
  <1>5. code' = code
    BY DEF BeginLoop, Plainly, Compiles
  <1> QED
    BY <1>2, <1>4, <1>5, WordTypes DEF WordPost, Well, Structured, Kept

\* repeat, loop and +loop: two groups are taken, the place to go back to and the branch to patch.
LEMMA BackAndClose ==
    ASSUME WordPre, NEW first \in Back, NEW second \in Forward, NEW op \in Branches,
           Matches(1, first), Matches(3, second),
           code' = Patch(Append(code, Ins(op, Holds(2))), Holds(4), here + 1), stack' = Below(4)
    PROVE  WordPost
  <1>1. PICK n \in Nat : n = Len(stack)
    BY WordTypes
  <1>2. n > 0 /\ stack[n] = Tag(first) /\ stack[n - 2] = Tag(second)
    BY <1>1, Tops, WordTypes DEF Matches
  <1>3. first \in Forward \cup Back /\ second \in Forward \cup Back
    OBVIOUS
  <1>4. PICK a, b : a = stack[n - 1][2] /\ a = Holds(2) /\ b = stack[n - 3][2] /\ b = Holds(4)
    BY <1>1, Tops, WordTypes
  <1>5. n >= 2 /\ a \in Nat /\ \A t : Dropped(stack, t, n - 2) => Well(t, code)
    <2>1. PairAt(stack, code, code, n, first)
      BY <1>1, <1>2, <1>3, WellPop, WordTypes
    <2> QED
      BY <1>4, <2>1, WordTypes DEF PairAt
  <1>6. n >= 3
    BY <1>1 DEF Matches
  <1>7. PICK k \in Nat : k = n - 2
    BY <1>5
  <1>8. 2 \in 0..n /\ Dropped(stack, Below(2), k)
    BY <1>1, <1>6, <1>7, Tops, WordTypes
  <1>9. Well(Below(2), code) /\ k = Len(Below(2)) /\ k > 0
    BY <1>5, <1>6, <1>7, <1>8 DEF Dropped
  <1>10. Below(2)[k] = Tag(second) /\ (k > 1 => Below(2)[k - 1] = stack[n - 3])
    BY <1>2, <1>6, <1>7, <1>8 DEF Dropped
  <1>11. PairAt(Below(2), code, code, k, second)
    BY <1>3, <1>9, <1>10, WellPop, WordTypes
  <1>12. k >= 2 /\ Below(2)[k - 1][2] \in DOMAIN code /\ IsBranch(code, Below(2)[k - 1][2])
    BY <1>11 DEF PairAt
  <1>13. b \in DOMAIN code /\ IsBranch(code, b)
    <2>1. k > 1
      BY <1>12
    <2>2. Below(2)[k - 1] = stack[n - 3]
      BY <1>10, <2>1
    <2> QED
      BY <1>4, <1>12, <2>2
  <1>14. PICK h \in Nat : h = here + 1
    BY WordTypes
  <1>15. PICK d : d = Append(code, Ins(op, a))
    OBVIOUS
  <1>16. Structured(code, d)
    <2>1. Compiled(code, d, op, a)
      BY <1>5, <1>15, StructuredAppend, WordTypes
    <2> QED
      BY <2>1 DEF Compiled
  <1>17. b \in DOMAIN d /\ IsBranch(d, b)
    BY <1>13, <1>16 DEF Structured, Kept, IsBranch
  <1>18. PICK e : e = Patch(d, b, h) /\ e = code'
    BY <1>4, <1>14, <1>15
  <1>19. Structured(code, e)
    BY <1>14, <1>16, <1>17, <1>18, StructuredPatch
  <1>20. Dropped(Below(2), Below(4), k - 2)
    <2>1. 4 \in 0..n /\ n - 4 = k - 2
      BY <1>7, <1>12
    <2>2. Dropped(stack, Below(4), n - 4)
      BY <1>1, <2>1, Tops, WordTypes
    <2> QED
      BY <1>7, <1>8, <1>12, <2>1, <2>2 DEF Dropped
  <1>21. Well(stack', e)
    BY <1>3, <1>9, <1>10, <1>19, <1>20, WellPop DEF PairAt
  <1> QED
    BY <1>18, <1>19, <1>21 DEF WordPost, Well, Structured, Kept

\* repeat
LEMMA RepeatKeeps == ASSUME WordPre, Repeat PROVE WordPost
  <1>1. "repeat" \in Branches /\ "target" \in Back /\ "origin" \in Forward
    BY DEF Branches, Forward, Back
  <1> QED
    BY <1>1, BackAndClose DEF Repeat, Plainly, Compiles

\* loop and +loop
LEMMA LoopKeeps == ASSUME WordPre, Loop PROVE WordPost
  <1>1. "loop" \in Branches /\ "do" \in Back /\ "leave" \in Forward
    BY DEF Branches, Forward, Back
  <1> QED
    BY <1>1, BackAndClose DEF Loop, Plainly, Compiles, LeaveTarget

\* case
LEMMA CaseKeeps == ASSUME WordPre, Case PROVE WordPost
  <1>1. PICK x \in Cell, y \in Cell : x = Num(0) /\ y = Tag("case")
    BY CellsPushed
  <1>2. PICK t : t = stack' /\ t = stack \o <<x, y>>
    BY <1>1 DEF Case, Plainly, Compiles
  <1>3. PushedTwo(stack, t, x, y)
    BY <1>2, PushTwo, WordTypes
  <1>4. t \in Seq(Cell) /\ stack \in Seq(Cell)
    BY <1>3, WordTypes DEF PushedTwo
  <1>5. PICK m \in Nat : Grouped(stack, code, m)
    BY DEF WordPre, Groups
  <1>6. Grouped(t, code, m)
    BY <1>1, <1>3, <1>4, <1>5, AddCase, WordTypes
  <1>7. Typed(t, code)
    BY <1>1, <1>3, CellParts, TypedPush, WordTypes DEF Well
  <1>8. code' = code
    BY DEF Case, Plainly, Compiles
  <1> QED
    BY <1>2, <1>6, <1>7, <1>8, WordTypes DEF WordPost, Groups, Structured, Kept

\* do and ?do: the branch of leave, and the place to go back to.
LEMMA DoKeeps == ASSUME WordPre, Do PROVE WordPost
  <1>1. "do" \in Branches /\ "leave" \in Forward /\ "do" \in Forward \cup Back /\ "do" \notin Forward
    BY DEF Branches, Forward, Back
  <1>2. PICK d : d = Append(code, Ins("do", Open)) /\ d = code'
    BY DEF Do, Plainly, Compiles
  <1>3. PICK t : t = stack \o markBranch(Len(code) + 1, "leave")
    OBVIOUS
  <1>4. Opens(stack, code, d, t, "leave")
    BY <1>1, <1>2, <1>3, OpenBranch, WordTypes
  <1>5. PICK a \in Nat : a = here + 1 /\ a = Len(code) + 2
    BY WordTypes
  <1>6. stack' = t \o markBranch(a, "do")
    <2>1. PICK p, q : p = markBranch(here, "leave") /\ q = markBranch(a, "do")
      OBVIOUS
    <2>2. p \in Seq(Cell) /\ q \in Seq(Cell)
      <3>1. here \in Nat
        BY WordTypes
      <3>2. Addr(here) \in Cell /\ Addr(a) \in Cell /\ Tag("leave") \in Cell /\ Tag("do") \in Cell
        BY <3>1, CellsPushed DEF Forward, Back
      <3> QED
        BY <2>1, <3>2 DEF markBranch
    <2>3. stack' = stack \o p \o q
      BY <1>5, <2>1 DEF Do, Plainly, Compiles
    <2>4. t = stack \o p
      BY <1>3, <2>1, WordTypes
    <2> QED
      BY <2>1, <2>3, <2>4
  <1>7. Well(t, d) /\ Structured(d, d) /\ a \in 1..(Len(d) + 1) /\ Structured(code, d)
    <2>1. d \in Seq(Instruction)
      BY <1>4 DEF Opens, Structured, Kept
    <2> QED
      BY <1>4, <1>5, <2>1, StructuredSame, WordTypes DEF Opens
  <1>8. Well(stack', d)
    BY <1>1, <1>6, <1>7, WellPush
  <1> QED
    BY <1>2, <1>7, <1>8 DEF WordPost, Well, Structured, Kept

\* The pair on top goes below the two cells of while.
Swapped(w, t, p) ==
    /\ t \in Seq(Cell) /\ Len(t) = p + 4 /\ \A i \in 1..p : t[i] = w[i]
    /\ t[p + 1] = w[p + 3] /\ t[p + 2] = w[p + 4] /\ t[p + 3] = w[p + 1] /\ t[p + 4] = w[p + 2]
\* 2swap, with which while and repeat reach the pair below theirs, leaves the rest as it is.
LEMMA SwapTwo ==
    ASSUME NEW p \in Nat, NEW w \in Seq(Cell), Len(w) = p + 4, NEW t, t = TwoSwap(w)
    PROVE  Swapped(w, t, p)
  <1>1. PICK a, b, e : a = SubSeq(w, 1, p) /\ b = SubSeq(w, p + 3, p + 4) /\ e = SubSeq(w, p + 1, p + 2)
    OBVIOUS
  <1>2. a \in Seq(Cell) /\ Len(a) = p /\ \A i \in 1..p : a[i] = w[i]
    BY <1>1
  <1>3. b \in Seq(Cell) /\ Len(b) = 2 /\ b[1] = w[p + 3] /\ b[2] = w[p + 4]
    BY <1>1
  <1>4. e \in Seq(Cell) /\ Len(e) = 2 /\ e[1] = w[p + 1] /\ e[2] = w[p + 2]
    BY <1>1
  <1>5. t = a \o b \o e
    <2>1. Len(w) - 4 = p /\ Len(w) - 1 = p + 3 /\ Len(w) - 3 = p + 1 /\ Len(w) - 2 = p + 2 /\ Len(w) = p + 4
      OBVIOUS
    <2> QED
      BY <1>1, <2>1 DEF TwoSwap
  <1>6. PICK f : f = a \o b
    OBVIOUS
  <1>7. f \in Seq(Cell) /\ Len(f) = p + 2 /\ \A i \in 1..p : f[i] = w[i]
    <2>1. Joined(a, b, f)
      BY <1>2, <1>3, <1>6, Join
    <2> QED
      BY <1>2, <1>3, <2>1 DEF Joined
  <1>8. f[p + 1] = w[p + 3] /\ f[p + 2] = w[p + 4]
    <2>1. \A i \in 1..2 : f[p + i] = b[i]
      <3>1. Joined(a, b, f)
        BY <1>2, <1>3, <1>6, Join
      <3> QED
        BY <1>2, <1>3, <3>1 DEF Joined
    <2> QED
      BY <1>3, <2>1
  <1>9. t = f \o e
    BY <1>5, <1>6
  <1>10. t \in Seq(Cell) /\ Len(t) = p + 4 /\ \A i \in 1..(p + 2) : t[i] = f[i]
    <2>1. Joined(f, e, t)
      BY <1>4, <1>7, <1>9, Join
    <2>2. p + 2 + 2 = p + 4
      OBVIOUS
    <2> QED
      BY <1>4, <1>7, <2>1, <2>2 DEF Joined
  <1>11. \A i \in 1..2 : t[p + 2 + i] = e[i]
    <2>1. Joined(f, e, t)
      BY <1>4, <1>7, <1>9, Join
    <2> QED
      BY <1>4, <1>7, <2>1 DEF Joined
  <1>12. t[p + 3] = e[1] /\ t[p + 4] = e[2]
    <2>1. p + 2 + 1 = p + 3 /\ p + 2 + 2 = p + 4
      OBVIOUS
    <2> QED
      BY <1>11, <2>1
  <1>13. p + 1 \in 1..(p + 2) /\ p + 2 \in 1..(p + 2) /\ \A i \in 1..p : i \in 1..(p + 2)
    OBVIOUS
  <1>14. t[p + 1] = f[p + 1] /\ t[p + 2] = f[p + 2] /\ \A i \in 1..p : t[i] = f[i]
    BY <1>10, <1>13
  <1> QED
    BY <1>3, <1>4, <1>7, <1>8, <1>10, <1>12, <1>14 DEF Swapped
\* What while leaves on the stack.
LEMMA WhileStack ==
    ASSUME stack \in Seq(Cell), NEW p \in Nat, Len(stack) = p + 2, NEW m \in Nat, NEW t,
           t = TwoSwap(stack \o markBranch(m, "origin"))
    PROVE  /\ t \in Seq(Cell) /\ Len(t) = p + 4 /\ \A i \in 1..p : t[i] = stack[i]
           /\ t[p + 1] = Addr(m) /\ t[p + 2] = Tag("origin") /\ t[p + 3] = stack[p + 1] /\ t[p + 4] = stack[p + 2]
  <1>1. PICK x \in Cell, y \in Cell : x = Addr(m) /\ y = Tag("origin")
    BY CellsPushed DEF Forward
  <1>2. PICK w : w = stack \o <<x, y>>
    OBVIOUS
  <1>3. PushedTwo(stack, w, x, y)
    BY <1>2, PushTwo
  <1>4. /\ w \in Seq(Cell) /\ Len(w) = p + 4 /\ w[p + 3] = x /\ w[p + 4] = y
        /\ \A i \in 1..(p + 2) : w[i] = stack[i]
    <2>1. p + 2 + 1 = p + 3 /\ p + 2 + 2 = p + 4
      OBVIOUS
    <2> QED
      BY <1>3, <2>1 DEF PushedTwo
  <1>5. Swapped(w, t, p)
    <2>1. t = TwoSwap(w)
      BY <1>1, <1>2 DEF markBranch
    <2> QED
      BY <1>4, <2>1, SwapTwo
  <1>6. p + 1 \in 1..(p + 2) /\ p + 2 \in 1..(p + 2) /\ \A i \in 1..p : i \in 1..(p + 2)
    OBVIOUS
  <1> QED
    BY <1>1, <1>4, <1>5, <1>6 DEF Swapped

\* while
LEMMA WhileKeeps == ASSUME WordPre, While PROVE WordPost
  <1>0. PICK n \in Nat : n = Len(stack) /\ n >= 2
    BY WordTypes DEF While
  <1>1. PICK p \in Nat : n = Len(stack) /\ n = p + 2
    BY <1>0
  <1>2. "while" \in Branches /\ "origin" \in Forward
    BY DEF Branches, Forward
  <1>3. PICK d : d = Append(code, Ins("while", Open)) /\ d = code'
    BY DEF While, Compiles
  <1>4. PICK w : w = stack \o markBranch(Len(code) + 1, "origin")
    OBVIOUS
  <1>5. Opens(stack, code, d, w, "origin")
    BY <1>2, <1>3, <1>4, OpenBranch, WordTypes
  <1>6. PICK x : x = Addr(Len(code) + 1)
    OBVIOUS
  <1>7. /\ w \in Seq(Cell) /\ Len(w) = p + 4 /\ w[p + 3] = x /\ w[p + 4] = Tag("origin")
        /\ \A i \in 1..(p + 2) : w[i] = stack[i]
    <2>1. PushedTwo(stack, w, x, Tag("origin")) /\ w \in Seq(Cell)
      BY <1>5, <1>6 DEF Opens
    <2>2. n + 1 = p + 3 /\ n + 2 = p + 4
      BY <1>1
    <2> QED
      BY <1>1, <2>1, <2>2 DEF PushedTwo
  <1>8. stack' = TwoSwap(w)
    <2>1. stack' = TwoSwap(stack \o markBranch(here, "origin"))
      BY DEF While, Compiles
    <2>2. stack \o markBranch(here, "origin") = w
      BY <1>4, WordTypes
    <2> QED
      BY <2>1, <2>2
  <1>9. PICK t : t = stack'
    OBVIOUS
  <1>10. /\ t \in Seq(Cell) /\ Len(t) = p + 4 /\ \A i \in 1..p : t[i] = stack[i]
         /\ t[p + 1] = x /\ t[p + 2] = Tag("origin") /\ t[p + 3] = stack[p + 1] /\ t[p + 4] = stack[p + 2]
    <2>1. PICK m \in Nat : m = Len(code) + 1 /\ x = Addr(m)
      BY <1>6, WordTypes
    <2>2. t = TwoSwap(stack \o markBranch(m, "origin"))
      BY <1>4, <1>8, <1>9, <2>1
    <2>3. stack \in Seq(Cell) /\ Len(stack) = p + 2
      BY <1>1, WordTypes
    <2> QED
      BY <2>1, <2>2, <2>3, WhileStack
  <1>11. PICK b \in Nat : b = Len(code) + 1
    BY WordTypes
  <1>12. x[1] = "addr" /\ x[2] = b /\ b \in DOMAIN d /\ IsBranch(d, b) /\ Structured(code, d)
    BY <1>5, <1>6, <1>11, CellParts DEF Opens
  <1>13. Groups(t, d)
    <2>1. PICK m \in Nat : Grouped(stack, code, m)
      BY DEF WordPre, Groups
    <2>2. t[p + 1][1] = "addr" /\ t[p + 1][2] \in DOMAIN d /\ IsBranch(d, t[p + 1][2])
      BY <1>10, <1>12
    <2>3. stack \in Seq(Cell) /\ Len(stack) = p + 2
      BY <1>1, WordTypes
    <2>4. t \in Seq(Cell) /\ Len(t) = p + 4 /\ \A i \in 1..p : t[i] = stack[i]
      BY <1>10
    <2>5. t[p + 2] = Tag("origin") /\ t[p + 3] = stack[p + 1] /\ t[p + 4] = stack[p + 2]
      BY <1>10
    <2>6. Structured(code, d)
      BY <1>12
    <2> QED
      BY <2>1, <2>2, <2>3, <2>4, <2>5, <2>6, SwapKeeps
  <1>14. Typed(t, d)
    <2>1. ASSUME NEW i \in DOMAIN t, t[i][1] = "addr"
          PROVE  t[i][2] \in 1..(Len(d) + 1)
      <3>1. i \in 1..p \/ i = p + 1 \/ i = p + 2 \/ i = p + 3 \/ i = p + 4
        BY <1>10
      <3>2. \A j \in 1..(p + 2) : w[j] = stack[j] /\ w[j][1] = "addr" => w[j][2] \in 1..(Len(d) + 1)
        BY <1>5, <1>7 DEF Opens, Well, Typed
      <3>3. x[2] \in 1..(Len(d) + 1)
        BY <1>5, <1>11, <1>12 DEF Opens
      <3>4. i = p + 2 => t[i][1] = "tag"
        BY <1>10, CellParts
      <3>5. \A j \in 1..(p + 2) : stack[j][1] = "addr" => stack[j][2] \in 1..(Len(d) + 1)
        BY <1>7, <3>2
      <3>6. (\A j \in 1..p : j \in 1..(p + 2)) /\ p + 1 \in 1..(p + 2) /\ p + 2 \in 1..(p + 2)
        OBVIOUS
      <3> QED
        BY <1>10, <2>1, <3>1, <3>3, <3>4, <3>5, <3>6
    <2> QED
      BY <1>10, <2>1 DEF Typed
  <1> QED
    BY <1>3, <1>9, <1>12, <1>13, <1>14 DEF WordPost, Structured, Kept

\* The number of the endofs of a case is one, even if a while has come between its cells.
LEMMA CaseNumber ==
    ASSUME NEW s \in Seq(Cell), NEW c, NEW m \in Nat, Grouped(s, c, m), NEW k \in Nat, k > 0, m <= k,
           k <= Len(s), s[k] = Tag("case")
    PROVE  /\ k > 1 /\ s[k - 1][1] = "num" /\ s[k - 1][2] \in Nat /\ s[k - 1][2] <= k - 2
           /\ m = k => Broken(s, k)
  <1>1. CASE m = k
    <2>2. Broken(s, k)
      BY <1>1 DEF Grouped
    <2>3. k > 1 /\ s[k - 1][1] = "num" /\ s[k - 1][2] <= k - 2
      BY <2>2 DEF Broken
    <2>4. s[k - 1] \in Cell
      BY <2>3
    <2> QED
      BY <2>2, <2>3, <2>4, CellIs
  <1>2. CASE m # k
    <2>1. k > 1 /\ s[k - 1][1] = "num" /\ s[k - 1][2] \in Nat /\ k - 2 - s[k - 1][2] >= m
      BY <1>2, CaseAt DEF CaseBelow
    <2>2. PICK v \in Nat : v = s[k - 1][2]
      BY <2>1
    <2> QED
      BY <1>2, <2>1, <2>2
  <1> QED
    BY <1>1, <1>2

\* T is the first P cells of the stack, an address, a number and the tag of a case.
CaseOn(t, p, a, v) ==
    /\ t \in Seq(Cell) /\ Len(t) = p + 3 /\ \A i \in 1..p : t[i] = stack[i]
    /\ t[p + 1] = Addr(a) /\ t[p + 2] = Num(v) /\ t[p + 3] = Tag("case")
\* The cells that endof leaves.
LEMMA EndofStack ==
    ASSUME NEW p \in Nat, Dropped(stack, Below(4), p), NEW a \in Nat, NEW v \in Nat,
           NEW t, t = Below(4) \o <<Addr(a), Num(v), Tag("case")>>
    PROVE  CaseOn(t, p, a, v)
  <1>1. PICK x \in Cell, y \in Cell, z \in Cell : x = Addr(a) /\ y = Num(v) /\ z = Tag("case")
    BY CellsPushed
  <1>2. PICK o : o = <<x, y, z>>
    OBVIOUS
  <1>3. o \in Seq(Cell) /\ Len(o) = 3 /\ o[1] = x /\ o[2] = y /\ o[3] = z
    BY <1>2
  <1>4. t = Below(4) \o o
    BY <1>1, <1>2
  <1>5. Below(4) \in Seq(Cell) /\ Len(Below(4)) = p /\ \A i \in 1..p : Below(4)[i] = stack[i]
    BY DEF Dropped
  <1>6. Joined(Below(4), o, t)
    BY <1>3, <1>4, <1>5, Join
  <1>7. t \in Seq(Cell) /\ Len(t) = p + 3 /\ \A i \in 1..p : t[i] = stack[i]
    BY <1>3, <1>5, <1>6 DEF Joined
  <1>8. \A i \in 1..3 : t[p + i] = o[i]
    BY <1>3, <1>5, <1>6 DEF Joined
  <1> QED
    BY <1>1, <1>3, <1>7, <1>8 DEF CaseOn

\* endof
LEMMA EndofWordKeeps == ASSUME WordPre, Endof PROVE WordPost
  <1>0. PICK n \in Nat : n = Len(stack) /\ n >= 4
    BY WordTypes DEF Endof
  <1>1. PICK p \in Nat : n = p + 4
    BY <1>0
  <1>2. "endof" \in Branches /\ "of" \in Forward
    BY DEF Branches, Forward
  <1>3. PICK e : e = Patch(Append(code, Ins("endof", Open)), Holds(2), here + 1) /\ e = code'
    BY DEF Endof, Plainly, Compiles
  <1>4. Closes(e, n, "of") /\ stack[n] = Tag("of")
    BY <1>0, <1>2, <1>3, CloseCode DEF Endof
  <1>5. stack[p + 2] = Tag("case") /\ Holds(4) = stack[p + 1][2] /\ Dropped(stack, Below(4), p)
    <2>1. n - 2 = p + 2 /\ n - 3 = p + 1 /\ n - 4 = p /\ 4 \in 0..n
      BY <1>1
    <2> QED
      BY <1>0, <2>1, Tops, WordTypes DEF Endof, Matches
  <1>6. PICK m \in Nat : Grouped(stack, code, m)
    BY DEF WordPre, Groups
  <1>7. PICK v \in Nat : v = stack[p + 1][2]
    <2>1. PICK k \in Nat : k = p + 2 /\ k - 1 = p + 1
      OBVIOUS
    <2>2. m <= k
      <3>1. "of" \in Forward \cup Back /\ Len(stack) > 0 /\ stack[Len(stack)] = Tag("of")
        BY <1>0, <1>2, <1>4
      <3>2. Len(stack) - 2 >= m
        BY <1>6, <3>1, PairOnTop, WordTypes
      <3> QED
        BY <1>0, <1>1, <2>1, <3>2
    <2>3. stack[k - 1][2] \in Nat
      <3>1. k > 0 /\ k <= Len(stack) /\ stack[k] = Tag("case") /\ stack \in Seq(Cell)
        BY <1>0, <1>1, <1>5, <2>1, WordTypes
      <3> QED
        BY <1>6, <2>2, <3>1, CaseNumber
    <2> QED
      BY <2>1, <2>3
  <1>8. PICK b \in Nat : b = here /\ b = Len(code) + 1
    BY WordTypes
  <1>9. PICK t : t = stack'
    OBVIOUS
  <1>10. /\ t \in Seq(Cell) /\ Len(t) = p + 3 /\ \A i \in 1..p : t[i] = stack[i]
         /\ t[p + 1] = Addr(b) /\ t[p + 2] = Num(v + 1) /\ t[p + 3] = Tag("case")
    <2>1. PICK w \in Nat : w = v + 1
      OBVIOUS
    <2>2. t = Below(4) \o <<Addr(b), Num(w), Tag("case")>>
      BY <1>5, <1>7, <1>8, <1>9, <2>1 DEF Endof, Plainly, Compiles
    <2>3. CaseOn(t, p, b, w)
      BY <1>5, <2>2, EndofStack
    <2> QED
      BY <2>1, <2>3 DEF CaseOn
  <1>11. Structured(code, e) /\ b \in DOMAIN e /\ IsBranch(e, b) /\ b \in 1..(Len(e) + 1) /\ Len(code) <= Len(e)
    BY <1>4, <1>8 DEF Closes, Structured, Kept
  <1>12. Groups(t, e)
    <2>1. t[p + 1][1] = "addr" /\ t[p + 1][2] = b
      BY <1>10, CellParts
    <2>2. t[p + 2] = Num(stack[p + 1][2] + 1) /\ stack[p + 4] = Tag("of") /\ Len(stack) = p + 4
      BY <1>0, <1>1, <1>4, <1>7, <1>10
    <2> QED
      BY <1>5, <1>6, <1>10, <1>11, <2>1, <2>2, EndofKeeps, WordTypes
  <1>13. Typed(t, e)
    <2>1. ASSUME NEW i \in DOMAIN t, t[i][1] = "addr"
          PROVE  t[i][2] \in 1..(Len(e) + 1)
      <3>1. i \in 1..p \/ i = p + 1 \/ i = p + 2 \/ i = p + 3
        BY <1>10
      <3>2. CASE i \in 1..p
        <4>0. DOMAIN stack = 1..(p + 4)
          <5>1. stack \in Seq(Cell) /\ Len(stack) = p + 4
            BY <1>0, <1>1, WordTypes
          <5> QED
            BY <5>1
        <4>1. i \in DOMAIN stack /\ t[i] = stack[i]
          BY <1>10, <3>2, <4>0
        <4>2. stack[i][2] \in 1..(Len(code) + 1)
          BY <2>1, <4>1, WordTypes DEF Well, Typed
        <4> QED
          BY <1>11, <4>1, <4>2, WordTypes DEF Structured, Kept
      <3> QED
        BY <1>10, <1>11, <2>1, <3>1, <3>2, CellParts
    <2> QED
      BY <1>10, <2>1 DEF Typed
  <1> QED
    BY <1>3, <1>9, <1>11, <1>12, <1>13 DEF WordPost, Structured, Kept

\* S is the V cells of B above cell W.
LastOf(s, b, w, v) == s \in Seq(Cell) /\ Len(s) = v /\ \A i \in 1..v : s[i] = b[w + i]
\* The last V cells of some.
LEMMA LastCells ==
    ASSUME NEW b \in Seq(Cell), NEW w \in Nat, NEW v \in Nat, Len(b) = w + v, NEW s, s = SubSeq(b, w + 1, w + v)
    PROVE  LastOf(s, b, w, v)
  <1>1. PICK x \in Nat, y \in Nat : x = w + 1 /\ y = w + v
    OBVIOUS
  <1>2. s = SubSeq(b, x, y)
    BY <1>1
  <1>3. Len(s) = v
    BY <1>1, <1>2
  <1>4. \A i \in 1..v : s[i] = b[x + i - 1]
    BY <1>1, <1>2
  <1>5. \A i \in 1..v : x + i - 1 = w + i /\ w + i \in 1..Len(b)
    BY <1>1
  <1>6. ASSUME NEW i \in 1..v PROVE s[i] = b[w + i]
    <2>1. s[i] = b[x + i - 1]
      BY <1>4
    <2>2. x + i - 1 = w + i
      BY <1>5
    <2> QED
      BY <2>1, <2>2
  <1>7. s \in Seq(Cell)
    BY <1>1, <1>2
  <1> QED
    BY <1>3, <1>6, <1>7 DEF LastOf

\* The cells W + 1 to W + V are those from K - 1 - V to K - 2.
Spans(k, v, l, w) ==
    /\ \A i \in 1..v : w + i \in 1..l /\ w + i >= k - 1 - v /\ w + i <= k - 2
    /\ \A j \in Nat : j >= k - 1 - v /\ j <= k - 2 => j \in 1..l /\ \E i \in 1..v : j = w + i
\* Where the V addresses below the number of a case at K are.
LEMMA BelowNumber ==
    ASSUME NEW k \in Nat, NEW v \in Nat, NEW l \in Nat, l = k - 2, NEW w \in Nat, w = l - v
    PROVE  Spans(k, v, l, w)
  <1>1. ASSUME NEW j \in Nat, j >= k - 1 - v, j <= k - 2
        PROVE  j \in 1..l /\ \E i \in 1..v : j = w + i
    <2>1. j - w \in 1..v /\ j = w + (j - w)
      BY <1>1
    <2> QED
      BY <1>1, <2>1
  <1> QED
    BY <1>1 DEF Spans

\* E is the V cells below the number of a case at K, and the address of a fallthrough.
TakenFrom(e, n, k, v) ==
    /\ \A i \in DOMAIN e : \E j \in 1..n :
          e[i] = stack[j] /\ ((j >= k - 1 - v /\ j <= k - 2) \/ (Fell = 2 /\ j = n - 1))
    /\ \A j \in 1..n : j >= k - 1 - v /\ j <= k - 2 => \E i \in DOMAIN e : e[i] = stack[j]
    /\ Fell = 2 => \E i \in DOMAIN e : e[i] = stack[n - 1]

\* What endcase takes as addresses when its case ends at cell K and has V addresses below.
LEMMA EndcaseTaken ==
    ASSUME stack \in Seq(Cell), NEW n \in Nat, n = Len(stack), NEW k \in Nat, k = n - Fell, k >= 2,
           Fell = 0 \/ n >= 2, NEW v \in Nat, v <= k - 2, Holds(Fell + 2) = v,
           NEW e, e = EndcaseTakes
    PROVE  TakenFrom(e, n, k, v)
  <1>1. Fell \in {0, 2}
    BY DEF Fell
  <1>2. PICK l \in Nat : l = k - 2 /\ Dropped(stack, Below(Fell + 2), l)
    <2>1. Fell + 2 \in 0..n /\ n - (Fell + 2) = k - 2 /\ k - 2 \in Nat
      BY <1>1
    <2> QED
      BY <2>1, Tops
  <1>3. PICK b : b = Below(Fell + 2)
    OBVIOUS
  <1>4. b \in Seq(Cell) /\ Len(b) = l /\ \A j \in 1..l : b[j] = stack[j]
    BY <1>2, <1>3 DEF Dropped
  <1>5. PICK w \in Nat : w = l - v
    BY <1>2
  <1>6. PICK s1 : s1 = SubSeq(b, w + 1, w + v)
    OBVIOUS
  <1>7. s1 \in Seq(Cell) /\ Len(s1) = v /\ \A i \in 1..v : s1[i] = b[w + i]
    <2>1. Len(b) = w + v
      BY <1>2, <1>4, <1>5
    <2>2. LastOf(s1, b, w, v)
      BY <1>4, <1>6, <2>1, LastCells
    <2> QED
      BY <2>2 DEF LastOf
  <1>8. PICK s2 : s2 = IF Fell = 0 THEN <<>> ELSE <<FromTop(2)>>
    OBVIOUS
  <1>9. s2 \in Seq(Cell) /\ (Fell = 0 => Len(s2) = 0) /\ (Fell = 2 => Len(s2) = 1 /\ s2[1] = stack[n - 1] /\ n >= 2)
    <2>1. CASE Fell = 0
      BY <1>8, <2>1
    <2>2. CASE Fell = 2
      <3>1. FromTop(2) = stack[n - 1] /\ n - 1 \in 1..n /\ stack[n - 1] \in Cell
        <4>1. n - 1 \in 1..n
          BY <2>2
        <4> QED
          BY <4>1, Tops
      <3>2. s2 = <<stack[n - 1]>>
        BY <1>8, <2>2, <3>1
      <3> QED
        BY <2>2, <3>1, <3>2
    <2> QED
      BY <1>1, <2>1, <2>2
  <1>10. e = s1 \o s2
    <2>1. Len(b) + 1 - v = w + 1 /\ Len(b) = w + v
      BY <1>2, <1>4, <1>5
    <2>2. EndcaseTakes = SubSeq(b, Len(b) + 1 - v, Len(b)) \o s2
      BY <1>3, <1>8 DEF EndcaseTakes
    <2> QED
      BY <1>6, <2>1, <2>2
  <1>11. Joined(s1, s2, e)
    BY <1>7, <1>9, <1>10, Join
  <1>12. /\ e \in Seq(Cell) /\ Len(e) = v + Len(s2) /\ \A i \in 1..v : e[i] = b[w + i]
         /\ \A i \in 1..Len(s2) : e[v + i] = s2[i]
    BY <1>7, <1>11 DEF Joined
  <1>13. Spans(k, v, l, w)
    BY <1>2, <1>5, BelowNumber
  <1>14. ASSUME NEW i \in DOMAIN e
         PROVE  \E j \in 1..n : e[i] = stack[j] /\ ((j >= k - 1 - v /\ j <= k - 2) \/ (Fell = 2 /\ j = n - 1))
    <2>1. i \in 1..(v + Len(s2))
      BY <1>12
    <2>2. CASE i \in 1..v
      <3>1. PICK j \in 1..l : j = w + i /\ j >= k - 1 - v /\ j <= k - 2
        BY <1>13, <2>2 DEF Spans
      <3>2. e[i] = stack[j]
        BY <1>4, <1>12, <2>2, <3>1
      <3>3. j >= k - 1 - v /\ j <= k - 2
        BY <3>1
      <3>4. k <= n
        BY <1>1
      <3>5. j \in 1..n
        BY <1>2, <3>3, <3>4
      <3> QED
        BY <3>2, <3>3, <3>5
    <2>3. CASE i \notin 1..v
      <3>1. Fell = 2 /\ i = v + 1
        <4>1. PICK y \in Nat : y = Len(s2)
          BY <1>9
        <4>2. (Fell = 0 => y = 0) /\ (Fell = 2 => y = 1)
          BY <1>9, <4>1
        <4>3. i \in 1..(v + y)
          BY <2>1, <4>1
        <4> QED
          BY <1>1, <2>3, <4>2, <4>3
      <3>2. e[i] = stack[n - 1] /\ n - 1 \in 1..n
        BY <1>9, <1>12, <3>1
      <3> QED
        BY <3>1, <3>2
    <2> QED
      BY <2>2, <2>3
  <1>15. ASSUME NEW j \in 1..n, j >= k - 1 - v, j <= k - 2
         PROVE  \E i \in DOMAIN e : e[i] = stack[j]
    <2>1. PICK i \in 1..v : j = w + i
      BY <1>15, <1>13 DEF Spans
    <2>2. i \in DOMAIN e /\ e[i] = stack[j]
      <3>1. j \in 1..l
        BY <1>2, <1>15
      <3>2. Len(s2) \in Nat
        BY <1>9
      <3> QED
        BY <1>4, <1>12, <2>1, <3>1, <3>2
    <2> QED
      BY <2>2
  <1>16. ASSUME Fell = 2
         PROVE  \E i \in DOMAIN e : e[i] = stack[n - 1]
    <2>1. Len(s2) = 1 /\ s2[1] = stack[n - 1]
      BY <1>9, <1>16
    <2>2. 1 \in 1..Len(s2) /\ v + 1 \in 1..(v + 1)
      BY <2>1
    <2>3. e[v + 1] = stack[n - 1] /\ v + 1 \in DOMAIN e
      BY <1>12, <2>1, <2>2
    <2> QED
      BY <2>3
  <1> QED
    BY <1>14, <1>15, <1>16 DEF TakenFrom

\* endcase
LEMMA EndcaseKeeps == ASSUME WordPre, Endcase PROVE WordPost
  <1>0. PICK n \in Nat : n = Len(stack) /\ stack \in Seq(Cell) /\ DOMAIN stack = 1..n
    <2>1. stack \in Seq(Cell)
      BY WordTypes
    <2> QED
      BY <2>1
  <1>1. Fell \in {0, 2} /\ (Fell = 2 => n >= 1 /\ stack[n] = Tag("fallthrough"))
    BY <1>0, Tops DEF Fell, Matches
  <1>2. PICK m \in Nat : Grouped(stack, code, m)
    BY DEF WordPre, Groups
  <1>3. PICK k \in Nat : k = n - Fell /\ k > 0 /\ m <= k /\ k <= n /\ stack[k] = Tag("case")
    <2>1. Len(stack) >= Fell + 1 /\ FromTop(Fell + 1) = Tag("case")
      BY DEF Endcase, Matches
    <2>2. n + 1 - (Fell + 1) = n - Fell /\ n - Fell \in Nat /\ n - Fell > 0
      BY <1>0, <1>1, <2>1
    <2>3. stack[n - Fell] = Tag("case")
      BY <1>0, <2>1, <2>2 DEF FromTop
    <2>4. m <= n - Fell
      <3>1. CASE Fell = 0
        BY <1>0, <1>2, <3>1 DEF Grouped
      <3>2. CASE Fell = 2
        <4>1. "fallthrough" \in Forward \cup Back
          BY DEF Forward
        <4>2. n > 0 /\ Len(stack) > 0 /\ stack[Len(stack)] = Tag("fallthrough")
          BY <1>0, <1>1, <3>2
        <4>3. Len(stack) - 2 >= m
          BY <1>0, <1>2, <4>1, <4>2, PairOnTop
        <4> QED
          BY <1>0, <3>2, <4>3
      <3> QED
        BY <1>1, <3>1, <3>2
    <2> QED
      BY <1>1, <2>2, <2>3, <2>4
  <1>4. /\ k > 1 /\ stack[k - 1][1] = "num" /\ stack[k - 1][2] \in Nat /\ stack[k - 1][2] <= k - 2
        /\ m = k => Broken(stack, k)
    BY <1>0, <1>2, <1>3, CaseNumber
  <1>5. PICK v \in Nat : v = stack[k - 1][2] /\ v <= k - 2
    BY <1>4
  <1>6. Holds(Fell + 2) = v
    <2>1. n + 1 - (Fell + 2) = k - 1
      BY <1>1, <1>3
    <2> QED
      BY <1>0, <1>5, <2>1 DEF Holds, FromTop
  <1>7. PICK e : e = EndcaseTakes
    OBVIOUS
  <1>8. TakenFrom(e, n, k, v)
    <2>1. k >= 2 /\ (Fell = 0 \/ n >= 2)
      BY <1>1, <1>3, <1>4
    <2> QED
      BY <1>0, <1>3, <1>5, <1>6, <1>7, <2>1, EndcaseTaken
  <1>9. PICK taken : taken = {EndcaseTakes[i][2] : i \in EndcaseAddresses}
    OBVIOUS
  <1>10. PICK c : c = Append(code, Ins("drop", 0))
    OBVIOUS
  <1>11. Structured(code, c) /\ c \in Seq(Instruction) /\ Len(c) = Len(code) + 1 /\ Len(c) \in Nat
    <2>1. Compiled(code, c, "drop", 0)
      BY <1>10, StructuredAppend, WordTypes
    <2> QED
      BY <2>1, WordTypes DEF Compiled, Structured, Kept
  <1>12. PICK d : d = [a \in DOMAIN c |-> IF a \in taken THEN Ins(c[a].op, Len(c) + 1) ELSE c[a]]
    OBVIOUS
  <1>13. d = code'
    BY <1>9, <1>10, <1>12 DEF Endcase, Compiles
  <1>14. /\ d \in Seq(Instruction) /\ Len(d) = Len(c) /\ DOMAIN d = DOMAIN c
         /\ \A a \in DOMAIN c : d[a].op = c[a].op /\ (a \notin taken => d[a] = c[a])
    <2>1. \A a \in DOMAIN c : c[a] \in Instruction
      BY <1>11
    <2>2. \A a \in DOMAIN c : Ins(c[a].op, Len(c) + 1) \in Instruction /\ Ins(c[a].op, Len(c) + 1).op = c[a].op
      BY <1>11, <2>1 DEF Ins, Instruction
    <2>3. DOMAIN d = DOMAIN c /\ \A a \in DOMAIN c : d[a] \in Instruction
      BY <1>12, <2>1, <2>2
    <2>4. \A a \in DOMAIN c : d[a].op = c[a].op /\ (a \notin taken => d[a] = c[a])
      BY <1>12, <2>1, <2>2
    <2>5. DOMAIN c = 1..Len(c)
      BY <1>11
    <2>6. d = [a \in 1..Len(c) |-> d[a]]
      BY <1>12, <2>5
    <2>7. d \in Seq(Instruction) /\ Len(d) = Len(c)
      BY <1>11, <2>3, <2>5, <2>6
    <2> QED
      BY <2>3, <2>4, <2>7
  <1>15. PICK q \in Nat : q = k - 2 - v /\ Dropped(stack, stack', q)
    <2>1. k - 2 - v \in Nat
      BY <1>5
    <2>2. PICK z \in 0..n : z = Fell + 2 + v /\ n - z = k - 2 - v
      BY <1>1, <1>3, <1>5
    <2>3. stack' = Below(z)
      BY <1>6, <2>2 DEF Endcase, Compiles
    <2> QED
      BY <1>0, <2>1, <2>2, <2>3, Tops
  <1>16. Typed(stack', d)
    <2>1. PICK t : t = stack'
      OBVIOUS
    <2>2. Typed(t, c)
      BY <1>11, <1>15, <2>1, TypedPop, WordTypes DEF Well
    <2> QED
      BY <1>14, <2>1, <2>2 DEF Typed
  <1>17. ASSUME ~wild'
         PROVE  Structured(code, d) /\ Groups(stack', d)
    <2>1. \A i \in DOMAIN e : e[i][1] = "addr"
      BY <1>7, <1>17 DEF Endcase
    <2>2. m # k
      <3> SUFFICES ASSUME m = k PROVE FALSE
        OBVIOUS
      <3>1. \E j \in 1..(k - 2) : j >= k - 1 - v /\ stack[j][1] = "tag"
        BY <1>4, <1>5 DEF Broken
      <3>2. PICK j \in 1..n : j >= k - 1 - v /\ j <= k - 2 /\ stack[j][1] = "tag"
        BY <1>3, <3>1
      <3> QED
        BY <1>8, <2>1, <3>2 DEF TakenFrom
    <2>3. /\ q >= m /\ Ends(stack, q)
          /\ \A j \in 1..(k - 2) : j >= k - 1 - v => stack[j][2] \in DOMAIN code /\ IsBranch(code, stack[j][2])
      <3>1. k > m /\ k <= Len(stack)
        BY <1>0, <1>3, <2>2
      <3>2. CaseBelow(stack, code, m, k)
        BY <1>0, <1>2, <1>3, <3>1, CaseAt
      <3> QED
        BY <1>5, <1>15, <3>2 DEF CaseBelow
    <2>4. Fell = 2 => stack[n - 1][2] \in DOMAIN code /\ IsBranch(code, stack[n - 1][2])
      <3>1. "fallthrough" \in Forward \cup Back /\ "fallthrough" \in Forward
        BY DEF Forward
      <3> QED
        BY <1>0, <1>1, <1>2, <3>1, PairOnTop
    <2>5. ASSUME NEW a \in taken
          PROVE  a \in DOMAIN code /\ IsBranch(code, a)
      <3>1. PICK i \in DOMAIN e : a = e[i][2]
        BY <1>7, <1>9 DEF EndcaseAddresses
      <3>2. PICK j \in 1..n : e[i] = stack[j] /\ ((j >= k - 1 - v /\ j <= k - 2) \/ (Fell = 2 /\ j = n - 1))
        BY <1>8 DEF TakenFrom
      <3>3. j >= k - 1 - v /\ j <= k - 2 => j \in 1..(k - 2)
        OBVIOUS
      <3> QED
        BY <2>3, <2>4, <3>1, <3>2, <3>3
    <2>6. Structured(code, d)
      <3>1. \A i \in DOMAIN code : i \in DOMAIN c /\ d[i].op = code[i].op
        BY <1>11, <1>14 DEF Structured, Kept
      <3>2. \A i \in DOMAIN code : IsBranch(code, i) \/ d[i] = code[i]
        BY <1>11, <1>14, <2>5 DEF Structured, Kept
      <3>3. \A i \in DOMAIN d : i \in DOMAIN code \/ d[i].op \in Branches \cup {"drop"}
        BY <1>11, <1>14 DEF Structured, Kept
      <3> QED
        BY <1>11, <1>14, <3>1, <3>2, <3>3, WordTypes DEF Structured, Kept
    <2>7. PICK t : t = stack'
      OBVIOUS
    <2>8. Grouped(t, d, m)
      BY <1>0, <1>2, <1>15, <2>3, <2>6, <2>7, PopKeeps
    <2> QED
      BY <2>6, <2>7, <2>8 DEF Groups
  <1>18. Len(code) <= Len(d)
    BY <1>11, <1>14, WordTypes
  <1> QED
    BY <1>13, <1>14, <1>16, <1>17, <1>18 DEF WordPost

-----------------------------------------------------------------------------
(* Frames of locals. *)

OpenLinks(c, i) == {j \in Places(c, i, "link") : ~\E k \in Places(c, i, "does") : j < k}
LinkIn(c, i) == LinkAt(c, i) = 0 \/ (LinkAt(c, i) \in DOMAIN c /\ c[LinkAt(c, i)].op = "link")
FrameRight(c, i) ==
    /\ c[i].op \in {"exit", "does", "semi"} => (i > 1 /\ c[i - 1].op = "unlink" <=> LinkAt(c, i) # 0)
    /\ c[i].op \in {"tolocal", "getlocal"} => LinkAt(c, i) # 0 /\ c[i].to < c[LinkAt(c, i)].to
Frames(c) == \A i \in DOMAIN c : FrameRight(c, i) /\ LinkIn(c, i)

\* A definition that begins with no locals left over: HOW it began, how many locals it has, the
\* place of the (link) that holds their number, and the locals dictionary.
Framed(c, how, count, fixup, ls) ==
    /\ Frames(c)
    /\ how # "noname" => c # <<>> /\ c[1].op = "link"
    /\ c # <<>> => c[Len(c)].op # "unlink"
    /\ count = 0 => ls = <<>> /\ LinkAt(c, Len(c) + 1) = 0
    /\ count # 0 => /\ fixup \in DOMAIN c /\ LinkAt(c, Len(c) + 1) = fixup
                    /\ c[fixup] = Ins("link", count)
                    /\ \A i \in DOMAIN ls : ls[i].index < count

Newest(o) == IF o = {} THEN 0 ELSE CHOOSE x \in o : \A k \in o : k <= x

\* The frame at an instruction depends on the links and does> before it.
LEMMA LinkIs ==
    ASSUME NEW c, NEW i
    PROVE  LinkAt(c, i) = Newest(OpenLinks(c, i))
  BY DEF LinkAt, OpenLinks, Newest
\* The same links and does> before two instructions: the same frame.
LEMMA LinkSame ==
    ASSUME NEW c, NEW d, NEW i, NEW j, OpenLinks(c, i) = OpenLinks(d, j)
    PROVE  LinkAt(c, i) = LinkAt(d, j)
  BY LinkIs
\* No link since the last does>: no frame.
LEMMA LinkNone ==
    ASSUME NEW c, NEW i, OpenLinks(c, i) = {}
    PROVE  LinkAt(c, i) = 0
  BY DEF LinkAt, OpenLinks
\* The frame is the one linked last.
LEMMA LinkNewest ==
    ASSUME NEW c, NEW i \in Nat, NEW l \in OpenLinks(c, i), \A j \in OpenLinks(c, i) : j <= l
    PROVE  LinkAt(c, i) = l
  <1>1. PICK o : o = OpenLinks(c, i)
    OBVIOUS
  <1>2. o \subseteq Nat
    BY <1>1 DEF OpenLinks, Places
  <1>3. LinkAt(c, i) = CHOOSE j \in o : \A k \in o : k <= j
    BY <1>1 DEF LinkAt, OpenLinks
  <1>4. \A j \in o : (\A k \in o : k <= j) => j = l
    BY <1>1, <1>2
  <1> QED
    BY <1>1, <1>3, <1>4

\* Code whose instructions stay has the same frames at them, and at the instruction after them.
LEMMA LinkKept ==
    ASSUME NEW c, NEW d, Kept(c, d), NEW i \in 1..(Len(c) + 1)
    PROVE  LinkAt(d, i) = LinkAt(c, i)
  <1>1. \A j \in 1..(i - 1) : d[j].op = c[j].op
    BY DEF Kept
  <1>2. Places(d, i, "link") = Places(c, i, "link") /\ Places(d, i, "does") = Places(c, i, "does")
    BY <1>1 DEF Places
  <1>3. OpenLinks(d, i) = OpenLinks(c, i)
    BY <1>2 DEF OpenLinks
  <1> QED
    BY <1>3, LinkSame

\* Frames stay right when operands of branches change, and when a (link) gets to hold more locals.
LEMMA FramesKept ==
    ASSUME NEW c, NEW d, Kept(c, d), Frames(c), NEW i \in DOMAIN c,
           \A j \in DOMAIN c : /\ c[j].op \in {"tolocal", "getlocal"} => d[j].to = c[j].to
                               /\ c[j].op = "link" => d[j].to >= c[j].to
    PROVE  FrameRight(d, i) /\ LinkIn(d, i)
  <1>1. i \in 1..(Len(c) + 1) /\ i \in Nat /\ \A j \in DOMAIN c : j \in DOMAIN d /\ d[j].op = c[j].op
    BY DEF Kept
  <1>2. PICK l : l = LinkAt(c, i) /\ l = LinkAt(d, i)
    BY <1>1, LinkKept
  <1>3. l = 0 \/ (l \in DOMAIN c /\ c[l].op = "link")
    BY <1>2 DEF Frames, LinkIn
  <1>4. \A j \in DOMAIN c : c[j].to \in Nat /\ d[j].to \in Nat
    <2>1. \A j \in DOMAIN c : c[j] \in Instruction /\ d[j] \in Instruction
      BY <1>1 DEF Kept
    <2> QED
      BY <2>1 DEF Instruction
  <1>5. d[i].op \in {"exit", "does", "semi"} => (i > 1 /\ d[i - 1].op = "unlink" <=> l # 0)
    <2>1. i > 1 => i - 1 \in DOMAIN c
      BY <1>1 DEF Kept
    <2>2. i > 1 => d[i - 1].op = c[i - 1].op
      BY <1>1, <2>1
    <2> QED
      BY <1>1, <1>2, <2>2 DEF Frames, FrameRight
  <1>6. d[i].op \in {"tolocal", "getlocal"} => l # 0 /\ d[i].to < d[l].to
    <2> SUFFICES ASSUME d[i].op \in {"tolocal", "getlocal"} PROVE l # 0 /\ d[i].to < d[l].to
      OBVIOUS
    <2>1. l # 0 /\ c[i].to < c[l].to /\ d[i].to = c[i].to
      BY <1>1, <1>2 DEF Frames, FrameRight
    <2>2. d[l].to >= c[l].to /\ l \in DOMAIN c
      BY <1>3, <2>1
    <2> QED
      BY <1>4, <2>1, <2>2
  <1>7. LinkIn(d, i)
    BY <1>1, <1>2, <1>3 DEF LinkIn
  <1> QED
    BY <1>2, <1>5, <1>6, <1>7 DEF FrameRight

\* What may be compiled after C as its frame is: an instruction that uses a local in a frame only,
\* one that ends the frame after an (unlink) only.
MayFollow(c, e) ==
    /\ e.op \in {"exit", "does", "semi"} => (c # <<>> /\ c[Len(c)].op = "unlink" <=> LinkAt(c, Len(c) + 1) # 0)
    /\ e.op \in {"tolocal", "getlocal"} => LinkAt(c, Len(c) + 1) # 0 /\ e.to < c[LinkAt(c, Len(c) + 1)].to
\* D is C and the instruction E.
Extended(c, d, e) ==
    /\ d \in Seq(Instruction) /\ Len(d) = Len(c) + 1 /\ d[Len(d)] = e /\ \A i \in DOMAIN c : d[i] = c[i]
    /\ Frames(d) /\ Kept(c, d) /\ LinkIn(d, Len(d) + 1)
    /\ e.op = "link" => LinkAt(d, Len(d) + 1) = Len(d)
    /\ e.op = "does" => LinkAt(d, Len(d) + 1) = 0
    /\ e.op \notin {"link", "does"} => LinkAt(d, Len(d) + 1) = LinkAt(c, Len(c) + 1)

\* An instruction compiled at the end.
LEMMA FramesAppend ==
    ASSUME NEW c \in Seq(Instruction), NEW e \in Instruction, NEW d, d = Append(c, e), Frames(c),
           LinkIn(c, Len(c) + 1), MayFollow(c, e)
    PROVE  Extended(c, d, e)
  <1>1. PICK n \in Nat, m \in Nat : n = Len(c) /\ m = n + 1
    OBVIOUS
  <1>2. /\ d \in Seq(Instruction) /\ Len(d) = m /\ d[m] = e /\ DOMAIN c = 1..n /\ DOMAIN d = 1..m
        /\ \A i \in 1..n : d[i] = c[i]
    BY <1>1
  <1>3. Kept(c, d)
    BY <1>1, <1>2 DEF Kept
  <1>4. PICK l : l = LinkAt(c, m) /\ l = LinkAt(d, m)
    BY <1>1, <1>3, LinkKept
  <1>5. l = 0 \/ (l \in DOMAIN c /\ c[l].op = "link" /\ l \in DOMAIN d /\ d[l] = c[l] /\ d[l].op = "link")
    BY <1>1, <1>2, <1>4 DEF LinkIn
  <1>6. FrameRight(d, m) /\ LinkIn(d, m)
    <2>1. e.op \in {"exit", "does", "semi"} => (m > 1 /\ d[m - 1].op = "unlink" <=> l # 0)
      <3>1. (c # <<>>) = (m > 1) /\ m - 1 = n
        BY <1>1
      <3>2. m > 1 => d[m - 1] = c[n]
        BY <1>1, <1>2
      <3> QED
        BY <1>1, <1>4, <3>1, <3>2 DEF MayFollow
    <2>2. e.op \in {"tolocal", "getlocal"} => l # 0 /\ e.to < d[l].to
      BY <1>1, <1>4, <1>5 DEF MayFollow
    <2> QED
      BY <1>2, <1>4, <1>5, <2>1, <2>2 DEF FrameRight, LinkIn
  <1>7. Frames(d)
    <2>1. ASSUME NEW i \in DOMAIN d
          PROVE  FrameRight(d, i) /\ LinkIn(d, i)
      <3>1. CASE i = m
        BY <1>6, <3>1
      <3>2. CASE i # m
        <4>1. i \in DOMAIN c
          BY <1>1, <1>2, <3>2
        <4>2. \A j \in DOMAIN c : d[j].to = c[j].to /\ d[j].to >= c[j].to
          <5>1. \A j \in DOMAIN c : c[j] \in Instruction /\ d[j] = c[j]
            BY <1>2
          <5> QED
            BY <5>1 DEF Instruction
        <4> QED
          BY <1>3, <4>1, <4>2, FramesKept
      <3> QED
        BY <3>1, <3>2
    <2> QED
      BY <2>1 DEF Frames
  <1>8. /\ \A j : j \in Places(d, m + 1, "link") <=> j \in Places(d, m, "link") \/ (j = m /\ e.op = "link")
        /\ \A j : j \in Places(d, m + 1, "does") <=> j \in Places(d, m, "does") \/ (j = m /\ e.op = "does")
        /\ \A op : \A j \in Places(d, m, op) : j \in Nat /\ j < m
    <2>1. \A j : j \in 1..(m + 1 - 1) <=> j \in 1..(m - 1) \/ j = m
      BY <1>1
    <2> QED
      BY <1>2, <2>1 DEF Places
  <1>9. e.op = "link" => LinkAt(d, m + 1) = m
    <2> SUFFICES ASSUME e.op = "link" PROVE LinkAt(d, m + 1) = m
      OBVIOUS
    <2>1. m \in OpenLinks(d, m + 1) /\ \A j \in OpenLinks(d, m + 1) : j <= m
      BY <1>8 DEF OpenLinks
    <2>2. m + 1 \in Nat
      OBVIOUS
    <2> QED
      BY <2>1, <2>2, LinkNewest
  <1>10. e.op = "does" => LinkAt(d, m + 1) = 0
    <2> SUFFICES ASSUME e.op = "does" PROVE LinkAt(d, m + 1) = 0
      OBVIOUS
    <2>1. OpenLinks(d, m + 1) = {}
      BY <1>8 DEF OpenLinks
    <2> QED
      BY <2>1, LinkNone
  <1>11. e.op \notin {"link", "does"} => LinkAt(d, m + 1) = l
    <2> SUFFICES ASSUME e.op \notin {"link", "does"} PROVE LinkAt(d, m + 1) = l
      OBVIOUS
    <2>1. Places(d, m + 1, "link") = Places(d, m, "link") /\ Places(d, m + 1, "does") = Places(d, m, "does")
      BY <1>8
    <2>2. OpenLinks(d, m + 1) = OpenLinks(d, m)
      BY <2>1 DEF OpenLinks
    <2> QED
      BY <1>4, <2>2, LinkSame
  <1>12. LinkIn(d, m + 1)
    <2>1. e.op = "link" => m \in DOMAIN d /\ d[m].op = "link"
      BY <1>1, <1>2
    <2> QED
      BY <1>5, <1>9, <1>10, <1>11, <2>1 DEF LinkIn
  <1> QED
    BY <1>1, <1>2, <1>3, <1>4, <1>7, <1>9, <1>10, <1>11, <1>12 DEF Extended

\* The operations that are not branches.
LEMMA NotBranches ==
    /\ \A op \in {"link", "unlink", "tolocal", "getlocal", "drop", "exit", "does", "semi"} : op \notin Branches
    /\ \A op \in Branches \cup {"drop"} :
            op \notin {"link", "unlink", "tolocal", "getlocal", "exit", "does", "semi"}
  BY DEF Branches

\* A structure word leaves the frames as they are.
LEMMA FramedStructured ==
    ASSUME NEW c, NEW d, NEW how, NEW count, NEW fixup, NEW ls, Framed(c, how, count, fixup, ls), Structured(c, d)
    PROVE  Framed(d, how, count, fixup, ls)
  <1>1. Kept(c, d) /\ c \in Seq(Instruction) /\ d \in Seq(Instruction)
    BY DEF Structured, Kept
  <1>2. PICK n \in Nat, m \in Nat : n = Len(c) /\ m = Len(d)
    BY <1>1
  <1>3. (m = n \/ m = n + 1) /\ DOMAIN c = 1..n /\ DOMAIN d = 1..m
    BY <1>1, <1>2 DEF Structured, Kept
  <1>4. \A j \in 1..n : /\ j \in 1..m /\ d[j].op = c[j].op
                        /\ (c[j].op \in {"link", "tolocal", "getlocal"} => d[j] = c[j])
    <2>1. \A j \in 1..n : d[j].op = c[j].op /\ (IsBranch(c, j) \/ d[j] = c[j])
      BY <1>3 DEF Structured, Kept
    <2>2. \A j \in 1..n : c[j].op \in {"link", "tolocal", "getlocal"} => ~IsBranch(c, j)
      BY NotBranches DEF IsBranch
    <2> QED
      BY <1>3, <2>1, <2>2
  <1>5. \A j \in 1..m : j \in 1..n \/ (j = n + 1 /\ m = n + 1 /\ d[j].op \in Branches \cup {"drop"})
    BY <1>3 DEF Structured
  <1>6. LinkAt(d, n + 1) = LinkAt(c, n + 1)
    BY <1>1, <1>2, LinkKept
  <1>7. LinkAt(c, n + 1) = 0 \/ (LinkAt(c, n + 1) \in DOMAIN c /\ c[LinkAt(c, n + 1)].op = "link")
    BY <1>2 DEF Framed, Ins
  <1>8. Frames(d)
    <2>1. ASSUME NEW i \in DOMAIN d
          PROVE  FrameRight(d, i) /\ LinkIn(d, i)
      <3>1. CASE i \in 1..n
        <4>1. \A j \in DOMAIN c : /\ c[j].op \in {"tolocal", "getlocal"} => d[j].to = c[j].to
                                  /\ c[j].op = "link" => d[j].to >= c[j].to
          <5>1. \A j \in DOMAIN c : c[j] \in Instruction
            BY <1>1
          <5>2. \A j \in DOMAIN c : c[j].to >= c[j].to
            BY <5>1 DEF Instruction
          <5> QED
            BY <1>3, <1>4, <5>2
        <4> QED
          BY <1>1, <1>3, <3>1, <4>1, FramesKept DEF Framed
      <3>2. CASE i = n + 1 /\ d[i].op \in Branches \cup {"drop"}
        <4>1. FrameRight(d, i)
          BY <3>2, NotBranches DEF FrameRight
        <4>2. LinkIn(d, i)
          BY <1>3, <1>4, <1>6, <1>7, <3>2 DEF LinkIn
        <4> QED
          BY <4>1, <4>2
      <3> QED
        BY <1>3, <1>5, <3>1, <3>2
    <2> QED
      BY <2>1 DEF Frames
  <1>9. how # "noname" => d # <<>> /\ d[1].op = "link"
    <2> SUFFICES ASSUME how # "noname" PROVE d # <<>> /\ d[1].op = "link"
      OBVIOUS
    <2>1. c # <<>> /\ c[1].op = "link"
      BY DEF Framed
    <2>2. n >= 1 /\ m >= 1
      BY <1>1, <1>2, <1>3, <2>1
    <2>3. d # <<>>
      BY <1>1, <1>2, <2>2
    <2> QED
      BY <1>4, <2>1, <2>2, <2>3
  <1>10. d # <<>> => d[Len(d)].op # "unlink"
    <2> SUFFICES ASSUME d # <<>> PROVE d[m].op # "unlink"
      BY <1>2
    <2>1. m >= 1 /\ m \in 1..m
      BY <1>1, <1>2
    <2>2. CASE m \in 1..n
      <3>1. m = n /\ c # <<>>
        BY <1>1, <1>2, <1>3, <2>2
      <3> QED
        BY <1>2, <1>4, <2>2, <3>1 DEF Framed
    <2>3. CASE m \notin 1..n
      BY <1>5, <2>1, <2>3, NotBranches
    <2> QED
      BY <2>2, <2>3
  <1>11. LinkAt(d, m + 1) = LinkAt(c, n + 1)
    <2>1. CASE m = n
      BY <1>6, <2>1
    <2>2. CASE m = n + 1
      <3>1. d[n + 1].op \in Branches \cup {"drop"}
        BY <1>5, <2>2
      <3>2. d[n + 1].op # "link" /\ d[n + 1].op # "does"
        BY <3>1, NotBranches
      <3>3. \A j : j \in 1..(n + 2 - 1) <=> j \in 1..(n + 1 - 1) \/ j = n + 1
        OBVIOUS
      <3>4. Places(d, n + 2, "link") = Places(d, n + 1, "link") /\ Places(d, n + 2, "does") = Places(d, n + 1, "does")
        BY <3>2, <3>3 DEF Places
      <3>5. OpenLinks(d, n + 2) = OpenLinks(d, n + 1)
        BY <3>4 DEF OpenLinks
      <3>6. LinkAt(d, n + 2) = LinkAt(d, n + 1) /\ m + 1 = n + 2
        BY <2>2, <3>5, LinkSame
      <3> QED
        BY <1>6, <3>6
    <2> QED
      BY <1>3, <2>1, <2>2
  <1>12. count = 0 => ls = <<>> /\ LinkAt(d, Len(d) + 1) = 0
    BY <1>2, <1>11 DEF Framed
  <1>13. count # 0 => /\ fixup \in DOMAIN d /\ LinkAt(d, Len(d) + 1) = fixup
                      /\ d[fixup] = Ins("link", count)
                      /\ \A i \in DOMAIN ls : ls[i].index < count
    <2> SUFFICES ASSUME count # 0
                 PROVE  /\ fixup \in DOMAIN d /\ LinkAt(d, Len(d) + 1) = fixup
                        /\ d[fixup] = Ins("link", count)
                        /\ \A i \in DOMAIN ls : ls[i].index < count
      OBVIOUS
    <2>1. /\ fixup \in DOMAIN c /\ LinkAt(c, n + 1) = fixup /\ c[fixup] = Ins("link", count)
          /\ \A i \in DOMAIN ls : ls[i].index < count
      BY <1>2 DEF Framed
    <2>2. c[fixup].op = "link"
      BY <2>1 DEF Ins
    <2> QED
      BY <1>2, <1>3, <1>4, <1>11, <2>1, <2>2
  <1> QED
    BY <1>8, <1>9, <1>10, <1>12, <1>13 DEF Framed

-----------------------------------------------------------------------------
(* What is compiled for locals, and at the end of a frame. *)

\* D is C and the instruction E.
Appended(c, d, e) ==
    /\ Kept(c, d) /\ d \in Seq(Instruction) /\ Len(d) = Len(c) + 1 /\ d[Len(c) + 1] = e
    /\ \A i \in DOMAIN c : d[i] = c[i]
\* An instruction compiled keeps those there are.
LEMMA AppendedIs ==
    ASSUME NEW c \in Seq(Instruction), NEW e \in Instruction, NEW d, d = Append(c, e)
    PROVE  Appended(c, d, e)
  <1>1. PICK n \in Nat : n = Len(c)
    OBVIOUS
  <1>2. d \in Seq(Instruction) /\ Len(d) = n + 1 /\ d[n + 1] = e /\ DOMAIN c = 1..n /\ \A i \in 1..n : d[i] = c[i]
    BY <1>1
  <1> QED
    BY <1>1, <1>2 DEF Kept, Appended
\* Code that keeps code that keeps code.
LEMMA KeptTwice ==
    ASSUME NEW c, NEW d, NEW e, Kept(c, d), Kept(d, e)
    PROVE  Kept(c, e)
  BY DEF Kept

\* The instructions that are compiled for locals.
LEMMA FrameInstructions ==
    \A to \in Nat : \A op \in {"link", "unlink", "tolocal", "getlocal", "exit", "does", "semi"} :
        Ins(op, to) \in Instruction /\ Ins(op, to).op = op /\ Ins(op, to).to = to
  BY DEF Ins, Instruction

\* One instruction written over (ficlStackPop and a store of the operand).
LEMMA Overwrite ==
    ASSUME NEW c \in Seq(Instruction), NEW a \in DOMAIN c, NEW z \in Instruction, NEW d, d = [c EXCEPT ![a] = z]
    PROVE  d \in Seq(Instruction) /\ Len(d) = Len(c) /\ d[a] = z /\ \A i \in DOMAIN c \ {a} : d[i] = c[i]
  OBVIOUS
\* Code with the same instructions is the same.
LEMMA SameCode ==
    ASSUME NEW c \in Seq(Instruction), NEW d \in Seq(Instruction), NEW n \in Nat, Len(c) = n, Len(d) = n,
           \A i \in 1..n : c[i] = d[i]
    PROVE  c = d
  OBVIOUS

\* The first local of a definition: the (link) gets its number, one.
LEMMA LocalParenFirst ==
    ASSUME NEW c \in Seq(Instruction), NEW fixup, NEW l, l = Append(c, Ins("link", 1))
    PROVE  LocalParen(c, 0, fixup) = Append(l, Ins("tolocal", 0)) /\ LocalParen(c, 0, fixup) = LocalParen(c, 0, 0)
  <1>1. PICK x, y, z : x = Ins("link", 0) /\ y = Ins("tolocal", 0) /\ z = Ins("link", 1)
    OBVIOUS
  <1>2. x \in Instruction /\ y \in Instruction /\ z \in Instruction /\ [x EXCEPT !.to = 1] = z
    BY <1>1 DEF Ins, Instruction
  <1>3. PICK n \in Nat : n = Len(c) + 1
    OBVIOUS
  <1>4. PICK k : k = Append(c, x)
    OBVIOUS
  <1>5. PICK s : s = Append(k, y)
    OBVIOUS
  <1>6. k \in Seq(Instruction) /\ Len(k) = n /\ k[n] = x /\ \A i \in 1..(n - 1) : k[i] = c[i]
    BY <1>2, <1>3, <1>4
  <1>7. s \in Seq(Instruction) /\ Len(s) = n + 1 /\ s[n] = x /\ s[n + 1] = y /\ \A i \in 1..(n - 1) : s[i] = c[i]
    BY <1>2, <1>3, <1>5, <1>6
  <1>8. l \in Seq(Instruction) /\ Len(l) = n /\ l[n] = z /\ \A i \in 1..(n - 1) : l[i] = c[i]
    BY <1>1, <1>2, <1>3
  <1>9. PICK r : r = Append(l, y)
    OBVIOUS
  <1>10. r \in Seq(Instruction) /\ Len(r) = n + 1 /\ r[n] = z /\ r[n + 1] = y /\ \A i \in 1..(n - 1) : r[i] = c[i]
    BY <1>2, <1>3, <1>8, <1>9
  <1>11. PICK p : p = Patch(s, n, 1)
    OBVIOUS
  <1>12. p = [s EXCEPT ![n] = z]
    BY <1>2, <1>7, <1>11 DEF Patch
  <1>13. p \in Seq(Instruction) /\ Len(p) = n + 1 /\ p[n] = z /\ \A i \in (1..(n + 1)) \ {n} : p[i] = s[i]
    <2>1. n \in DOMAIN s /\ DOMAIN s = 1..(n + 1)
      BY <1>3, <1>7
    <2>2. p \in Seq(Instruction) /\ Len(p) = Len(s) /\ p[n] = z /\ \A i \in DOMAIN s \ {n} : p[i] = s[i]
      BY <1>2, <1>7, <1>12, <2>1, Overwrite
    <2> QED
      BY <1>7, <2>1, <2>2
  <1>14. \A i \in 1..(n + 1) : p[i] = r[i]
    <2>1. \A i \in 1..(n + 1) : i \in 1..(n - 1) \/ i = n \/ i = n + 1
      OBVIOUS
    <2>2. p[n + 1] = y
      BY <1>7, <1>13
    <2>3. \A i \in 1..(n - 1) : p[i] = c[i]
      BY <1>7, <1>13
    <2> QED
      BY <1>10, <1>13, <2>1, <2>2, <2>3
  <1>15. p = r
    BY <1>10, <1>13, <1>14
  <1>16. LocalParen(c, 0, fixup) = p /\ LocalParen(c, 0, 0) = p
    <2>1. n # 0
      BY <1>3
    <2> QED
      BY <1>1, <1>4, <1>5, <1>6, <1>11, <2>1 DEF LocalParen
  <1> QED
    BY <1>1, <1>9, <1>15, <1>16

\* The next locals: the (link) gets their number, unless an error has ended its definition.
LEMMA LocalParenNext ==
    ASSUME NEW c \in Seq(Instruction), NEW count \in Nat \ {0}, NEW fixup \in DOMAIN c, c[fixup].op = "link",
           NEW l, l = [c EXCEPT ![fixup] = Ins("link", count + 1)]
    PROVE  LocalParen(c, count, fixup) = Append(l, Ins("tolocal", count)) /\ l \in Seq(Instruction)
  <1>1. PICK y, z : y = Ins("tolocal", count) /\ z = Ins("link", count + 1)
    OBVIOUS
  <1>2. y \in Instruction /\ z \in Instruction /\ [c[fixup] EXCEPT !.to = count + 1] = z
    <2>1. c[fixup] \in Instruction
      OBVIOUS
    <2> QED
      BY <1>1, <2>1 DEF Ins, Instruction
  <1>3. PICK n \in Nat : n = Len(c)
    OBVIOUS
  <1>4. fixup \in 1..n /\ fixup # 0
    BY <1>3
  <1>5. PICK s : s = Append(c, y)
    OBVIOUS
  <1>6. s \in Seq(Instruction) /\ Len(s) = n + 1 /\ s[n + 1] = y /\ \A i \in 1..n : s[i] = c[i]
    BY <1>2, <1>3, <1>5
  <1>7. l \in Seq(Instruction) /\ Len(l) = n /\ l[fixup] = z /\ \A i \in (1..n) \ {fixup} : l[i] = c[i]
    BY <1>1, <1>2, <1>3
  <1>8. PICK r : r = Append(l, y)
    OBVIOUS
  <1>9. r \in Seq(Instruction) /\ Len(r) = n + 1 /\ r[n + 1] = y /\ \A i \in 1..n : r[i] = l[i]
    BY <1>2, <1>7, <1>8
  <1>10. PICK p : p = Patch(s, fixup, count + 1)
    OBVIOUS
  <1>11. p = [s EXCEPT ![fixup] = z]
    BY <1>2, <1>4, <1>6, <1>10 DEF Patch
  <1>12. p \in Seq(Instruction) /\ Len(p) = n + 1 /\ p[fixup] = z /\ \A i \in (1..(n + 1)) \ {fixup} : p[i] = s[i]
    BY <1>2, <1>4, <1>6, <1>11
  <1>13. \A i \in 1..(n + 1) : p[i] = r[i]
    <2>1. \A i \in 1..(n + 1) : i \in 1..n \/ i = n + 1
      OBVIOUS
    <2>2. n + 1 # fixup
      BY <1>4
    <2> QED
      BY <1>4, <1>6, <1>7, <1>9, <1>12, <2>1, <2>2
  <1>14. p = r
    <2>1. n + 1 \in Nat
      OBVIOUS
    <2> QED
      BY <1>9, <1>12, <1>13, <2>1, SameCode
  <1>15. LocalParen(c, count, fixup) = p
    BY <1>1, <1>4, <1>5, <1>10 DEF LocalParen
  <1> QED
    BY <1>1, <1>7, <1>8, <1>14, <1>15

\* D is C with a frame begun at its end.
Begun(c, d) ==
    /\ Frames(d) /\ Kept(c, d) /\ Len(d) = Len(c) + 2 /\ LinkAt(d, Len(d) + 1) = Len(c) + 1
    /\ d[Len(c) + 1] = Ins("link", 1) /\ d[Len(d)].op = "tolocal"
\* The first local of a frame, or the dummy of : lambda: and does> (ficl_init_locals).
LEMMA FramesBegin ==
    ASSUME NEW c \in Seq(Instruction), Frames(c), LinkIn(c, Len(c) + 1), NEW d, d = LocalParen(c, 0, 0)
    PROVE  Begun(c, d)
  <1>1. PICK x \in Instruction, y \in Instruction : x = Ins("link", 1) /\ y = Ins("tolocal", 0)
    BY FrameInstructions
  <1>2. x.op = "link" /\ x.to = 1 /\ y.op = "tolocal" /\ y.to = 0
    BY <1>1, FrameInstructions
  <1>3. PICK l : l = Append(c, x)
    OBVIOUS
  <1>4. Extended(c, l, x)
    <2>1. MayFollow(c, x)
      BY <1>2 DEF MayFollow
    <2> QED
      BY <1>3, <2>1, FramesAppend
  <1>5. PICK n \in Nat : n = Len(c) + 1 /\ n = Len(l) /\ l \in Seq(Instruction)
    BY <1>4 DEF Extended
  <1>6. d = Append(l, y)
    BY <1>1, <1>3, LocalParenFirst
  <1>7. LinkAt(l, n + 1) = n /\ l[n] = x /\ n # 0 /\ Frames(l) /\ LinkIn(l, n + 1)
    BY <1>2, <1>4, <1>5 DEF Extended
  <1>8. Extended(l, d, y)
    <2>1. MayFollow(l, y)
      BY <1>2, <1>5, <1>7 DEF MayFollow
    <2> QED
      BY <1>5, <1>6, <1>7, <2>1, FramesAppend
  <1>9. d[n] = x /\ Len(d) = n + 1 /\ d[Len(d)] = y /\ LinkAt(d, Len(d) + 1) = n /\ Frames(d)
    <2>1. n \in DOMAIN l
      BY <1>5
    <2> QED
      BY <1>2, <1>5, <1>7, <1>8, <2>1 DEF Extended
  <1>10. Kept(c, d)
    BY <1>4, <1>8, KeptTwice DEF Extended
  <1> QED
    BY <1>1, <1>2, <1>5, <1>9, <1>10 DEF Begun

\* A definition whose frame has just been begun with one local.
LEMMA FramedBegin ==
    ASSUME NEW c \in Seq(Instruction), NEW d, NEW how, Begun(c, d), NEW ls, \A i \in DOMAIN ls : ls[i].index < 1,
           how # "noname" => c = <<>> \/ c[1].op = "link"
    PROVE  Framed(d, how, 1, Len(c) + 1, ls)
  <1>1. PICK n \in Nat : n = Len(c)
    OBVIOUS
  <1>2. /\ Frames(d) /\ Kept(c, d) /\ Len(d) = n + 2 /\ LinkAt(d, Len(d) + 1) = n + 1
        /\ d[n + 1] = Ins("link", 1) /\ d[Len(d)].op = "tolocal" /\ d \in Seq(Instruction)
    BY <1>1 DEF Begun, Kept
  <1>3. d # <<>> /\ n + 1 \in DOMAIN d
    BY <1>2
  <1>4. how # "noname" => d[1].op = "link"
    <2> SUFFICES ASSUME how # "noname" PROVE d[1].op = "link"
      OBVIOUS
    <2>1. CASE c = <<>>
      BY <1>1, <1>2, <2>1, FrameInstructions
    <2>2. CASE c # <<>>
      <3>1. 1 \in DOMAIN c
        BY <2>2
      <3> QED
        BY <1>2, <2>2, <3>1 DEF Kept
    <2> QED
      BY <2>1, <2>2
  <1> QED
    BY <1>1, <1>2, <1>3, <1>4 DEF Framed

\* Another local in the frame.
LEMMA FramedStore ==
    ASSUME NEW c \in Seq(Instruction), NEW d, NEW how, NEW count \in Nat \ {0}, NEW fixup, NEW ls,
           Framed(c, how, count, fixup, ls), d = LocalParen(c, count, fixup),
           NEW ms, \A i \in DOMAIN ms : ms[i].index < count + 1
    PROVE  Framed(d, how, count + 1, fixup, ms) /\ Kept(c, d)
  <1>1. /\ fixup \in DOMAIN c /\ LinkAt(c, Len(c) + 1) = fixup /\ c[fixup] = Ins("link", count) /\ Frames(c)
        /\ how # "noname" => c # <<>> /\ c[1].op = "link"
    BY DEF Framed
  <1>2. PICK x \in Instruction, y \in Instruction : x = Ins("link", count + 1) /\ y = Ins("tolocal", count)
    BY FrameInstructions
  <1>3. x.op = "link" /\ x.to = count + 1 /\ y.op = "tolocal" /\ y.to = count
    BY <1>2, FrameInstructions
  <1>4. c[fixup].op = "link" /\ c[fixup].to = count
    BY <1>1, FrameInstructions
  <1>5. PICK l : l = [c EXCEPT ![fixup] = x]
    OBVIOUS
  <1>6. PICK n \in Nat : n = Len(c)
    OBVIOUS
  <1>7. l \in Seq(Instruction) /\ Len(l) = n /\ l[fixup] = x /\ \A i \in DOMAIN c \ {fixup} : l[i] = c[i]
    BY <1>1, <1>5, <1>6, Overwrite
  <1>8. Kept(c, l)
    <2>1. \A i \in DOMAIN c : l[i].op = c[i].op
      BY <1>3, <1>4, <1>7
    <2> QED
      BY <1>6, <1>7, <2>1 DEF Kept
  <1>9. Frames(l)
    <2>1. \A j \in DOMAIN c : /\ c[j].op \in {"tolocal", "getlocal"} => l[j].to = c[j].to
                              /\ c[j].op = "link" => l[j].to >= c[j].to
      <3>1. \A j \in DOMAIN c : c[j] \in Instruction
        OBVIOUS
      <3>2. \A j \in DOMAIN c : c[j].to \in Nat
        BY <3>1 DEF Instruction
      <3> QED
        BY <1>3, <1>4, <1>7, <3>2
    <2>2. \A i \in DOMAIN c : FrameRight(l, i) /\ LinkIn(l, i)
      BY <1>1, <1>8, <2>1, FramesKept
    <2>3. DOMAIN l = DOMAIN c
      BY <1>6, <1>7
    <2> QED
      BY <2>2, <2>3 DEF Frames
  <1>10. LinkAt(l, n + 1) = fixup /\ LinkIn(l, n + 1)
    <2>1. n + 1 \in 1..(Len(c) + 1)
      BY <1>6
    <2>2. LinkAt(l, n + 1) = fixup
      BY <1>1, <1>6, <1>8, <2>1, LinkKept
    <2> QED
      BY <1>1, <1>3, <1>7, <1>8, <2>2 DEF LinkIn, Kept
  <1>11. d = Append(l, y)
    BY <1>1, <1>2, <1>4, <1>5, LocalParenNext
  <1>12. fixup # 0
    BY <1>1
  <1>13. /\ Frames(d) /\ Kept(l, d) /\ Len(d) = n + 1 /\ d[Len(d)] = y
         /\ LinkAt(d, Len(d) + 1) = fixup
    <2>1. MayFollow(l, y)
      <3>1. count < count + 1
        OBVIOUS
      <3> QED
        BY <1>3, <1>7, <1>10, <1>12, <3>1 DEF MayFollow
    <2>2. Extended(l, d, y)
      BY <1>7, <1>9, <1>10, <1>11, <2>1, FramesAppend
    <2> QED
      BY <1>3, <1>7, <1>10, <2>2 DEF Extended
  <1>14. \A i \in DOMAIN l : d[i] = l[i]
    BY <1>7, <1>11, AppendedIs DEF Appended
  <1>15. Kept(c, d) /\ d \in Seq(Instruction)
    BY <1>8, <1>13, KeptTwice DEF Kept
  <1>16. d[fixup] = Ins("link", count + 1) /\ fixup \in DOMAIN d
    BY <1>1, <1>2, <1>7, <1>8, <1>14, <1>15 DEF Kept
  <1>17. how # "noname" => d # <<>> /\ d[1].op = "link"
    <2> SUFFICES ASSUME how # "noname" PROVE d # <<>> /\ d[1].op = "link"
      OBVIOUS
    <2>1. 1 \in DOMAIN c
      BY <1>1
    <2>2. d[1].op = "link"
      BY <1>1, <1>15, <2>1 DEF Kept
    <2> QED
      BY <1>13, <1>15, <2>2
  <1>18. d[Len(d)].op # "unlink" /\ count + 1 # 0
    BY <1>3, <1>13
  <1> QED
    BY <1>13, <1>15, <1>16, <1>17, <1>18 DEF Framed

\* A word that compiles an instruction that uses a local.
LEMMA FramedGet ==
    ASSUME NEW c \in Seq(Instruction), NEW d, NEW how, NEW count \in Nat \ {0}, NEW fixup, NEW ls,
           Framed(c, how, count, fixup, ls), NEW index \in Nat, index < count, d = Append(c, Ins("getlocal", index))
    PROVE  Framed(d, how, count, fixup, ls)
  <1>1. /\ fixup \in DOMAIN c /\ LinkAt(c, Len(c) + 1) = fixup /\ c[fixup] = Ins("link", count) /\ Frames(c)
        /\ how # "noname" => c # <<>> /\ c[1].op = "link"
    BY DEF Framed
  <1>2. PICK y \in Instruction : y = Ins("getlocal", index)
    BY FrameInstructions
  <1>3. y.op = "getlocal" /\ y.to = index
    BY <1>2, FrameInstructions
  <1>4. c[fixup].op = "link" /\ c[fixup].to = count /\ fixup # 0
    BY <1>1, FrameInstructions
  <1>5. LinkIn(c, Len(c) + 1)
    BY <1>1, <1>4 DEF LinkIn
  <1>6. /\ Frames(d) /\ Kept(c, d) /\ Len(d) = Len(c) + 1 /\ d[Len(d)] = y
        /\ LinkAt(d, Len(d) + 1) = fixup
    <2>1. MayFollow(c, y)
      BY <1>1, <1>3, <1>4 DEF MayFollow
    <2>2. Extended(c, d, y)
      BY <1>1, <1>2, <1>5, <2>1, FramesAppend
    <2> QED
      BY <1>1, <1>3, <2>2 DEF Extended
  <1>7. \A i \in DOMAIN c : d[i] = c[i]
    BY <1>2, AppendedIs DEF Appended
  <1>8. d \in Seq(Instruction) /\ \A i \in DOMAIN c : i \in DOMAIN d
    BY <1>6 DEF Kept
  <1>9. how # "noname" => d # <<>> /\ d[1].op = "link"
    <2> SUFFICES ASSUME how # "noname" PROVE d # <<>> /\ d[1].op = "link"
      OBVIOUS
    <2>1. 1 \in DOMAIN c
      BY <1>1
    <2> QED
      BY <1>1, <1>7, <1>8, <2>1
  <1> QED
    BY <1>1, <1>3, <1>6, <1>7, <1>8, <1>9 DEF Framed

\* What exit, does> and ; compile: an (unlink) if there is a frame, and their own instruction.
Leaving(c, count, op) == c \o (IF count > 0 THEN <<Ins("unlink", 0)>> ELSE <<>>) \o <<Ins(op, 0)>>
\* D is C and what ends its frame.
Left(c, d, op) ==
    /\ Frames(d) /\ d[Len(d)].op = op /\ \A i \in DOMAIN c : d[i] = c[i]
    /\ op = "does" => LinkAt(d, Len(d) + 1) = 0
    /\ op # "does" => LinkAt(d, Len(d) + 1) = LinkAt(c, Len(c) + 1)

\* One more at the end, as a concatenation.
LEMMA AppendOne ==
    ASSUME NEW c \in Seq(Instruction), NEW e \in Instruction
    PROVE  c \o <<e>> = Append(c, e) /\ c \o <<>> = c
  OBVIOUS

\* exit, does> and ; keep the code there is.
LEMMA LeavingKeeps ==
    ASSUME NEW c \in Seq(Instruction), NEW count, NEW op \in {"exit", "does", "semi"}, NEW d, d = Leaving(c, count, op)
    PROVE  Kept(c, d) /\ Len(c) < Len(d)
  <1>1. PICK e \in Instruction, u \in Instruction : e = Ins(op, 0) /\ u = Ins("unlink", 0)
    BY FrameInstructions
  <1>2. CASE count > 0
    <2>1. PICK k : k = Append(c, u)
      OBVIOUS
    <2>2. Kept(c, k) /\ k \in Seq(Instruction) /\ Len(k) = Len(c) + 1
      BY <2>1, AppendedIs DEF Appended
    <2>3. d = Append(k, e)
      BY <1>1, <1>2, <2>1, <2>2, AppendOne DEF Leaving
    <2>4. Kept(k, d) /\ Len(d) = Len(k) + 1
      BY <2>2, <2>3, AppendedIs DEF Appended
    <2> QED
      BY <2>2, <2>4, KeptTwice
  <1>3. CASE ~(count > 0)
    <2>1. d = Append(c, e)
      BY <1>1, <1>3, AppendOne DEF Leaving
    <2>2. Kept(c, d) /\ Len(d) = Len(c) + 1
      BY <2>1, AppendedIs DEF Appended
    <2> QED
      BY <2>2
  <1> QED
    BY <1>2, <1>3

\* exit, does> and ; unlink the frame there is, and none where there is none.
LEMMA FramesLeave ==
    ASSUME NEW c \in Seq(Instruction), NEW how, NEW count \in Nat, NEW fixup, NEW ls, Framed(c, how, count, fixup, ls),
           NEW op \in {"exit", "does", "semi"}, NEW d, d = Leaving(c, count, op)
    PROVE  Left(c, d, op)
  <1>1. PICK e \in Instruction, u \in Instruction : e = Ins(op, 0) /\ u = Ins("unlink", 0)
    BY FrameInstructions
  <1>2. e.op = op /\ u.op = "unlink" /\ op \notin {"link", "tolocal", "getlocal", "unlink"}
    BY <1>1, FrameInstructions
  <1>3. CASE count > 0
    <2>1. Frames(c) /\ LinkAt(c, Len(c) + 1) = fixup /\ LinkIn(c, Len(c) + 1) /\ fixup # 0
      <3>1. fixup \in DOMAIN c /\ LinkAt(c, Len(c) + 1) = fixup /\ c[fixup] = Ins("link", count) /\ Frames(c)
        BY <1>3 DEF Framed
      <3>2. c[fixup].op = "link"
        BY <3>1, FrameInstructions
      <3> QED
        BY <3>1, <3>2 DEF LinkIn
    <2>2. PICK k : k = Append(c, u)
      OBVIOUS
    <2>3. Extended(c, k, u)
      <3>1. MayFollow(c, u)
        BY <1>2 DEF MayFollow
      <3> QED
        BY <2>1, <2>2, <3>1, FramesAppend
    <2>4. /\ k \in Seq(Instruction) /\ k # <<>> /\ k[Len(k)].op = "unlink" /\ LinkAt(k, Len(k) + 1) = fixup
          /\ Frames(k) /\ LinkIn(k, Len(k) + 1)
      <3>1. k # <<>>
        BY <2>2
      <3> QED
        BY <1>2, <2>1, <2>3, <3>1 DEF Extended
    <2>5. d = Append(k, e)
      BY <1>1, <1>3, <2>2, <2>4, AppendOne DEF Leaving
    <2>6. Extended(k, d, e)
      <3>1. MayFollow(k, e)
        BY <1>2, <2>1, <2>4 DEF MayFollow
      <3> QED
        BY <2>4, <2>5, <3>1, FramesAppend
    <2>7. \A i \in DOMAIN c : i \in DOMAIN k /\ k[i] = c[i]
      BY <2>3 DEF Extended, Kept
    <2>8. \A i \in DOMAIN c : d[i] = c[i]
      BY <2>6, <2>7 DEF Extended
    <2> QED
      BY <1>2, <2>1, <2>4, <2>6, <2>8 DEF Left, Extended
  <1>4. CASE count = 0
    <2>1. Frames(c) /\ LinkAt(c, Len(c) + 1) = 0 /\ LinkIn(c, Len(c) + 1) /\ (c # <<>> => c[Len(c)].op # "unlink")
      BY <1>4 DEF Framed, LinkIn
    <2>2. d = Append(c, e)
      BY <1>1, <1>4, AppendOne DEF Leaving
    <2>3. Extended(c, d, e)
      <3>1. MayFollow(c, e)
        BY <1>2, <2>1 DEF MayFollow
      <3> QED
        BY <2>1, <2>2, <3>1, FramesAppend
    <2> QED
      BY <1>2, <2>1, <2>3 DEF Left, Extended
  <1> QED
    BY <1>3, <1>4

\* A definition that leaves its frame goes on as it was.
LEMMA FramedExit ==
    ASSUME NEW c \in Seq(Instruction), NEW how, NEW count \in Nat, NEW fixup, NEW ls, Framed(c, how, count, fixup, ls),
           NEW d, d = Leaving(c, count, "exit")
    PROVE  Framed(d, how, count, fixup, ls)
  <1>1. Left(c, d, "exit")
    BY FramesLeave
  <1>2. Kept(c, d) /\ Len(c) < Len(d) /\ d \in Seq(Instruction)
    BY LeavingKeeps DEF Kept
  <1>3. \A i \in DOMAIN c : i \in DOMAIN d
    BY <1>2
  <1>4. how # "noname" => d # <<>> /\ d[1].op = "link"
    <2> SUFFICES ASSUME how # "noname" PROVE d # <<>> /\ d[1].op = "link"
      OBVIOUS
    <2>1. c # <<>> /\ c[1].op = "link"
      BY DEF Framed
    <2>2. 1 \in DOMAIN c
      BY <2>1
    <2> QED
      BY <1>1, <1>2, <2>1, <2>2 DEF Left
  <1>5. count = 0 => ls = <<>> /\ LinkAt(d, Len(d) + 1) = 0
    BY <1>1 DEF Framed, Left
  <1>6. count # 0 => /\ fixup \in DOMAIN d /\ LinkAt(d, Len(d) + 1) = fixup
                     /\ d[fixup] = Ins("link", count)
                     /\ \A i \in DOMAIN ls : ls[i].index < count
    BY <1>1, <1>3 DEF Framed, Left
  <1> QED
    BY <1>1, <1>4, <1>5, <1>6 DEF Framed, Left

-----------------------------------------------------------------------------
(* The inductive invariant of the frames. *)

DoneType ==
    done \in [how : {"none", "colon", "lambda", "noname"}, found : Seq(Cell), clean : BOOLEAN,
              loose : BOOLEAN, code : Seq(Instruction), left : Seq(Cell)]

\* What is known of the definition in progress.
InProgress ==
    /\ done.code = <<>>
    /\ Groups(stack, code)
    /\ localsFixup # 0 => code[localsFixup].op = "link"
    /\ done.clean => Framed(code, done.how, localsCount, localsFixup, locals)

FrameInv ==
    /\ TypeOK /\ DoneType /\ FramesMatch
    /\ state = "compile" /\ ~wild => InProgress

StructureWord ==
    \/ If \/ Else \/ Then
    \/ BeginLoop \/ Until \/ While \/ Repeat \/ Do \/ Loop
    \/ Case \/ Of \/ Endof \/ Fallthrough \/ Endcase

\* A structure word leaves the groups of the stack right, and frames as they are.
LEMMA StructureKeeps ==
    ASSUME WordPre, StructureWord
    PROVE  WordPost
  BY IfKeeps, ElseKeeps, ThenKeeps, BeginLoopKeeps, UntilKeeps, WhileKeeps, RepeatKeeps, DoKeeps, LoopKeeps,
     CaseKeeps, OfKeeps, EndofWordKeeps, FallthroughKeeps, EndcaseKeeps DEF StructureWord

\* A structure word changes nothing but code, stack, and what is known of the definition.
LEMMA StructureTouches ==
    ASSUME StructureWord, wild \in BOOLEAN
    PROVE  /\ state = "compile" /\ UNCHANGED <<state, opened, localsCount, locals, localsFixup>>
           /\ wild' \in BOOLEAN
           /\ done' = done \/ \E b \in BOOLEAN : done' = [done EXCEPT !.loose = b]
  <1>1. CASE While
    <2>1. done' = [done EXCEPT !.loose = done.loose \/ ~Matches(1, "target")]
      BY <1>1 DEF While
    <2>2. (done.loose \/ ~Matches(1, "target")) \in BOOLEAN
      OBVIOUS
    <2>3. \E b \in BOOLEAN : done' = [done EXCEPT !.loose = b]
      BY <2>1, <2>2
    <2> QED
      BY <1>1, <2>3 DEF While, Compiles
  <1>2. CASE Endcase
    <2>1. wild' \in BOOLEAN
      BY <1>2 DEF Endcase
    <2> QED
      BY <1>2, <2>1 DEF Endcase, Compiles
  <1>3. CASE ~While /\ ~Endcase
    BY <1>3 DEF StructureWord, If, Else, Then, BeginLoop, Until, Repeat, Do, Loop, Case, Of, Endof, Fallthrough,
                Plainly, Compiles
  <1> QED
    BY <1>1, <1>2, <1>3

\* A definition in progress is none that ; has accepted.
LEMMA NotAccepted ==
    ASSUME done.code = <<>>
    PROVE  FramesMatch
  BY DEF FramesMatch, Accepted

\* Structure words keep the invariant.
LEMMA FrameStructure ==
    ASSUME FrameInv, ~wild, StructureWord
    PROVE  FrameInv'
  <1>1. /\ state = "compile" /\ UNCHANGED <<state, opened, localsCount, locals, localsFixup>> /\ wild' \in BOOLEAN
        /\ done' = done \/ \E b \in BOOLEAN : done' = [done EXCEPT !.loose = b]
    BY StructureTouches DEF FrameInv, TypeOK
  <1>2. InProgress /\ TypeOK /\ DoneType
    BY <1>1 DEF FrameInv
  <1>3. WordPost
    BY <1>2, StructureKeeps DEF WordPre, InProgress
  <1>4. TypeOK'
    <2>1. code' \in Code
      BY <1>3 DEF WordPost, Code, Instruction
    <2>2. stack' \in Seq(Cell) /\ \A i \in DOMAIN stack' : stack'[i][1] = "addr" => stack'[i][2] \in 1..(Len(code') + 1)
      BY <1>3 DEF WordPost, Typed
    <2>3. localsFixup' \in 0..Len(code')
      <3>1. code \in Seq(Instruction) /\ code' \in Seq(Instruction) /\ Len(code) <= Len(code')
        BY <1>2, <1>3 DEF WordPost, TypeOK, Code, Instruction
      <3> QED
        BY <1>1, <1>2, <3>1 DEF TypeOK
    <2> QED
      BY <1>1, <1>2, <2>1, <2>2, <2>3 DEF TypeOK, here
  <1>5. DoneType' /\ done'.code = <<>> /\ done'.clean = done.clean /\ done'.how = done.how
    <2>1. CASE done' = done
      BY <1>2, <2>1 DEF DoneType, InProgress
    <2>2. CASE \E b \in BOOLEAN : done' = [done EXCEPT !.loose = b]
      BY <1>2, <2>2 DEF DoneType, InProgress
    <2> QED
      BY <1>1, <2>1, <2>2
  <1>6. FramesMatch'
    BY <1>5 DEF FramesMatch, Accepted
  <1>7. ASSUME ~wild'
        PROVE  InProgress'
    <2>1. Structured(code, code') /\ Groups(stack', code')
      BY <1>3, <1>7 DEF WordPost
    <2>2. localsFixup' # 0 => code'[localsFixup'].op = "link"
      <3> SUFFICES ASSUME localsFixup # 0 PROVE code'[localsFixup].op = "link"
        BY <1>1
      <3>1. code \in Seq(Instruction) /\ localsFixup \in DOMAIN code
        BY <1>2 DEF TypeOK, Code, Instruction
      <3>2. code'[localsFixup].op = code[localsFixup].op
        BY <2>1, <3>1 DEF Structured, Kept
      <3> QED
        BY <1>2, <3>2 DEF InProgress
    <2>3. done'.clean => Framed(code', done'.how, localsCount', localsFixup', locals')
      <3> SUFFICES ASSUME done.clean PROVE Framed(code', done.how, localsCount, localsFixup, locals)
        BY <1>1, <1>5
      <3>1. Framed(code, done.how, localsCount, localsFixup, locals)
        BY <1>2 DEF InProgress
      <3>2. PICK d : d = code'
        OBVIOUS
      <3>3. Framed(d, done.how, localsCount, localsFixup, locals)
        BY <2>1, <3>1, <3>2, FramedStructured
      <3> QED
        BY <3>2, <3>3
    <2> QED
      BY <1>5, <2>1, <2>2, <2>3 DEF InProgress
  <1> QED
    BY <1>4, <1>5, <1>6, <1>7 DEF FrameInv

-----------------------------------------------------------------------------
(* The words about locals. *)

\* Code that keeps its instructions serves the addresses on the stack as well.
LEMMA GroupsKept ==
    ASSUME NEW s, NEW c, NEW d, Typed(s, c), Groups(s, c), Kept(c, d)
    PROVE  Typed(s, d) /\ Groups(s, d)
  <1>1. Typed(s, d)
    BY DEF Typed, Kept
  <1>2. PICK m \in Nat : Grouped(s, c, m)
    BY DEF Groups
  <1>3. s \in Seq(Cell)
    BY DEF Typed
  <1>4. PICK q \in Nat : q = Len(s)
    BY <1>3
  <1>5. m <= q
    BY <1>2, <1>4 DEF Grouped
  <1>6. /\ m = 0 \/ Broken(s, m)
        /\ \A k \in (m + 1)..q : s[k][1] = "tag" => GroupAt(s, d, m, k)
    <2>1. \A i \in 1..q : s[i] = s[i]
      OBVIOUS
    <2>2. q <= Len(s)
      BY <1>4
    <2> QED
      BY <1>2, <1>3, <1>5, <2>1, <2>2, GroupedKeeps
  <1>7. Grouped(s, d, m)
    BY <1>2, <1>4, <1>6 DEF Grouped
  <1> QED
    BY <1>1, <1>7 DEF Groups

\* What a word that is about locals has to keep.
LocalsPost ==
    /\ Kept(code, code')
    /\ localsCount' \in 0..MAX_LOCALS
    /\ locals' \in Seq([name : LocalName \cup {Dummy}, index : 0..(MAX_LOCALS - 1)])
    /\ localsFixup' \in 0..Len(code')
    /\ localsFixup' # 0 => code'[localsFixup'].op = "link"
    /\ done.clean => Framed(code', done.how, localsCount', localsFixup', locals')
\* A word about locals that keeps these keeps the invariant.
LEMMA LocalsKeep ==
    ASSUME FrameInv, ~wild, state = "compile", LocalsPost, UNCHANGED <<state, opened, stack, wild, done>>
    PROVE  FrameInv'
  <1>1. InProgress /\ TypeOK /\ DoneType
    BY DEF FrameInv
  <1>2. code' \in Seq(Instruction) /\ code' \in Code
    BY DEF LocalsPost, Kept, Code, Instruction
  <1>3. Typed(stack, code) /\ Groups(stack, code)
    BY <1>1 DEF TypeOK, Typed, InProgress, here
  <1>4. PICK d : d = code'
    OBVIOUS
  <1>5. Typed(stack, d) /\ Groups(stack, d)
    BY <1>3, <1>4, GroupsKept DEF LocalsPost
  <1>6. TypeOK'
    BY <1>1, <1>2, <1>4, <1>5 DEF TypeOK, Typed, LocalsPost, here
  <1>7. FramesMatch' /\ DoneType' /\ done'.code = <<>>
    BY <1>1 DEF InProgress, FramesMatch, Accepted, DoneType
  <1>8. InProgress'
    BY <1>4, <1>5, <1>7 DEF InProgress, LocalsPost
  <1> QED
    BY <1>6, <1>7, <1>8 DEF FrameInv

\* does> starts over: the frame of the first part is left, and a new one begun.
LEMMA DoesFrame ==
    ASSUME NEW c \in Seq(Instruction), NEW count, NEW d, d = Leaving(c, count, "does"), NEW e, e = LocalParen(d, 0, 0)
    PROVE  /\ Kept(c, e) /\ Kept(d, e) /\ d \in Seq(Instruction)
           /\ Len(d) + 1 \in DOMAIN e /\ e[Len(d) + 1].op = "link"
  <1>1. Kept(c, d) /\ d \in Seq(Instruction)
    BY LeavingKeeps DEF Kept
  <1>2. PICK x \in Instruction, y \in Instruction : x = Ins("link", 1) /\ y = Ins("tolocal", 0) /\ x.op = "link"
    BY FrameInstructions
  <1>3. PICK l : l = Append(d, x)
    OBVIOUS
  <1>4. Kept(d, l) /\ l \in Seq(Instruction) /\ Len(l) = Len(d) + 1 /\ l[Len(d) + 1] = x
    <2>1. Appended(d, l, x)
      BY <1>1, <1>3, AppendedIs
    <2> QED
      BY <2>1 DEF Appended
  <1>5. e = Append(l, y)
    BY <1>1, <1>2, <1>3, LocalParenFirst
  <1>6. Kept(l, e) /\ e \in Seq(Instruction) /\ Len(e) = Len(l) + 1 /\ \A i \in DOMAIN l : e[i] = l[i]
    BY <1>4, <1>5, AppendedIs DEF Appended
  <1>7. Kept(c, e) /\ Kept(d, e)
    BY <1>1, <1>4, <1>6, KeptTwice
  <1>8. PICK n \in Nat : n = Len(d) + 1
    BY <1>1
  <1>9. n \in DOMAIN l /\ n \in DOMAIN e
    BY <1>4, <1>6, <1>8
  <1> QED
    BY <1>1, <1>2, <1>4, <1>6, <1>7, <1>8, <1>9

\* The greatest of a set of numbers (the newest of the places of a name).
LEMMA Least ==
    ASSUME NEW P \in SUBSET Nat, P # {}
    PROVE  \E k \in P : \A j \in P : k <= j
  <1>1. PICK k \in P : \A j \in P : ~(<<j, k>> \in OpToRel(<, Nat))
    BY WFMin, NatLessThanWellFounded
  <1>2. \A j \in P : ~(j < k)
    BY <1>1 DEF OpToRel
  <1> QED
    BY <1>2
\* The same from above, for the places of a name in the locals dictionary.
LEMMA Greatest ==
    ASSUME NEW N \in Nat, NEW P \in SUBSET (1..N), P # {}
    PROVE  \E k \in P : \A j \in P : j <= k
  <1> DEFINE Q == {N - j : j \in P}
  <1>1. \A j \in P : j \in Nat /\ N - j \in Nat
    OBVIOUS
  <1>2. Q \in SUBSET Nat /\ Q # {}
    BY <1>1
  <1> HIDE DEF Q
  <1>3. PICK q \in Q : \A r \in Q : q <= r
    BY <1>2, Least
  <1>4. PICK k \in P : q = N - k
    BY DEF Q
  <1>5. \A j \in P : N - k <= N - j
    BY <1>3, <1>4 DEF Q
  <1> QED
    BY <1>1, <1>5

\* The indexes of the locals are numbers.
LEMMA LocalIndexes ==
    ASSUME TypeOK
    PROVE  \A i \in DOMAIN locals : locals[i].index \in 0..(MAX_LOCALS - 1)
  <1>1. PICK S : S = [name : LocalName \cup {Dummy}, index : 0..(MAX_LOCALS - 1)]
    OBVIOUS
  <1>2. locals \in Seq(S)
    BY <1>1 DEF TypeOK
  <1>3. \A i \in DOMAIN locals : locals[i] \in S
    BY <1>2
  <1>4. \A r \in S : r.index \in 0..(MAX_LOCALS - 1)
    BY <1>1
  <1> QED
    BY <1>3, <1>4

\* A name that is found is found in the locals dictionary (ficlSystemLookupLocal).
LEMMA FoundLocal ==
    ASSUME TypeOK, NEW n, ficlSystemLookupLocal(n) # <<>>
    PROVE  /\ localsCount # 0
           /\ \E i \in DOMAIN locals : ficlSystemLookupLocal(n)[1] = locals[i].index
  <1>1. localsCount # 0 /\ LocalPlaces(n) # {}
    BY DEF ficlSystemLookupLocal
  <1>2. PICK p : p = LocalPlaces(n)
    OBVIOUS
  <1>3. PICK N \in Nat : N = Len(locals) /\ DOMAIN locals = 1..N
    <2>1. locals \in Seq([name : LocalName \cup {Dummy}, index : 0..(MAX_LOCALS - 1)])
      BY DEF TypeOK
    <2> QED
      BY <2>1
  <1>4. p \in SUBSET (1..N) /\ p # {}
    BY <1>1, <1>2, <1>3 DEF LocalPlaces
  <1>5. \E k \in p : \A j \in p : j <= k
    BY <1>4, Greatest
  <1>6. PICK k : k = CHOOSE i \in p : \A j \in p : j <= i
    OBVIOUS
  <1>7. k \in p
    BY <1>5, <1>6
  <1>8. ficlSystemLookupLocal(n) = <<locals[k].index>>
    BY <1>1, <1>2, <1>6 DEF ficlSystemLookupLocal
  <1> QED
    BY <1>1, <1>3, <1>4, <1>7, <1>8

\* exit keeps the invariant.
LEMMA FrameExit ==
    ASSUME FrameInv, ~wild, Exit
    PROVE  FrameInv'
  <1>1. state = "compile" /\ UNCHANGED <<state, opened, stack, wild, done, localsCount, locals, localsFixup>>
    BY DEF Exit, Plainly, Compiles
  <1>2. InProgress /\ TypeOK
    BY <1>1 DEF FrameInv
  <1>3. code \in Seq(Instruction) /\ localsCount \in Nat
    BY <1>2, CompileAssumption DEF TypeOK, Code, Instruction
  <1>4. PICK d : d = Leaving(code, localsCount, "exit")
    OBVIOUS
  <1>5. d = code'
    BY <1>4 DEF Exit, Plainly, Compiles, Leaving, Unlink
  <1>6. Kept(code, d) /\ Len(code) < Len(d) /\ d \in Seq(Instruction)
    BY <1>3, <1>4, LeavingKeeps DEF Kept
  <1>7. done.clean => Framed(d, done.how, localsCount, localsFixup, locals)
    <2> SUFFICES ASSUME done.clean PROVE Framed(d, done.how, localsCount, localsFixup, locals)
      OBVIOUS
    <2>1. Framed(code, done.how, localsCount, localsFixup, locals)
      BY <1>2 DEF InProgress
    <2> QED
      BY <1>3, <1>4, <2>1, FramedExit
  <1>8. localsFixup \in 0..Len(d)
    BY <1>2, <1>3, <1>6 DEF TypeOK
  <1>9. localsFixup # 0 => d[localsFixup].op = "link"
    <2> SUFFICES ASSUME localsFixup # 0 PROVE d[localsFixup].op = "link"
      OBVIOUS
    <2>1. localsFixup \in DOMAIN code /\ code[localsFixup].op = "link"
      BY <1>2, <1>3 DEF TypeOK, InProgress
    <2> QED
      BY <1>6, <2>1 DEF Kept
  <1>10. LocalsPost
    BY <1>1, <1>2, <1>5, <1>6, <1>7, <1>8, <1>9 DEF LocalsPost, TypeOK
  <1> QED
    BY <1>1, <1>10, LocalsKeep

\* The name of a local keeps the invariant.
LEMMA FrameWord ==
    ASSUME FrameInv, ~wild, NEW n, Word(n)
    PROVE  FrameInv'
  <1>1. state = "compile" /\ UNCHANGED <<state, opened, stack, wild, done, localsCount, locals, localsFixup>>
    BY DEF Word, Plainly, Compiles
  <1>2. InProgress /\ TypeOK
    BY <1>1 DEF FrameInv
  <1>3. code \in Seq(Instruction) /\ localsCount \in Nat
    BY <1>2, CompileAssumption DEF TypeOK, Code, Instruction
  <1>4. localsCount # 0 /\ \E i \in DOMAIN locals : ficlSystemLookupLocal(n)[1] = locals[i].index
    BY <1>2, FoundLocal DEF Word
  <1>5. PICK i \in DOMAIN locals : ficlSystemLookupLocal(n)[1] = locals[i].index
    BY <1>4
  <1>6. PICK index \in Nat : index = locals[i].index
    <2>2. locals[i].index \in 0..(MAX_LOCALS - 1)
      BY <1>2, <1>5, LocalIndexes
    <2> QED
      BY <2>2
  <1>7. PICK e \in Instruction : e = Ins("getlocal", index)
    BY FrameInstructions
  <1>8. PICK d : d = Append(code, e)
    OBVIOUS
  <1>9. d = code'
    BY <1>5, <1>6, <1>7, <1>8 DEF Word, Plainly, Compiles
  <1>10. Kept(code, d) /\ d \in Seq(Instruction) /\ Len(d) = Len(code) + 1
    BY <1>3, <1>8, AppendedIs DEF Appended
  <1>11. done.clean => Framed(d, done.how, localsCount, localsFixup, locals)
    <2> SUFFICES ASSUME done.clean PROVE Framed(d, done.how, localsCount, localsFixup, locals)
      OBVIOUS
    <2>1. Framed(code, done.how, localsCount, localsFixup, locals)
      BY <1>2 DEF InProgress
    <2>2. index < localsCount
      BY <1>4, <1>6, <2>1 DEF Framed
    <2>3. localsCount \in Nat \ {0} /\ d = Append(code, Ins("getlocal", index))
      BY <1>3, <1>4, <1>7, <1>8
    <2> QED
      BY <1>3, <2>1, <2>2, <2>3, FramedGet
  <1>12. localsFixup \in 0..Len(d)
    BY <1>2, <1>3, <1>10 DEF TypeOK
  <1>13. localsFixup # 0 => d[localsFixup].op = "link"
    <2> SUFFICES ASSUME localsFixup # 0 PROVE d[localsFixup].op = "link"
      OBVIOUS
    <2>1. localsFixup \in DOMAIN code /\ code[localsFixup].op = "link"
      BY <1>2, <1>3 DEF TypeOK, InProgress
    <2> QED
      BY <1>10, <2>1 DEF Kept
  <1>14. LocalsPost
    BY <1>1, <1>2, <1>9, <1>10, <1>11, <1>12, <1>13 DEF LocalsPost, TypeOK
  <1> QED
    BY <1>1, <1>14, LocalsKeep

\* does> keeps the invariant.
LEMMA FrameDoes ==
    ASSUME FrameInv, ~wild, Does
    PROVE  FrameInv'
  <1>1. state = "compile" /\ UNCHANGED <<state, opened, stack, wild, done>>
    BY DEF Does
  <1>2. InProgress /\ TypeOK
    BY <1>1 DEF FrameInv
  <1>3. code \in Seq(Instruction) /\ localsCount \in Nat
    BY <1>2, CompileAssumption DEF TypeOK, Code, Instruction
  <1>4. PICK d : d = Leaving(code, localsCount, "does")
    OBVIOUS
  <1>5. PICK e : e = LocalParen(d, 0, 0)
    OBVIOUS
  <1>6. /\ e = code' /\ localsFixup' = Len(d) + 1 /\ localsCount' = 1
        /\ locals' = Append(LocalsAtEnd, [name |-> Dummy, index |-> 0])
    BY <1>4, <1>5 DEF Does, Leaving, Unlink, ficl_init_locals, FixupOf
  <1>7. /\ Kept(code, e) /\ d \in Seq(Instruction)
        /\ Len(d) + 1 \in DOMAIN e /\ e[Len(d) + 1].op = "link"
    BY <1>3, <1>4, <1>5, DoesFrame
  <1>8. localsFixup' \in 0..Len(e) /\ e[localsFixup'].op = "link"
    BY <1>6, <1>7 DEF Kept
  <1>9. locals' \in Seq([name : LocalName \cup {Dummy}, index : 0..(MAX_LOCALS - 1)]) /\ localsCount' \in 0..MAX_LOCALS
    <2>1. PICK r : r = [name |-> Dummy, index |-> 0]
      OBVIOUS
    <2>2. r \in [name : LocalName \cup {Dummy}, index : 0..(MAX_LOCALS - 1)]
      BY <2>1, CompileAssumption
    <2>3. LocalsAtEnd \in Seq([name : LocalName \cup {Dummy}, index : 0..(MAX_LOCALS - 1)])
      BY <1>2 DEF TypeOK, LocalsAtEnd
    <2>4. locals' \in Seq([name : LocalName \cup {Dummy}, index : 0..(MAX_LOCALS - 1)])
      BY <1>6, <2>1, <2>2, <2>3
    <2> QED
      BY <1>6, <2>4, CompileAssumption
  <1>10. ASSUME done.clean
         PROVE  Framed(e, done.how, 1, Len(d) + 1, locals')
    <2>1. Framed(code, done.how, localsCount, localsFixup, locals)
      BY <1>2, <1>10 DEF InProgress
    <2>2. Left(code, d, "does") /\ Kept(code, d)
      BY <1>3, <1>4, <2>1, FramesLeave, LeavingKeeps
    <2>3. Frames(d) /\ LinkIn(d, Len(d) + 1)
      BY <2>2 DEF Left, LinkIn
    <2>4. Begun(d, e)
      BY <1>5, <1>7, <2>3, FramesBegin
    <2>5. LocalsAtEnd = <<>>
      BY <1>3, <2>1 DEF LocalsAtEnd, Framed
    <2>6. \A i \in DOMAIN locals' : locals'[i].index < 1
      BY <1>6, <2>5
    <2>7. done.how # "noname" => d = <<>> \/ d[1].op = "link"
      <3> SUFFICES ASSUME done.how # "noname" PROVE d[1].op = "link"
        OBVIOUS
      <3>1. code # <<>> /\ code[1].op = "link"
        BY <2>1 DEF Framed
      <3>2. 1 \in DOMAIN code
        BY <1>3, <3>1
      <3> QED
        BY <2>2, <3>1, <3>2 DEF Left
    <2>8. PICK ls : ls = locals'
      OBVIOUS
    <2> QED
      BY <1>7, <2>4, <2>6, <2>7, <2>8, FramedBegin
  <1>11. LocalsPost
    BY <1>6, <1>7, <1>8, <1>9, <1>10 DEF LocalsPost
  <1> QED
    BY <1>1, <1>11, LocalsKeep

\* LS is the locals dictionary with a name more.
Added(ls, count) ==
    /\ ls \in Seq([name : LocalName \cup {Dummy}, index : 0..(MAX_LOCALS - 1)])
    /\ Len(ls) = Len(locals) + 1 /\ ls[Len(ls)].index = count /\ DOMAIN ls = 1..Len(ls)
    /\ \A i \in DOMAIN ls : i = Len(ls) \/ (i \in DOMAIN locals /\ ls[i] = locals[i])
\* A name declared (ficlDictionaryAppendWord in the locals dictionary).
LEMMA LocalAdded ==
    ASSUME TypeOK, NEW n \in LocalName \cup {Dummy}, NEW count \in 0..(MAX_LOCALS - 1),
           NEW ls, ls = Append(locals, [name |-> n, index |-> count])
    PROVE  Added(ls, count)
  <1>1. PICK r : r = [name |-> n, index |-> count]
    OBVIOUS
  <1>2. PICK S : S = [name : LocalName \cup {Dummy}, index : 0..(MAX_LOCALS - 1)]
    OBVIOUS
  <1>3. r \in S /\ r.index = count
    BY <1>1, <1>2
  <1>4. locals \in Seq(S)
    BY <1>2 DEF TypeOK
  <1>5. PICK k \in Nat : k = Len(locals)
    BY <1>4
  <1>6. ls \in Seq(S) /\ Len(ls) = k + 1 /\ ls[k + 1] = r /\ DOMAIN locals = 1..k /\ \A i \in 1..k : ls[i] = locals[i]
    BY <1>1, <1>3, <1>4, <1>5
  <1> QED
    BY <1>2, <1>3, <1>5, <1>6 DEF Added

\* A local that is not the first, when an error has left locals behind: there may be no (link) to patch.
LEMMA LocalUnlinked ==
    ASSUME NEW c \in Seq(Instruction), NEW count \in Nat \ {0}
    PROVE  LocalParen(c, count, 0) = Append(c, Ins("tolocal", count))
  BY DEF LocalParen

\* What { n } compiles keeps the code, and the place of the (link) is one.
LEMMA LocalCode ==
    ASSUME NEW c \in Seq(Instruction), NEW count \in Nat, NEW fixup \in 0..Len(c), fixup # 0 => c[fixup].op = "link",
           NEW d, d = LocalParen(c, count, fixup), NEW f, f = FixupOf(c, count, fixup)
    PROVE  Kept(c, d) /\ f \in 0..Len(d) /\ (f # 0 => d[f].op = "link")
  <1>1. CASE count = 0
    <2>1. PICK x \in Instruction, y \in Instruction : x = Ins("link", 1) /\ y = Ins("tolocal", 0) /\ x.op = "link"
      BY FrameInstructions
    <2>2. PICK l : l = Append(c, x)
      OBVIOUS
    <2>3. d = Append(l, y)
      BY <1>1, <2>1, <2>2, LocalParenFirst
    <2>4. Kept(c, l) /\ l \in Seq(Instruction) /\ Len(l) = Len(c) + 1 /\ l[Len(c) + 1] = x
      <3>1. Appended(c, l, x)
        BY <2>2, AppendedIs
      <3> QED
        BY <3>1 DEF Appended
    <2>5. Kept(l, d) /\ d \in Seq(Instruction) /\ Len(d) = Len(l) + 1 /\ \A i \in DOMAIN l : d[i] = l[i]
      <3>1. Appended(l, d, y)
        BY <2>3, <2>4, AppendedIs
      <3> QED
        BY <3>1 DEF Appended
    <2>6. PICK n \in Nat : n = Len(c) + 1
      OBVIOUS
    <2>7. f = n /\ n \in DOMAIN l /\ n <= Len(d)
      BY <1>1, <2>4, <2>5, <2>6 DEF FixupOf
    <2>8. Kept(c, d)
      BY <2>4, <2>5, KeptTwice
    <2>9. d[f].op = "link"
      BY <2>1, <2>4, <2>5, <2>6, <2>7
    <2> QED
      BY <2>5, <2>6, <2>7, <2>8, <2>9
  <1>2. CASE count # 0
    <2>1. PICK y \in Instruction : y = Ins("tolocal", count)
      BY FrameInstructions
    <2>2. f = fixup
      BY <1>2 DEF FixupOf
    <2>3. CASE fixup = 0
      <3>1. d = Append(c, y)
        BY <1>2, <2>1, <2>3, LocalUnlinked
      <3>2. Kept(c, d) /\ d \in Seq(Instruction) /\ Len(d) = Len(c) + 1
        BY <3>1, AppendedIs DEF Appended
      <3> QED
        BY <2>2, <2>3, <3>2
    <2>4. CASE fixup # 0
      <3>1. fixup \in DOMAIN c /\ c[fixup].op = "link" /\ count \in Nat \ {0} /\ count + 1 \in Nat
        BY <1>2, <2>4
      <3>2. PICK x \in Instruction : x = Ins("link", count + 1) /\ x.op = "link"
        BY <3>1, FrameInstructions
      <3>3. PICK l : l = [c EXCEPT ![fixup] = x]
        OBVIOUS
      <3>4. d = Append(l, y)
        BY <2>1, <3>1, <3>2, <3>3, LocalParenNext
      <3>5. l \in Seq(Instruction) /\ Len(l) = Len(c) /\ l[fixup] = x /\ \A i \in DOMAIN c \ {fixup} : l[i] = c[i]
        BY <3>1, <3>3, Overwrite
      <3>6. Kept(c, l)
        <4>1. \A i \in DOMAIN c : l[i].op = c[i].op
          BY <3>1, <3>2, <3>5
        <4> QED
          BY <3>5, <4>1 DEF Kept
      <3>7. Kept(l, d) /\ d \in Seq(Instruction) /\ Len(d) = Len(l) + 1
        BY <3>4, <3>5, AppendedIs DEF Appended
      <3>8. Kept(c, d)
        BY <3>6, <3>7, KeptTwice
      <3>9. d[fixup].op = "link"
        BY <3>1, <3>8 DEF Kept
      <3> QED
        BY <2>2, <3>1, <3>5, <3>7, <3>8, <3>9
    <2> QED
      BY <2>3, <2>4
  <1> QED
    BY <1>1, <1>2

\* { n } keeps the invariant.
LEMMA FrameLocal ==
    ASSUME FrameInv, ~wild, NEW n \in LocalName, Local(n)
    PROVE  FrameInv'
  <1>1. state = "compile" /\ UNCHANGED <<state, opened, stack, wild, done>>
    BY DEF Local
  <1>2. InProgress /\ TypeOK
    BY <1>1 DEF FrameInv
  <1>3. code \in Seq(Instruction) /\ localsCount \in Nat /\ localsCount < MAX_LOCALS /\ localsFixup \in 0..Len(code)
    BY <1>2, CompileAssumption DEF TypeOK, Code, Instruction, Local, LocalRoom
  <1>4. PICK d : d = LocalParen(code, localsCount, localsFixup) /\ d = code'
    BY DEF Local
  <1>5. PICK f : f = FixupOf(code, localsCount, localsFixup) /\ f = localsFixup'
    BY DEF Local
  <1>6. Kept(code, d) /\ f \in 0..Len(d) /\ (f # 0 => d[f].op = "link")
    BY <1>2, <1>3, <1>4, <1>5, LocalCode DEF InProgress
  <1>7. PICK count \in Nat : count = localsCount
    BY <1>3
  <1>8. PICK ls : ls = Append(locals, [name |-> n, index |-> count]) /\ ls = locals'
    BY <1>7 DEF Local
  <1>9. Added(ls, count)
    <2>1. count \in 0..(MAX_LOCALS - 1)
      BY <1>3, <1>7, CompileAssumption
    <2> QED
      BY <1>2, <1>3, <1>8, <2>1, LocalAdded
  <1>10. localsCount' = count + 1 /\ localsCount' \in 0..MAX_LOCALS
    BY <1>3, <1>7, CompileAssumption DEF Local
  <1>11. ASSUME done.clean
         PROVE  Framed(d, done.how, count + 1, f, ls)
    <2>1. Framed(code, done.how, count, localsFixup, locals)
      BY <1>2, <1>7, <1>11 DEF InProgress
    <2>2. \A i \in DOMAIN ls : ls[i].index < count + 1
      <3>1. \A i \in DOMAIN locals : locals[i].index < count /\ locals[i].index \in Nat
        <4>3. \A i \in DOMAIN locals : locals[i].index \in 0..(MAX_LOCALS - 1)
          BY <1>2, LocalIndexes
        <4>4. count = 0 => locals = <<>>
          BY <2>1 DEF Framed
        <4>5. count # 0 => \A i \in DOMAIN locals : locals[i].index < count
          BY <2>1 DEF Framed
        <4> QED
          BY <4>3, <4>4, <4>5
      <3>2. \A i \in DOMAIN ls : ls[i].index = count \/ (i \in DOMAIN locals /\ ls[i].index = locals[i].index)
        BY <1>9 DEF Added
      <3> QED
        BY <3>1, <3>2
    <2>3. CASE count = 0
      <3>1. Frames(code) /\ LinkIn(code, Len(code) + 1)
        BY <2>1, <2>3 DEF Framed, LinkIn
      <3>2. d = LocalParen(code, 0, 0)
        <4>1. PICK l : l = Append(code, Ins("link", 1))
          OBVIOUS
        <4>2. LocalParen(code, 0, localsFixup) = LocalParen(code, 0, 0)
          BY <1>3, <4>1, LocalParenFirst
        <4> QED
          BY <1>4, <1>7, <2>3, <4>2
      <3>3. Begun(code, d)
        BY <1>3, <3>1, <3>2, FramesBegin
      <3>4. f = Len(code) + 1 /\ count + 1 = 1
        BY <1>5, <1>7, <2>3 DEF FixupOf
      <3>5. \A i \in DOMAIN ls : ls[i].index < 1
        BY <2>2, <3>4
      <3>6. done.how # "noname" => code = <<>> \/ code[1].op = "link"
        BY <2>1 DEF Framed
      <3>7. Framed(d, done.how, 1, Len(code) + 1, ls)
        BY <1>3, <3>3, <3>5, <3>6, FramedBegin
      <3> QED
        BY <3>4, <3>7
    <2>4. CASE count # 0
      <3>1. f = localsFixup /\ count \in Nat \ {0}
        BY <1>5, <1>7, <2>4 DEF FixupOf
      <3>2. d = LocalParen(code, count, localsFixup)
        BY <1>4, <1>7
      <3>3. Framed(d, done.how, count + 1, localsFixup, ls)
        BY <1>3, <2>1, <2>2, <3>1, <3>2, FramedStore
      <3> QED
        BY <3>1, <3>3
    <2> QED
      BY <2>3, <2>4
  <1>12. LocalsPost
    BY <1>4, <1>5, <1>6, <1>8, <1>9, <1>10, <1>11 DEF LocalsPost, Added
  <1> QED
    BY <1>1, <1>12, LocalsKeep

-----------------------------------------------------------------------------
(* Where a definition begins and ends. *)

\* The cells : lambda: and :noname leave are a group, or two.
LEMMA FirstGroups ==
    ASSUME NEW c, NEW s, s = <<Tag("colon")>> \/ s = <<Xt, Tag("colon")>>
    PROVE  Typed(s, c) /\ Groups(s, c)
  <1>1. Tag("colon") \in Cell /\ Xt \in Cell /\ Tag("colon")[1] = "tag" /\ Tag("colon")[2] = "colon" /\ Xt[1] = "xt"
    BY CellsPushed, CellParts
  <1>2. "colon" \notin Forward \cup Back /\ "colon" # "case"
    BY DEF Forward, Back
  <1>3. CASE s = <<Tag("colon")>>
    <2>1. s \in Seq(Cell) /\ Len(s) = 1 /\ s[1] = Tag("colon")
      BY <1>1, <1>3
    <2>2. \A i \in DOMAIN s : s[i][1] # "addr"
      BY <1>1, <2>1
    <2>3. \A k \in 1..1 : k = 1
      OBVIOUS
    <2>4. GroupAt(s, c, 0, 1)
      BY <1>1, <1>2, <2>1 DEF GroupAt
    <2>5. Grouped(s, c, 0)
      BY <1>1, <2>1, <2>3, <2>4 DEF Grouped, Ends
    <2> QED
      BY <2>1, <2>2, <2>5 DEF Typed, Groups
  <1>4. CASE s = <<Xt, Tag("colon")>>
    <2>1. s \in Seq(Cell) /\ Len(s) = 2 /\ s[1] = Xt /\ s[2] = Tag("colon")
      BY <1>1, <1>4
    <2>2. \A i \in DOMAIN s : s[i][1] # "addr"
      <3>1. \A i \in 1..2 : i = 1 \/ i = 2
        OBVIOUS
      <3> QED
        BY <1>1, <2>1, <3>1
    <2>3. \A k \in 1..2 : k = 1 \/ k = 2
      OBVIOUS
    <2>4. GroupAt(s, c, 0, 2)
      <3>1. s[2 - 1] = Xt /\ 2 - 2 >= 0 /\ Ends(s, 2 - 2)
        BY <2>1 DEF Ends
      <3> QED
        BY <1>1, <1>2, <2>1, <3>1 DEF GroupAt
    <2>5. Grouped(s, c, 0)
      BY <1>1, <2>1, <2>3, <2>4 DEF Grouped, Ends
    <2> QED
      BY <2>1, <2>2, <2>5 DEF Typed, Groups
  <1> QED
    BY <1>3, <1>4

\* No code has no frames.
LEMMA NoFrames ==
    LET c == <<>> IN Frames(c) /\ LinkAt(c, Len(c) + 1) = 0 /\ LinkIn(c, Len(c) + 1)
  <1>1. PICK c : c = <<>>
    OBVIOUS
  <1>2. Frames(c)
    BY <1>1 DEF Frames
  <1>3. Len(c) + 1 = 1 /\ ~\E j \in 1..(1 - 1) : TRUE
    BY <1>1
  <1>4. OpenLinks(c, Len(c) + 1) = {}
    BY <1>3 DEF OpenLinks, Places
  <1>5. LinkAt(c, Len(c) + 1) = 0
    BY <1>4, LinkNone
  <1> QED
    BY <1>1, <1>2, <1>5 DEF LinkIn

\* What is known of a definition that begins.
LEMMA DoneBegins ==
    ASSUME DoneType, NEW how \in {"colon", "lambda", "noname"}, NEW b \in BOOLEAN,
           done' = [None EXCEPT !.how = how, !.found = <<>>, !.clean = b]
    PROVE  /\ DoneType' /\ done'.code = <<>> /\ done'.how = how /\ done'.clean = b
           /\ done'.found = <<>> /\ done'.loose = FALSE
  <1>1. /\ done'.how = how /\ done'.found = <<>> /\ done'.clean = b /\ done'.loose = FALSE
        /\ done'.code = <<>> /\ done'.left = <<>>
    BY DEF None
  <1>2. PICK r : r = [how |-> how, found |-> <<>>, clean |-> b, loose |-> FALSE, code |-> <<>>, left |-> <<>>]
    OBVIOUS
  <1>3. done' = r
    <2>1. PICK z : z = <<>>
      OBVIOUS
    <2>2. None = [how |-> "none", found |-> z, clean |-> TRUE, loose |-> FALSE, code |-> z, left |-> z]
      BY <2>1 DEF None
    <2>3. r = [how |-> how, found |-> z, clean |-> b, loose |-> FALSE, code |-> z, left |-> z]
      BY <1>2, <2>1
    <2>4. done' = [None EXCEPT !.how = how, !.found = z, !.clean = b]
      BY <2>1
    <2> QED
      BY <2>2, <2>3, <2>4
  <1>4. r \in [how : {"none", "colon", "lambda", "noname"}, found : Seq(Cell), clean : BOOLEAN,
               loose : BOOLEAN, code : Seq(Instruction), left : Seq(Cell)]
    <2>1. <<>> \in Seq(Cell) /\ <<>> \in Seq(Instruction)
      OBVIOUS
    <2>2. how \in {"none", "colon", "lambda", "noname"} /\ FALSE \in BOOLEAN
      OBVIOUS
    <2> QED
      BY <1>2, <2>1, <2>2
  <1> QED
    BY <1>1, <1>3, <1>4 DEF DoneType

\* What : and lambda: leave on the stack.
LEMMA ColonStack ==
    ASSUME NEW how \in {"colon", "lambda"}, Colon(how, <<>>)
    PROVE  stack' = IF how = "lambda" THEN <<Xt, Tag("colon")>> ELSE <<Tag("colon")>>
  <1>1. PICK x, y : x = Xt /\ y = Tag("colon")
    OBVIOUS
  <1>2. stack' = <<>> \o (IF how = "lambda" THEN <<x>> ELSE <<>>) \o <<y>>
    BY <1>1 DEF Colon
  <1>3. stack' = IF how = "lambda" THEN <<x, y>> ELSE <<y>>
    <2>1. x \in Cell /\ y \in Cell /\ <<x>> \in Seq(Cell) /\ <<y>> \in Seq(Cell)
      BY <1>1, CellsPushed
    <2>2. CASE how = "lambda"
      <3>1. stack' = <<x>> \o <<y>>
        BY <1>2, <2>1, <2>2
      <3>2. PICK p, q, t, u : p = <<x>> /\ q = <<y>> /\ t = stack' /\ u = <<x, y>> /\ t = p \o q
        BY <3>1
      <3>3. p \in Seq(Cell) /\ q \in Seq(Cell) /\ Len(p) = 1 /\ Len(q) = 1 /\ p[1] = x /\ q[1] = y
        BY <2>1, <3>2
      <3>4. u \in Seq(Cell) /\ Len(u) = 2 /\ u[1] = x /\ u[2] = y
        BY <2>1, <3>2
      <3>5. t \in Seq(Cell) /\ Len(t) = 2 /\ t[1] = x /\ t[2] = y
        BY <3>2, <3>3
      <3>6. \A i \in 1..2 : t[i] = u[i]
        <4>1. \A i \in 1..2 : i = 1 \/ i = 2
          OBVIOUS
        <4> QED
          BY <3>4, <3>5, <4>1
      <3>7. t = u
        BY <3>4, <3>5, <3>6
      <3> QED
        BY <2>2, <3>2, <3>7
    <2>3. CASE how # "lambda"
      <3>1. stack' = <<>> \o <<y>>
        BY <1>2, <2>1, <2>3
      <3>2. <<>> \o <<y>> = <<y>>
        BY <2>1
      <3> QED
        BY <2>3, <3>1, <3>2
    <2> QED
      BY <2>2, <2>3
  <1> QED
    BY <1>1, <1>3

\* : and lambda: begin a definition with a frame.
LEMMA FrameColon ==
    ASSUME FrameInv, ~wild, NEW how \in {"colon", "lambda"}, Colon(how, <<>>)
    PROVE  FrameInv'
  <1>1. TypeOK /\ DoneType
    BY DEF FrameInv
  <1>2. PICK b \in BOOLEAN : b = (locals = <<>> /\ (how = "noname" => localsCount = 0))
    OBVIOUS
  <1>3. DoneType' /\ done'.code = <<>> /\ done'.how = how /\ done'.clean = b
    <2>1. done' = [None EXCEPT !.how = how, !.found = <<>>, !.clean = b]
      BY <1>2 DEF Colon, Begin
    <2> QED
      BY <1>1, <2>1, DoneBegins
  <1>4. PICK s : s = stack' /\ (s = <<Tag("colon")>> \/ s = <<Xt, Tag("colon")>>)
    BY ColonStack
  <1>5. PICK c : c = code' /\ c = LocalParen(<<>>, 0, 0)
    BY DEF Colon, ficl_init_locals
  <1>6. Begun(<<>>, c)
    <2>1. PICK z : z = <<>>
      OBVIOUS
    <2>2. Frames(z) /\ LinkIn(z, Len(z) + 1) /\ z \in Seq(Instruction)
      BY <2>1, NoFrames
    <2> QED
      BY <1>5, <2>1, <2>2, FramesBegin
  <1>7. c \in Seq(Instruction) /\ Len(c) = 2 /\ c[1].op = "link"
    <2>1. Len(<<>>) = 0
      OBVIOUS
    <2> QED
      BY <1>6, <2>1, FrameInstructions DEF Begun, Kept
  <1>8. localsFixup' = 1 /\ localsCount' = 1
    BY DEF Colon, FixupOf
  <1>9. PICK ls : ls = locals' /\ ls = Append(locals, [name |-> Dummy, index |-> 0])
    BY DEF Colon
  <1>10. Added(ls, 0)
    <2>1. Dummy \in LocalName \cup {Dummy} /\ 0 \in 0..(MAX_LOCALS - 1)
      BY CompileAssumption
    <2> QED
      BY <1>1, <1>9, <2>1, LocalAdded
  <1>11. ASSUME b
         PROVE  Framed(c, how, 1, 1, ls)
    <2>1. locals = <<>>
      BY <1>2, <1>11
    <2>2. \A i \in DOMAIN ls : ls[i].index < 1
      BY <1>10, <2>1 DEF Added
    <2>3. PICK z : z = <<>>
      OBVIOUS
    <2>4. z \in Seq(Instruction) /\ Len(z) + 1 = 1 /\ Begun(z, c)
      BY <1>6, <2>3
    <2>5. Framed(c, how, 1, Len(z) + 1, ls)
      BY <2>2, <2>3, <2>4, FramedBegin
    <2> QED
      BY <2>4, <2>5
  <1>12. Typed(s, c) /\ Groups(s, c)
    BY <1>4, FirstGroups
  <1>13. TypeOK'
    <2>1. state' = "compile" /\ opened' = how /\ wild' = wild
      BY DEF Colon, Begin
    <2>2. c \in Code
      BY <1>7 DEF Code, Instruction
    <2>3. localsCount' \in 0..MAX_LOCALS /\ localsFixup' \in 0..Len(c)
      BY <1>7, <1>8, CompileAssumption
    <2> QED
      BY <1>1, <1>4, <1>5, <1>9, <1>10, <1>12, <2>1, <2>2, <2>3 DEF TypeOK, Typed, Added, here
  <1>14. InProgress'
    BY <1>3, <1>4, <1>5, <1>7, <1>8, <1>9, <1>11, <1>12 DEF InProgress
  <1>15. FramesMatch'
    BY <1>3 DEF FramesMatch, Accepted
  <1> QED
    BY <1>3, <1>13, <1>14, <1>15 DEF FrameInv

\* :noname begins a definition without a frame.
LEMMA FrameNoName ==
    ASSUME FrameInv, ~wild, NoName(<<>>)
    PROVE  FrameInv'
  <1>1. TypeOK /\ DoneType
    BY DEF FrameInv
  <1>2. PICK b \in BOOLEAN : b = (locals = <<>> /\ ("noname" = "noname" => localsCount = 0))
    OBVIOUS
  <1>3. DoneType' /\ done'.code = <<>> /\ done'.how = "noname" /\ done'.clean = b
    <2>1. done' = [None EXCEPT !.how = "noname", !.found = <<>>, !.clean = b]
      BY <1>2 DEF NoName, Begin
    <2> QED
      BY <1>1, <2>1, DoneBegins
  <1>4. PICK s : s = stack' /\ s = <<Xt, Tag("colon")>>
    BY DEF NoName
  <1>5. PICK c : c = code' /\ c = <<>>
    BY DEF NoName
  <1>6. localsFixup' = 0 /\ localsCount' = localsCount /\ locals' = locals /\ state' = "compile" /\ opened' = "noname"
        /\ wild' = wild
    BY DEF NoName, Begin
  <1>7. b => Framed(c, "noname", localsCount, 0, locals)
    BY <1>2, <1>5, NoFrames DEF Framed
  <1>8. Typed(s, c) /\ Groups(s, c)
    BY <1>4, FirstGroups
  <1>9. TypeOK'
    <2>1. c \in Code /\ 0 \in 0..Len(c)
      BY <1>5 DEF Code
    <2> QED
      BY <1>1, <1>4, <1>5, <1>6, <1>8, <2>1 DEF TypeOK, Typed, here
  <1>10. InProgress'
    BY <1>3, <1>4, <1>5, <1>6, <1>7, <1>8 DEF InProgress
  <1>11. FramesMatch'
    BY <1>3 DEF FramesMatch, Accepted
  <1> QED
    BY <1>3, <1>9, <1>10, <1>11 DEF FrameInv

\* No definition in progress.
LEMMA AtRest ==
    ASSUME TypeOK, state' = "interpret", opened' = "none", code' = <<>>, stack' = <<>>, localsFixup' = 0,
           localsCount' \in 0..MAX_LOCALS, wild' = wild,
           locals' \in {<<>>, locals}
    PROVE  TypeOK'
  <1>1. locals' \in Seq([name : LocalName \cup {Dummy}, index : 0..(MAX_LOCALS - 1)])
    <2>1. PICK S : S = [name : LocalName \cup {Dummy}, index : 0..(MAX_LOCALS - 1)]
      OBVIOUS
    <2>2. locals \in Seq(S) /\ <<>> \in Seq(S)
      BY <2>1 DEF TypeOK
    <2> QED
      BY <2>1, <2>2
  <1>2. code' \in Code /\ 0 \in 0..Len(code')
    BY DEF Code
  <1>3. stack' \in Seq(Cell) /\ DOMAIN stack' = {}
    OBVIOUS
  <1> QED
    BY <1>1, <1>2, <1>3 DEF TypeOK, here

\* ; leaves the frame and accepts the definition.
LEMMA FrameSemicolon ==
    ASSUME FrameInv, ~wild, Semicolon
    PROVE  FrameInv'
  <1>1. InProgress /\ TypeOK /\ DoneType
    BY DEF FrameInv, Semicolon
  <1>2. code \in Seq(Instruction) /\ localsCount \in Nat /\ stack \in Seq(Cell)
    BY <1>1, CompileAssumption DEF TypeOK, Code, Instruction
  <1>3. PICK d : d = Leaving(code, localsCount, "semi")
    OBVIOUS
  <1>4. Kept(code, d) /\ Len(code) < Len(d) /\ d \in Seq(Instruction)
    BY <1>2, <1>3, LeavingKeeps DEF Kept
  <1>5. PICK left : left = Below(1)
    OBVIOUS
  <1>6. left \in Seq(Cell)
    <2>1. PICK n \in Nat : n = Len(stack) /\ n > 0
      BY <1>2 DEF Semicolon, SemicolonTag, Matches
    <2>2. left = SubSeq(stack, 1, n - 1) /\ n - 1 \in 0..Len(stack)
      BY <1>5, <2>1 DEF Below
    <2> QED
      BY <1>2, <2>2, DropSome DEF Dropped
  <1>7. done' = [done EXCEPT !.code = d, !.left = left]
    BY <1>3, <1>5 DEF Semicolon, Leaving, Unlink
  <1>8. DoneType' /\ done'.code = d /\ done'.clean = done.clean /\ done'.how = done.how
    BY <1>1, <1>4, <1>6, <1>7 DEF DoneType
  <1>9. TypeOK'
    <2>1. localsCount' = 0 /\ 0 \in 0..MAX_LOCALS /\ locals' \in {<<>>, locals}
      BY CompileAssumption DEF Semicolon, LocalsAtEnd
    <2> QED
      BY <1>1, <2>1, AtRest DEF Semicolon
  <1>10. FramesMatch'
    <2> SUFFICES ASSUME done.clean
                 PROVE  /\ done.how # "noname" => d[1].op = "link"
                        /\ \A i \in DOMAIN d : FrameRight(d, i)
      BY <1>8 DEF FramesMatch, FrameRight
    <2>1. Framed(code, done.how, localsCount, localsFixup, locals)
      BY <1>1 DEF InProgress
    <2>2. Left(code, d, "semi")
      BY <1>2, <1>3, <2>1, FramesLeave
    <2>3. done.how # "noname" => d[1].op = "link"
      <3> SUFFICES ASSUME done.how # "noname" PROVE d[1].op = "link"
        OBVIOUS
      <3>1. code # <<>> /\ code[1].op = "link"
        BY <2>1 DEF Framed
      <3>2. 1 \in DOMAIN code
        BY <1>2, <3>1
      <3> QED
        BY <2>2, <3>1, <3>2 DEF Left
    <2> QED
      BY <2>2, <2>3 DEF Left, Frames
  <1>11. state' = "interpret"
    BY DEF Semicolon
  <1> QED
    BY <1>8, <1>9, <1>10, <1>11 DEF FrameInv

\* Nothing is known when nothing is defined.
LEMMA NoneIs ==
    /\ None.code = <<>>
    /\ None \in [how : {"none", "colon", "lambda", "noname"}, found : Seq(Cell), clean : BOOLEAN,
                 loose : BOOLEAN, code : Seq(Instruction), left : Seq(Cell)]
  <1>1. <<>> \in Seq(Cell) /\ <<>> \in Seq(Instruction)
    OBVIOUS
  <1> QED
    BY <1>1 DEF None

\* An error gives the definition up.
LEMMA FrameError ==
    ASSUME FrameInv, ~wild, NEW at, Error(at)
    PROVE  FrameInv'
  <1>1. TypeOK
    BY DEF FrameInv
  <1>2. DoneType' /\ done'.code = <<>> /\ state' = "interpret"
    BY NoneIs DEF DoneType, Error
  <1>3. TypeOK'
    <2>1. localsCount' \in 0..MAX_LOCALS /\ locals' \in {<<>>, locals}
      BY <1>1 DEF TypeOK, Error
    <2> QED
      BY <1>1, <2>1, AtRest DEF Error
  <1>4. FramesMatch'
    BY <1>2 DEF FramesMatch, Accepted
  <1> QED
    BY <1>2, <1>3, <1>4 DEF FrameInv

\* The compiler begins with nothing defined.
LEMMA FrameInit ==
    ASSUME Init
    PROVE  FrameInv
  <1>1. done.code = <<>> /\ DoneType /\ state = "interpret"
    BY NoneIs DEF Init, DoneType
  <1>2. TypeOK
    <2>1. code \in Code /\ stack \in Seq(Cell) /\ DOMAIN stack = {} /\ 0 \in 0..Len(code)
      BY DEF Init, Code
    <2>2. locals \in Seq([name : LocalName \cup {Dummy}, index : 0..(MAX_LOCALS - 1)])
      <3>1. PICK S : S = [name : LocalName \cup {Dummy}, index : 0..(MAX_LOCALS - 1)]
        OBVIOUS
      <3>2. <<>> \in Seq(S)
        OBVIOUS
      <3> QED
        BY <3>1, <3>2 DEF Init
    <2>3. 0 \in 0..MAX_LOCALS
      BY CompileAssumption
    <2> QED
      BY <2>1, <2>2, <2>3 DEF Init, TypeOK
  <1> QED
    BY <1>1, <1>2, NotAccepted DEF FrameInv

\* No step changes the invariant that sees none of its variables change.
LEMMA FrameStutter ==
    ASSUME FrameInv, UNCHANGED vars
    PROVE  FrameInv'
  <1>1. UNCHANGED <<state, opened, code, stack, localsCount, locals, localsFixup, wild, done>>
    BY DEF vars
  <1>2. TypeOK' = TypeOK /\ DoneType' = DoneType /\ InProgress' = InProgress
    BY <1>1 DEF TypeOK, DoneType, InProgress, here
  <1>3. FramesMatch' = FramesMatch
    BY <1>1 DEF FramesMatch, Accepted
  <1> QED
    BY <1>1, <1>2, <1>3 DEF FrameInv

\* Every word, and every error, keeps the invariant.
LEMMA FrameStep ==
    ASSUME FrameInv, [Next]_vars
    PROVE  FrameInv'
  <1>1. CASE UNCHANGED vars
    BY <1>1, FrameStutter
  <1>2. CASE Next
    <2>1. ~wild /\ Step
      BY <1>2 DEF Next
    <2>2. CASE Colon("colon", <<>>) \/ Colon("lambda", <<>>)
      BY <2>1, <2>2, FrameColon
    <2>3. CASE NoName(<<>>)
      BY <2>1, <2>3, FrameNoName
    <2>4. CASE Semicolon
      BY <2>1, <2>4, FrameSemicolon
    <2>5. CASE \E at \in {"compile", "interpret"} : Error(at)
      BY <2>1, <2>5, FrameError
    <2>6. CASE StructureWord
      BY <2>1, <2>6, FrameStructure
    <2>7. CASE Exit
      BY <2>1, <2>7, FrameExit
    <2>8. CASE Does
      BY <2>1, <2>8, FrameDoes
    <2>9. CASE \E n \in LocalName : Local(n) \/ Word(n)
      BY <2>1, <2>9, FrameLocal, FrameWord
    <2> QED
      BY <2>1, <2>2, <2>3, <2>4, <2>5, <2>6, <2>7, <2>8, <2>9 DEF Step, StructureWord
  <1> QED
    BY <1>1, <1>2

-----------------------------------------------------------------------------
(* Branches, while no while stands outside of begin. *)

Waiting(c) == {i \in DOMAIN c : IsBranch(c, i) /\ c[i].to = Open}
Resolved(c) == {i \in DOMAIN c : IsBranch(c, i) /\ c[i].to # Open}
Dos(c, as) == {d \in as : c[d].op = "do"}
\* Where a resolved branch goes; behind the last instruction is where the next one will be.
RightSoFar(c, i) ==
    LET to == c[i].to IN
    /\ to \in 1..(Len(c) + 1)
    /\ c[i].op \in {"if", "else", "while", "do", "of", "endof", "fallthrough"} => to > i
    /\ c[i].op \in {"until", "repeat", "loop"} => to <= i
    /\ c[i].op = "do" => c[to - 1] = Ins("loop", i + 1)
    /\ c[i].op = "of" => c[to - 1].op \in {"endof", "fallthrough"}
    /\ c[i].op = "endof" => c[to - 1].op = "drop"
    /\ c[i].op = "fallthrough" => c[to - 1].op \in {"of", "drop"}
\* The body of a do loop that has been closed, and a place that is in none.
Body(c, d) == (d + 1)..(c[d].to - 1)
Outside(c, a) == \A d \in Dos(c, Resolved(c)) : a \notin Body(c, d)
\* Bodies are closed, a branch that waits is in none, and nothing goes into the body of a do that waits.
Closed(c) == \A d \in Dos(c, Resolved(c)) : \A i \in Resolved(c) \ {d} : i \in Body(c, d) <=> c[i].to \in Body(c, d)
Apart(c) ==
    \A d \in Dos(c, Waiting(c)), i \in Resolved(c) : (i > d => c[i].to > d) /\ (i < d => c[i].to <= d)
CodeRight(c) ==
    /\ \A i \in Resolved(c) : RightSoFar(c, i)
    /\ Closed(c)
    /\ \A i \in Waiting(c) : Outside(c, i)
    /\ Apart(c)

\* D has the bodies that C has.
SameBodies(c, d) == \A a \in Nat : Outside(c, a) => Outside(d, a)

\* What an instruction of a definition is.
LEMMA Instructions ==
    ASSUME NEW c \in Seq(Instruction)
    PROVE  /\ Len(c) \in Nat /\ DOMAIN c = 1..Len(c)
           /\ \A i \in DOMAIN c : c[i] \in Instruction /\ c[i].to \in Nat /\ i \in Nat \ {0} /\ i <= Len(c)
  <1>1. Len(c) \in Nat /\ DOMAIN c = 1..Len(c) /\ \A i \in DOMAIN c : c[i] \in Instruction
    OBVIOUS
  <1>2. \A e \in Instruction : e.to \in Nat
    BY DEF Instruction
  <1>3. PICK n \in Nat : n = Len(c)
    BY <1>1
  <1>4. \A i \in 1..n : i \in Nat \ {0} /\ i <= n
    OBVIOUS
  <1> QED
    BY <1>1, <1>2, <1>3, <1>4

\* The body of a closed do is inside of the code.
LEMMA BodyInside ==
    ASSUME NEW c \in Seq(Instruction), NEW n \in Nat, n = Len(c), NEW d \in Dos(c, Resolved(c)), RightSoFar(c, d)
    PROVE  /\ d \in 1..n /\ c[d].to \in (d + 1)..(n + 1) /\ c[d].to - 1 \in DOMAIN c
           /\ \A i \in Body(c, d) : i \in 1..n /\ i > d /\ i < c[d].to
  <1>1. d \in DOMAIN c /\ c[d].op = "do"
    BY DEF Dos, Resolved
  <1>2. DOMAIN c = 1..n /\ d \in 1..n
    BY <1>1
  <1>3. PICK t : t = c[d].to
    OBVIOUS
  <1>4. t \in 1..(n + 1) /\ t > d
    BY <1>1, <1>3 DEF RightSoFar
  <1>5. Body(c, d) = (d + 1)..(t - 1)
    BY <1>3 DEF Body
  <1>6. \A i \in (d + 1)..(t - 1) : i \in 1..n /\ i > d /\ i < t
    BY <1>2, <1>4
  <1> QED
    BY <1>2, <1>3, <1>4, <1>5, <1>6

\* The resolved branches of code to which an instruction has been compiled.
Grown(c, d, e) ==
    /\ Resolved(d) = IF e.op \in Branches /\ e.to # Open THEN Resolved(c) \cup {Len(c) + 1} ELSE Resolved(c)
    /\ Waiting(d) = IF e.op \in Branches /\ e.to = Open THEN Waiting(c) \cup {Len(c) + 1} ELSE Waiting(c)
\* Compiling an instruction resolves no branch that waits, and at most adds the new one.
LEMMA GrownIs ==
    ASSUME NEW c \in Seq(Instruction), NEW e \in Instruction, NEW d, Appended(c, d, e)
    PROVE  Grown(c, d, e)
  <1>1. PICK n \in Nat : n = Len(c) /\ DOMAIN c = 1..n
    BY Instructions
  <1>2. d \in Seq(Instruction) /\ Len(d) = n + 1 /\ d[n + 1] = e /\ \A i \in 1..n : d[i] = c[i]
    BY <1>1 DEF Appended
  <1>3. DOMAIN d = 1..(n + 1) /\ n + 1 \in 1..(n + 1) /\ n + 1 \notin 1..n /\ \A i \in 1..(n + 1) : i \in 1..n \/ i = n + 1
    BY <1>2
  <1>4. \A i \in 1..n : (IsBranch(d, i) <=> IsBranch(c, i))
    BY <1>2 DEF IsBranch
  <1>5. IsBranch(d, n + 1) <=> e.op \in Branches
    BY <1>2 DEF IsBranch
  <1>6. \A i : i \in Resolved(d) <=> i \in Resolved(c) \/ (i = n + 1 /\ e.op \in Branches /\ e.to # Open)
    <2>1. \A i \in 1..n : i \in Resolved(d) <=> i \in Resolved(c)
      BY <1>1, <1>2, <1>3, <1>4 DEF Resolved
    <2>2. n + 1 \in Resolved(d) <=> e.op \in Branches /\ e.to # Open
      BY <1>2, <1>3, <1>5 DEF Resolved
    <2>3. Resolved(c) \subseteq 1..n /\ Resolved(d) \subseteq 1..(n + 1)
      BY <1>1, <1>3 DEF Resolved
    <2> QED
      BY <1>3, <2>1, <2>2, <2>3
  <1>7. \A i : i \in Waiting(d) <=> i \in Waiting(c) \/ (i = n + 1 /\ e.op \in Branches /\ e.to = Open)
    <2>1. \A i \in 1..n : i \in Waiting(d) <=> i \in Waiting(c)
      BY <1>1, <1>2, <1>3, <1>4 DEF Waiting
    <2>2. n + 1 \in Waiting(d) <=> e.op \in Branches /\ e.to = Open
      BY <1>2, <1>3, <1>5 DEF Waiting
    <2>3. Waiting(c) \subseteq 1..n /\ Waiting(d) \subseteq 1..(n + 1)
      BY <1>1, <1>3 DEF Waiting
    <2> QED
      BY <1>3, <2>1, <2>2, <2>3
  <1> QED
    BY <1>1, <1>6, <1>7 DEF Grown

\* What may be compiled: a branch that goes back must not leave the body it is in.
MayGoBack(c, e) ==
    e.op \in Branches /\ e.to # Open =>
        /\ e.op \in {"until", "repeat", "loop"} /\ e.to \in 1..(Len(c) + 1) /\ Outside(c, e.to)
        /\ \A x \in Dos(c, Waiting(c)) : x < e.to

\* An instruction compiled: nothing that is a branch, a branch that waits, or one that goes back.
LEMMA AppendRight ==
    ASSUME NEW c \in Seq(Instruction), CodeRight(c), NEW e \in Instruction, MayGoBack(c, e),
           NEW d, Appended(c, d, e)
    PROVE  CodeRight(d) /\ SameBodies(c, d)
  <1>1. PICK n \in Nat, m \in Nat : n = Len(c) /\ m = n + 1 /\ DOMAIN c = 1..n
    BY Instructions
  <1>2. d \in Seq(Instruction) /\ Len(d) = m /\ d[m] = e /\ \A i \in 1..n : d[i] = c[i]
    BY <1>1 DEF Appended
  <1>3. /\ DOMAIN d = 1..m /\ m \notin 1..n /\ \A i \in 1..n : i \in Nat /\ i < m
        /\ e.to \in Nat
    BY <1>1, <1>2 DEF Instruction
  <1>4. /\ Resolved(d) = IF e.op \in Branches /\ e.to # Open THEN Resolved(c) \cup {m} ELSE Resolved(c)
        /\ Waiting(d) = IF e.op \in Branches /\ e.to = Open THEN Waiting(c) \cup {m} ELSE Waiting(c)
    BY <1>1, GrownIs DEF Grown
  <1>5. Resolved(c) \subseteq 1..n /\ Waiting(c) \subseteq 1..n
    BY <1>1 DEF Resolved, Waiting
  <1>6. ASSUME e.op \in Branches, e.to # Open
        PROVE  /\ e.op \in {"until", "repeat", "loop"} /\ e.to \in 1..m /\ Outside(c, e.to)
               /\ \A x \in Dos(c, Waiting(c)) : x < e.to
    BY <1>1, <1>6 DEF MayGoBack
  <1>7. Dos(d, Resolved(d)) = Dos(c, Resolved(c))
    <2>1. \A x \in Resolved(c) : d[x] = c[x]
      BY <1>2, <1>5
    <2>2. m \in Resolved(d) => d[m].op # "do"
      BY <1>2, <1>3, <1>4, <1>5, <1>6
    <2> QED
      BY <1>4, <2>1, <2>2 DEF Dos
  <1>8. ASSUME NEW x \in Dos(c, Resolved(c))
        PROVE  Body(d, x) = Body(c, x) /\ Body(c, x) \subseteq 1..n /\ x \in 1..n
    <2>1. x \in Resolved(c)
      BY DEF Dos
    <2>2. RightSoFar(c, x)
      BY <2>1 DEF CodeRight
    <2>3. Body(c, x) \subseteq 1..n
      BY <1>1, <2>2, BodyInside
    <2>4. d[x] = c[x]
      BY <1>2, <1>5, <2>1
    <2> QED
      BY <1>5, <2>1, <2>3, <2>4 DEF Body
  <1>9. SameBodies(c, d)
    BY <1>7, <1>8 DEF SameBodies, Outside
  <1>10. ASSUME NEW i \in Resolved(c)
         PROVE  RightSoFar(d, i) /\ d[i] = c[i] /\ c[i].to \in 1..m
    <2>1. RightSoFar(c, i) /\ i \in 1..n /\ d[i] = c[i]
      BY <1>2, <1>5 DEF CodeRight
    <2>2. PICK t : t = c[i].to
      OBVIOUS
    <2>3. t \in 1..m
      BY <1>1, <2>1, <2>2 DEF RightSoFar
    <2>4. t > i => t - 1 \in 1..n /\ d[t - 1] = c[t - 1]
      BY <1>1, <1>2, <2>1, <2>3
    <2>5. c[i].op \in {"do", "of", "endof", "fallthrough"} => t > i
      BY <2>1, <2>2 DEF RightSoFar
    <2>6. t \in 1..(Len(d) + 1)
      BY <1>2, <2>3
    <2> QED
      BY <2>1, <2>2, <2>3, <2>4, <2>5, <2>6 DEF RightSoFar
  <1>11. \A i \in Resolved(d) : RightSoFar(d, i)
    <2>1. ASSUME m \in Resolved(d)
          PROVE  RightSoFar(d, m)
      <3>1. e.op \in {"until", "repeat", "loop"} /\ e.to \in 1..m
        BY <1>4, <1>5, <1>3, <1>6, <2>1
      <3>2. e.to \in 1..(Len(d) + 1) /\ e.to <= m
        BY <1>2, <3>1
      <3> QED
        BY <1>2, <3>1, <3>2 DEF RightSoFar
    <2> QED
      BY <1>4, <1>10, <2>1
  <1>12. Closed(d)
    <2> SUFFICES ASSUME NEW x \in Dos(c, Resolved(c)), NEW i \in Resolved(d) \ {x}
                 PROVE  i \in Body(d, x) <=> d[i].to \in Body(d, x)
      BY <1>7 DEF Closed
    <2>1. CASE i \in Resolved(c)
      <3>1. i \in Body(c, x) <=> c[i].to \in Body(c, x)
        BY <2>1 DEF CodeRight, Closed
      <3> QED
        BY <1>8, <1>10, <2>1, <3>1
    <2>2. CASE i \notin Resolved(c)
      <3>1. i = m /\ e.op \in Branches /\ e.to # Open
        BY <1>4, <2>2
      <3>2. e.to \notin Body(c, x)
        BY <1>6, <3>1 DEF Outside
      <3>3. m \notin Body(c, x)
        BY <1>3, <1>8
      <3> QED
        BY <1>2, <1>8, <3>1, <3>2, <3>3
    <2> QED
      BY <2>1, <2>2
  <1>13. \A i \in Waiting(d) : Outside(d, i)
    <2> SUFFICES ASSUME NEW i \in Waiting(d), NEW x \in Dos(c, Resolved(c))
                 PROVE  i \notin Body(d, x)
      BY <1>7 DEF Outside
    <2>1. i = m => i \notin Body(c, x)
      BY <1>3, <1>8
    <2>2. i \in Waiting(c) => i \notin Body(c, x)
      BY DEF CodeRight, Outside
    <2>3. i = m \/ i \in Waiting(c)
      BY <1>4
    <2> QED
      BY <1>8, <2>1, <2>2, <2>3
  <1>14. Apart(d)
    <2> SUFFICES ASSUME NEW x \in Dos(d, Waiting(d)), NEW i \in Resolved(d)
                 PROVE  (i > x => d[i].to > x) /\ (i < x => d[i].to <= x)
      BY DEF Apart
    <2>1. i \in Resolved(c) \/ (i = m /\ e.op \in Branches /\ e.to # Open)
      BY <1>4
    <2>2. x \in Waiting(d) /\ d[x].op = "do"
      BY DEF Dos
    <2>3. CASE x = m
      <3>1. i \in Resolved(c)
        <4>1. x \notin Waiting(c)
          BY <1>3, <1>5, <2>3
        <4>2. e.to = Open
          BY <1>4, <2>2, <4>1
        <4> QED
          BY <2>1, <4>2
      <3>2. i \in 1..n /\ d[i].to \in 1..m
        BY <1>5, <1>10, <3>1
      <3> QED
        BY <1>1, <2>3, <3>2
    <2>4. CASE x # m
      <3>1. x \in Waiting(c) /\ x \in 1..n
        BY <1>4, <1>5, <2>2, <2>4
      <3>2. x \in Dos(c, Waiting(c))
        BY <1>2, <2>2, <3>1 DEF Dos
      <3>3. i \in Resolved(c) => (i > x => d[i].to > x) /\ (i < x => d[i].to <= x)
        BY <1>10, <3>2 DEF CodeRight, Apart
      <3>4. i = m /\ e.op \in Branches /\ e.to # Open => d[i].to > x /\ ~(i < x)
        <4> SUFFICES ASSUME i = m, e.op \in Branches, e.to # Open
                     PROVE  d[i].to > x /\ ~(i < x)
          OBVIOUS
        <4>1. x < e.to
          BY <1>6, <3>2
        <4> QED
          BY <1>1, <1>2, <1>3, <3>1, <4>1
      <3> QED
        BY <2>1, <3>3, <3>4
    <2> QED
      BY <2>3, <2>4
  <1> QED
    BY <1>9, <1>11, <1>12, <1>13, <1>14 DEF CodeRight

\* D is C with the branches P patched to the place behind the last instruction.
Patched(c, d, P) ==
    /\ d \in Seq(Instruction) /\ Len(d) = Len(c) /\ P \subseteq Waiting(c)
    /\ \A i \in DOMAIN c : d[i].op = c[i].op
    /\ \A i \in P : d[i].to = Len(c) + 1
    /\ \A i \in DOMAIN c \ P : d[i] = c[i]
\* The resolved branches of patched code.
LEMMA PatchedSets ==
    ASSUME NEW c \in Seq(Instruction), NEW d, NEW P, Patched(c, d, P)
    PROVE  Resolved(d) = Resolved(c) \cup P /\ Waiting(d) = Waiting(c) \ P
  <1>1. PICK n \in Nat : n = Len(c) /\ DOMAIN c = 1..n /\ DOMAIN d = 1..n
    BY Instructions DEF Patched
  <1>2. /\ P \subseteq 1..n /\ \A i \in P : d[i].to = n + 1 /\ n + 1 # Open
        /\ \A i \in 1..n : i \notin P => d[i] = c[i]
        /\ \A i \in P : IsBranch(c, i) /\ c[i].to = Open
    BY <1>1 DEF Patched, Waiting, Open
  <1>3. \A i \in 1..n : IsBranch(d, i) <=> IsBranch(c, i)
    BY <1>1 DEF Patched, IsBranch
  <1>4. \A i \in 1..n : i \in Resolved(d) <=> i \in Resolved(c) \cup P
    BY <1>1, <1>2, <1>3 DEF Resolved
  <1>5. \A i \in 1..n : i \in Waiting(d) <=> i \in Waiting(c) \ P
    BY <1>1, <1>2, <1>3 DEF Waiting
  <1>6. Resolved(d) \subseteq 1..n /\ Resolved(c) \subseteq 1..n /\ Waiting(c) \subseteq 1..n /\ Waiting(d) \subseteq 1..n
    BY <1>1 DEF Resolved, Waiting
  <1> QED
    BY <1>2, <1>4, <1>5, <1>6

\* A resolved branch is as right in patched code.
LEMMA RightPatched ==
    ASSUME NEW c \in Seq(Instruction), NEW d, NEW P, Patched(c, d, P), NEW i \in Resolved(c), RightSoFar(c, i)
    PROVE  RightSoFar(d, i) /\ d[i] = c[i] /\ c[i].to \in 1..(Len(c) + 1)
  <1>1. PICK n \in Nat : n = Len(c) /\ DOMAIN c = 1..n /\ Len(d) = n
    BY Instructions DEF Patched
  <1>2. i \in 1..n /\ i \notin P /\ d[i] = c[i]
    BY <1>1 DEF Patched, Resolved, Waiting
  <1>3. PICK t : t = c[i].to
    OBVIOUS
  <1>4. t \in 1..(n + 1)
    BY <1>1, <1>3 DEF RightSoFar
  <1>5. t > i => t - 1 \in 1..n
    BY <1>2, <1>4
  <1>6. \A j \in 1..n : d[j].op = c[j].op
    BY <1>1 DEF Patched
  <1>7. c[i].op = "do" => d[t - 1] = c[t - 1]
    <2> SUFFICES ASSUME c[i].op = "do" PROVE d[t - 1] = c[t - 1]
      OBVIOUS
    <2>1. t > i /\ c[t - 1] = Ins("loop", i + 1)
      BY <1>3 DEF RightSoFar
    <2>2. c[t - 1].to # Open
      BY <1>2, <2>1 DEF Ins, Open
    <2>3. t - 1 \notin P
      BY <2>2 DEF Patched, Waiting
    <2> QED
      BY <1>1, <1>5, <2>1, <2>3 DEF Patched
  <1>8. c[i].op \in {"do", "of", "endof", "fallthrough"} => t > i
    BY <1>3 DEF RightSoFar
  <1> QED
    BY <1>1, <1>2, <1>3, <1>4, <1>5, <1>6, <1>7, <1>8 DEF RightSoFar

\* What a branch other than a do finds before the place it is patched to.
Fits(c, op) ==
    /\ op \in {"if", "else", "while", "of", "endof", "fallthrough"}
    /\ op = "of" => c[Len(c)].op \in {"endof", "fallthrough"}
    /\ op = "endof" => c[Len(c)].op = "drop"
    /\ op = "fallthrough" => c[Len(c)].op \in {"of", "drop"}
\* Branches other than do patched (resolveForwardBranch), above all do that wait.
LEMMA PatchRight ==
    ASSUME NEW c \in Seq(Instruction), CodeRight(c), NEW d, NEW P, Patched(c, d, P),
           \A i \in P : Fits(c, c[i].op) /\ \A x \in Dos(c, Waiting(c)) : x < i
    PROVE  CodeRight(d) /\ SameBodies(c, d)
  <1>1. PICK n \in Nat, m \in Nat : n = Len(c) /\ m = n + 1 /\ DOMAIN c = 1..n /\ Len(d) = n
    BY Instructions DEF Patched
  <1>2. /\ P \subseteq 1..n /\ \A i \in P : d[i].to = m /\ d[i].op = c[i].op
        /\ \A i \in 1..n : d[i].op = c[i].op
    BY <1>1 DEF Patched, Waiting
  <1>3. Resolved(d) = Resolved(c) \cup P /\ Waiting(d) = Waiting(c) \ P
    BY PatchedSets
  <1>4. Resolved(c) \subseteq 1..n /\ Waiting(c) \subseteq 1..n
    BY <1>1 DEF Resolved, Waiting
  <1>5. \A i \in P : c[i].op # "do"
    BY DEF Fits
  <1>6. \A i \in Resolved(c) : RightSoFar(d, i) /\ d[i] = c[i] /\ c[i].to \in 1..m
    BY <1>1, RightPatched DEF CodeRight
  <1>7. Dos(d, Resolved(d)) = Dos(c, Resolved(c))
    BY <1>2, <1>3, <1>4, <1>5 DEF Dos
  <1>8. ASSUME NEW x \in Dos(c, Resolved(c))
        PROVE  Body(d, x) = Body(c, x) /\ m \notin Body(c, x)
    <2>1. x \in Resolved(c) /\ RightSoFar(c, x)
      BY DEF Dos, CodeRight
    <2>2. \A i \in Body(c, x) : i \in 1..n
      BY <1>1, <2>1, BodyInside
    <2>3. m \notin 1..n
      BY <1>1
    <2> QED
      BY <1>6, <2>1, <2>2, <2>3 DEF Body
  <1>9. SameBodies(c, d)
    BY <1>7, <1>8 DEF SameBodies, Outside
  <1>10. ASSUME NEW i \in P
         PROVE  RightSoFar(d, i)
    <2>1. i \in 1..n /\ d[i].to = m /\ Fits(c, c[i].op) /\ d[i].op = c[i].op
      BY <1>2
    <2>2. m - 1 = n /\ m > i /\ m \in 1..(Len(d) + 1) /\ n \in 1..n
      BY <1>1, <2>1
    <2>3. d[n].op = c[n].op
      BY <1>2, <2>2
    <2> QED
      BY <1>1, <2>1, <2>2, <2>3 DEF RightSoFar, Fits
  <1>11. Closed(d)
    <2> SUFFICES ASSUME NEW x \in Dos(c, Resolved(c)), NEW i \in Resolved(d) \ {x}
                 PROVE  i \in Body(d, x) <=> d[i].to \in Body(d, x)
      BY <1>7 DEF Closed
    <2>1. CASE i \in Resolved(c)
      <3>1. i \in Body(c, x) <=> c[i].to \in Body(c, x)
        BY <2>1 DEF CodeRight, Closed
      <3> QED
        BY <1>6, <1>8, <2>1, <3>1
    <2>2. CASE i \in P
      <3>1. i \in Waiting(c)
        BY <2>2 DEF Patched
      <3>2. i \notin Body(c, x)
        BY <3>1 DEF CodeRight, Outside
      <3> QED
        BY <1>2, <1>8, <2>2, <3>2
    <2> QED
      BY <1>3, <2>1, <2>2
  <1>12. \A i \in Waiting(d) : Outside(d, i)
    BY <1>3, <1>7, <1>8 DEF CodeRight, Outside
  <1>13. Apart(d)
    <2> SUFFICES ASSUME NEW x \in Dos(d, Waiting(d)), NEW i \in Resolved(d)
                 PROVE  (i > x => d[i].to > x) /\ (i < x => d[i].to <= x)
      BY DEF Apart
    <2>1. x \in Dos(c, Waiting(c)) /\ x \in 1..n
      BY <1>2, <1>3, <1>4 DEF Dos
    <2>2. CASE i \in Resolved(c)
      BY <1>6, <2>1, <2>2 DEF CodeRight, Apart
    <2>3. CASE i \in P
      <3>1. x < i /\ i \in 1..n /\ d[i].to = m
        BY <1>2, <2>1, <2>3
      <3> QED
        BY <1>1, <2>1, <3>1
    <2> QED
      BY <1>3, <2>2, <2>3
  <1> QED
    BY <1>3, <1>6, <1>9, <1>10, <1>11, <1>12, <1>13 DEF CodeRight

\* A do patched behind its loop, when nothing waits in what gets its body, and no mark is in it.
LEMMA PatchDoRight ==
    ASSUME NEW c \in Seq(Instruction), CodeRight(c), NEW d, NEW p, Patched(c, d, {p}),
           c[p].op = "do", c[Len(c)] = Ins("loop", p + 1), \A i \in Waiting(c) : i <= p,
           \A i \in Resolved(c) : c[i].to <= Len(c)
    PROVE  CodeRight(d) /\ \A a \in Nat : a <= p /\ Outside(c, a) => Outside(d, a)
  <1>1. PICK n \in Nat, m \in Nat : n = Len(c) /\ m = n + 1 /\ DOMAIN c = 1..n /\ Len(d) = n
    BY Instructions DEF Patched
  <1>2. /\ p \in 1..n /\ p \in Waiting(c) /\ d[p].to = m /\ d[p].op = "do"
        /\ \A i \in 1..n : d[i].op = c[i].op
        /\ \A i \in 1..n : i # p => d[i] = c[i]
    BY <1>1 DEF Patched, Waiting
  <1>3. Resolved(d) = Resolved(c) \cup {p} /\ Waiting(d) = Waiting(c) \ {p}
    BY PatchedSets
  <1>4. Resolved(c) \subseteq 1..n /\ Waiting(c) \subseteq 1..n
    BY <1>1 DEF Resolved, Waiting
  <1>5. \A i \in Resolved(c) : RightSoFar(d, i) /\ d[i] = c[i] /\ c[i].to \in 1..m
    BY <1>1, RightPatched DEF CodeRight
  <1>6. Dos(d, Resolved(d)) = Dos(c, Resolved(c)) \cup {p}
    BY <1>2, <1>3, <1>4 DEF Dos
  <1>7. ASSUME NEW x \in Dos(c, Resolved(c))
        PROVE  Body(d, x) = Body(c, x) /\ m \notin Body(c, x)
    <2>1. x \in Resolved(c) /\ RightSoFar(c, x)
      BY DEF Dos, CodeRight
    <2>2. \A i \in Body(c, x) : i \in 1..n
      BY <1>1, <2>1, BodyInside
    <2>3. m \notin 1..n
      BY <1>1
    <2> QED
      BY <1>5, <2>1, <2>2, <2>3 DEF Body
  <1>8. Body(d, p) = (p + 1)..n /\ p \in Nat
    <2>1. m - 1 = n
      BY <1>1
    <2> QED
      BY <1>2, <2>1 DEF Body
  <1>9. n # p
    BY <1>1 DEF Ins
  <1>10. RightSoFar(d, p)
    <2>1. m - 1 = n /\ m > p /\ m \in 1..(Len(d) + 1) /\ n \in 1..n
      BY <1>1, <1>2
    <2>2. d[n] = Ins("loop", p + 1)
      BY <1>1, <1>2, <1>9, <2>1
    <2> QED
      BY <1>1, <1>2, <2>1, <2>2 DEF RightSoFar
  <1>11. Closed(d)
    <2> SUFFICES ASSUME NEW x \in Dos(d, Resolved(d)), NEW i \in Resolved(d) \ {x}
                 PROVE  i \in Body(d, x) <=> d[i].to \in Body(d, x)
      BY DEF Closed
    <2>1. CASE x # p /\ i # p
      <3>1. x \in Dos(c, Resolved(c)) /\ i \in Resolved(c)
        BY <1>3, <1>6, <2>1
      <3>2. i \in Body(c, x) <=> c[i].to \in Body(c, x)
        BY <3>1 DEF CodeRight, Closed
      <3> QED
        BY <1>5, <1>7, <3>1, <3>2
    <2>2. CASE x # p /\ i = p
      <3>1. x \in Dos(c, Resolved(c))
        BY <1>6, <2>2
      <3>2. p \notin Body(c, x)
        BY <1>2, <3>1 DEF CodeRight, Outside
      <3> QED
        BY <1>2, <1>7, <2>2, <3>1, <3>2
    <2>3. CASE x = p
      <3>1. i \in Resolved(c) /\ i \in 1..n /\ d[i] = c[i] /\ c[i].to \in 1..m
        BY <1>3, <1>4, <1>5, <2>3
      <3>2. p \in Dos(c, Waiting(c))
        BY <1>2 DEF Dos
      <3>3. (i > p => c[i].to > p) /\ (i < p => c[i].to <= p)
        BY <3>1, <3>2 DEF CodeRight, Apart
      <3>4. c[i].to # m
        BY <1>1, <3>1
      <3> QED
        BY <1>1, <1>2, <1>8, <2>3, <3>1, <3>3, <3>4
    <2> QED
      BY <2>1, <2>2, <2>3
  <1>12. \A a \in Nat : a <= p /\ Outside(c, a) => Outside(d, a)
    <2> SUFFICES ASSUME NEW a \in Nat, a <= p, Outside(c, a), NEW x \in Dos(d, Resolved(d))
                 PROVE  a \notin Body(d, x)
      BY DEF Outside
    <2>1. CASE x = p
      BY <1>8, <2>1
    <2>2. CASE x # p
      BY <1>6, <1>7, <2>2 DEF Outside
    <2> QED
      BY <2>1, <2>2
  <1>13. \A i \in Waiting(d) : Outside(d, i)
    <2> TAKE i \in Waiting(d)
    <2>1. i \in Waiting(c) /\ i \in Nat
      BY <1>3, <1>4
    <2> QED
      BY <1>12, <2>1 DEF CodeRight
  <1>14. Apart(d)
    <2> SUFFICES ASSUME NEW x \in Dos(d, Waiting(d)), NEW i \in Resolved(d)
                 PROVE  (i > x => d[i].to > x) /\ (i < x => d[i].to <= x)
      BY DEF Apart
    <2>1. x \in Waiting(c) /\ x \in 1..n /\ x # p
      BY <1>3, <1>4 DEF Dos
    <2>2. x \in Dos(c, Waiting(c))
      BY <1>2, <2>1 DEF Dos
    <2>3. CASE i \in Resolved(c)
      BY <1>5, <2>2, <2>3 DEF CodeRight, Apart
    <2>4. CASE i = p
      BY <1>1, <1>2, <2>1, <2>4
    <2> QED
      BY <1>3, <2>3, <2>4
  <1> QED
    BY <1>3, <1>5, <1>10, <1>11, <1>12, <1>13, <1>14 DEF CodeRight

-----------------------------------------------------------------------------
(* Addresses on the stack: of branches that wait, and of places to go back to. *)

ToBack(s, j) == s[j + 1][1] = "tag" /\ s[j + 1][2] \in Back
WaitCells(s) == {j \in 1..(Len(s) - 1) : s[j][1] = "addr" /\ ~ToBack(s, j)}
BackCells(s) == {j \in 1..(Len(s) - 1) : s[j][1] = "addr" /\ ToBack(s, j)}
\* The nearer to the top, the later in the code; but while puts its branch below a place before it.
Ordered(s) ==
    /\ \A j, k \in WaitCells(s) : j < k => s[j][2] < s[k][2]
    /\ \A j \in BackCells(s), k \in WaitCells(s) : j < k => s[j][2] <= s[k][2]
    /\ \A j \in WaitCells(s), k \in BackCells(s) : j < k /\ s[j + 1] = Tag("leave") => s[j][2] < s[k][2]
\* The waiting branches are those the stack has, and no place to go back to is in a closed body.
Serves(s, c) ==
    /\ \A j \in WaitCells(s) : s[j][2] \in Waiting(c)
    /\ \A i \in Waiting(c) : \E j \in WaitCells(s) : s[j][2] = i
    /\ \A j \in BackCells(s) : Outside(c, s[j][2])

\* The cells up to Q are the same, and are addresses of the same kind.
SameTo(s, t, q) ==
    /\ s \in Seq(Cell) /\ t \in Seq(Cell) /\ q \in Nat \ {0} /\ q <= Len(s) /\ q <= Len(t)
    /\ \A i \in 1..q : t[i] = s[i]
    /\ s[q][1] # "addr" \/ (q < Len(s) /\ q < Len(t) /\ ~ToBack(s, q) /\ ~ToBack(t, q))
\* A cell of the part two stacks share plays the same role in both.
LEMMA SameCells ==
    ASSUME NEW s, NEW t, NEW q, SameTo(s, t, q), NEW j \in 1..q
    PROVE  /\ j \in WaitCells(t) <=> j \in WaitCells(s)
           /\ j \in BackCells(t) <=> j \in BackCells(s)
           /\ t[j] = s[j]
           /\ j \in WaitCells(s) => (t[j + 1] = Tag("leave") => s[j + 1] = Tag("leave")) \/ j = q
  <1>1. PICK n \in Nat, m \in Nat : n = Len(s) /\ m = Len(t)
    BY DEF SameTo
  <1>2. q \in Nat /\ j \in Nat /\ j >= 1 /\ j <= q /\ q <= n /\ q <= m /\ t[j] = s[j]
    BY <1>1 DEF SameTo
  <1>3. CASE j < q
    <2>1. t[j + 1] = s[j + 1] /\ j \in 1..(n - 1) /\ j \in 1..(m - 1)
      BY <1>1, <1>2, <1>3 DEF SameTo
    <2> QED
      BY <1>1, <1>2, <2>1 DEF WaitCells, BackCells, ToBack
  <1>4. CASE j = q
    <2>1. CASE s[q][1] # "addr"
      BY <1>2, <1>4, <2>1 DEF WaitCells, BackCells
    <2>2. CASE q < n /\ q < m /\ ~ToBack(s, q) /\ ~ToBack(t, q)
      <3>1. j \in 1..(n - 1) /\ j \in 1..(m - 1)
        BY <1>2, <1>4, <2>2
      <3> QED
        BY <1>1, <1>2, <1>4, <2>2, <3>1 DEF WaitCells, BackCells
    <2> QED
      BY <1>1, <1>4, <2>1, <2>2 DEF SameTo
  <1> QED
    BY <1>2, <1>3, <1>4

\* What has been put on the stack: at most one branch, compiled last, and places above it.
NewOnTop(s, t, q, n) ==
    /\ \A j \in WaitCells(s) : s[j][2] < n
    /\ \A j \in BackCells(s) : s[j][2] <= n
    /\ \A j \in WaitCells(t) : j > q => t[j][2] = n
    /\ \A j, k \in WaitCells(t) : j > q /\ k > q => j = k
    /\ \A j \in BackCells(t), k \in WaitCells(t) : j > q /\ k > q => k < j
    /\ \A j \in WaitCells(t), k \in BackCells(t) : j < k /\ k > q /\ t[j + 1] = Tag("leave") => t[j][2] < t[k][2]
    /\ s[q][1] # "addr" \/ t[q + 1] # Tag("leave")
\* The addresses stay ordered when the ones above the shared cells belong to the next instruction.
LEMMA Restack ==
    ASSUME NEW s, NEW t, NEW q, SameTo(s, t, q), Ordered(s), NEW n \in Nat, NewOnTop(s, t, q, n)
    PROVE  Ordered(t)
  <1>1. q \in Nat /\ WaitCells(t) \subseteq Nat /\ BackCells(t) \subseteq Nat
        /\ \A j \in WaitCells(t) \cup BackCells(t) : j > q \/ j \in 1..q
    <2>1. PICK m \in Nat : m = Len(t)
      BY DEF SameTo
    <2>2. \A j \in 1..(m - 1) : j \in Nat /\ (j > q \/ j \in 1..q)
      BY DEF SameTo
    <2> QED
      BY <2>1, <2>2 DEF SameTo, WaitCells, BackCells
  <1>2. \A j, k \in WaitCells(t) : j < k => t[j][2] < t[k][2]
    <2> SUFFICES ASSUME NEW j \in WaitCells(t), NEW k \in WaitCells(t), j < k PROVE t[j][2] < t[k][2]
      OBVIOUS
    <2>1. CASE k > q
      BY <1>1, <2>1, SameCells DEF NewOnTop
    <2>2. CASE ~(k > q)
      <3>1. k \in 1..q /\ j \in 1..q
        BY <1>1, <2>2
      <3> QED
        BY <3>1, SameCells DEF Ordered
    <2> QED
      BY <2>1, <2>2
  <1>3. \A j \in BackCells(t), k \in WaitCells(t) : j < k => t[j][2] <= t[k][2]
    <2> SUFFICES ASSUME NEW j \in BackCells(t), NEW k \in WaitCells(t), j < k PROVE t[j][2] <= t[k][2]
      OBVIOUS
    <2>1. CASE k > q
      BY <1>1, <2>1, SameCells DEF NewOnTop
    <2>2. CASE ~(k > q)
      <3>1. k \in 1..q /\ j \in 1..q
        BY <1>1, <2>2
      <3> QED
        BY <3>1, SameCells DEF Ordered
    <2> QED
      BY <2>1, <2>2
  <1>4. \A j \in WaitCells(t), k \in BackCells(t) : j < k /\ t[j + 1] = Tag("leave") => t[j][2] < t[k][2]
    <2> SUFFICES ASSUME NEW j \in WaitCells(t), NEW k \in BackCells(t), j < k, t[j + 1] = Tag("leave")
                 PROVE  t[j][2] < t[k][2]
      OBVIOUS
    <2>1. CASE k > q
      BY <2>1 DEF NewOnTop
    <2>2. CASE ~(k > q)
      <3>1. k \in 1..q /\ j \in 1..q /\ j # q
        BY <1>1, <2>2
      <3> QED
        BY <3>1, SameCells DEF Ordered
    <2> QED
      BY <2>1, <2>2
  <1> QED
    BY <1>2, <1>3, <1>4 DEF Ordered

\* The branches that wait are those of the cells that stay and of the new cells.
LEMMA Reserve ==
    ASSUME NEW s, NEW t, NEW q, SameTo(s, t, q), Ordered(s), NEW c, NEW d, Serves(s, c),
           \A i : i \in Waiting(d) <=> \/ i \in Waiting(c) /\ \A j \in WaitCells(s) : j > q => s[j][2] # i
                                      \/ \E j \in WaitCells(t) : j > q /\ t[j][2] = i,
           \A j \in BackCells(s) : j <= q => Outside(d, s[j][2]),
           \A j \in BackCells(t) : j > q => Outside(d, t[j][2])
    PROVE  Serves(t, d)
  <1>1. \A u : \A j \in WaitCells(u) \cup BackCells(u) :
           u \in Seq(Cell) => j \in Nat /\ u[j][2] \in Nat /\ (j > q \/ j \in 1..q)
    <2> SUFFICES ASSUME NEW u \in Seq(Cell), NEW j \in WaitCells(u) \cup BackCells(u)
                 PROVE  j \in Nat /\ u[j][2] \in Nat /\ (j > q \/ j \in 1..q)
      OBVIOUS
    <2>1. PICK m \in Nat : m = Len(u)
      OBVIOUS
    <2>2. j \in 1..(m - 1) /\ u[j][1] = "addr"
      BY <2>1 DEF WaitCells, BackCells
    <2>3. u[j] \in Cell
      BY <2>1, <2>2
    <2>4. q \in Nat
      BY DEF SameTo
    <2> QED
      BY <2>2, <2>3, <2>4, CellIs
  <1>2. s \in Seq(Cell) /\ t \in Seq(Cell)
    BY DEF SameTo
  <1>3. ASSUME NEW j \in WaitCells(t)
        PROVE  t[j][2] \in Waiting(d)
    <2>1. CASE j > q
      BY <2>1
    <2>2. CASE j \in 1..q
      <3>1. j \in WaitCells(s) /\ t[j] = s[j]
        BY <2>2, SameCells
      <3>2. \A k \in WaitCells(s) : k > q => s[j][2] < s[k][2]
        <4> TAKE k \in WaitCells(s)
        <4>1. k \in Nat /\ q \in Nat
          BY <1>1, <1>2 DEF SameTo
        <4>2. k > q => j < k
          BY <2>2, <4>1
        <4> QED
          BY <3>1, <4>2 DEF Ordered
      <3>3. \A k \in WaitCells(s) : k > q => s[k][2] # s[j][2]
        BY <1>1, <1>2, <3>1, <3>2
      <3> QED
        BY <3>1, <3>3 DEF Serves
    <2> QED
      BY <1>1, <1>2, <2>1, <2>2
  <1>4. ASSUME NEW i \in Waiting(d)
        PROVE  \E j \in WaitCells(t) : t[j][2] = i
    <2>1. CASE i \in Waiting(c) /\ \A j \in WaitCells(s) : j > q => s[j][2] # i
      <3>1. PICK j \in WaitCells(s) : s[j][2] = i
        BY <2>1 DEF Serves
      <3>2. j \in 1..q
        BY <1>1, <1>2, <2>1, <3>1
      <3> QED
        BY <3>1, <3>2, SameCells
    <2> QED
      BY <2>1
  <1>5. ASSUME NEW j \in BackCells(t)
        PROVE  Outside(d, t[j][2])
    <2>1. j > q \/ (j \in 1..q /\ j <= q)
      BY <1>1, <1>2
    <2> QED
      BY <2>1, SameCells
  <1> QED
    BY <1>3, <1>4, <1>5 DEF Serves

-----------------------------------------------------------------------------
(* Structures inside of one another, from the tag of : at cell B on. *)

OpsOf(tag) ==
    {op \in Branches : /\ tag = "origin" => op \in {"if", "else", "while"}
                       /\ tag = "leave" => op = "do"
                       /\ tag \in {"of", "fallthrough"} => op = tag}
\* The group that ends at cell K, and the instructions it is about.
CellAt(s, c, b, k) ==
    /\ s[k][2] # "colon"
    /\ s[k][2] \in Forward \cup Back => k - 2 >= b /\ s[k - 2][1] = "tag" /\ s[k - 1][1] = "addr"
    /\ s[k][2] \in Forward => s[k - 1][2] \in DOMAIN c /\ c[s[k - 1][2]].op \in OpsOf(s[k][2])
    /\ s[k][2] \in {"of", "fallthrough"} => s[k - 2] = Tag("case")
    /\ s[k][2] = "do" => k - 4 >= b /\ s[k - 2] = Tag("leave") /\ s[k - 1][2] = s[k - 3][2] + 1
    /\ s[k][2] = "case" =>
          /\ k - 1 > b /\ s[k - 1][1] = "num"
          /\ k - 2 - s[k - 1][2] >= b /\ s[k - 2 - s[k - 1][2]][1] = "tag"
          /\ \A j \in 1..(k - 2) : j >= k - 1 - s[k - 1][2] =>
                s[j][1] = "addr" /\ s[j][2] \in DOMAIN c /\ c[s[j][2]].op = "endof"
Nested(s, c, b) ==
    /\ s \in Seq(Cell) /\ b \in {1, 2} /\ b <= Len(s) /\ s[b] = Tag("colon") /\ (b = 2 => s[1] = Xt)
    /\ s[Len(s)][1] = "tag"
    /\ \A k \in (b + 1)..Len(s) : s[k][1] = "tag" => CellAt(s, c, b, k)

\* A group is as good for a stack with the same cells up to it and for code with the same instructions.
LEMMA CellAtKeeps ==
    ASSUME NEW s \in Seq(Cell), NEW t, NEW c, NEW d, NEW b \in {1, 2}, NEW k \in Nat, k > b, k <= Len(s),
           CellAt(s, c, b, k), s[k][1] = "tag", \A i \in 1..k : t[i] = s[i], Kept(c, d)
    PROVE  CellAt(t, d, b, k)
  <1>1. \A a \in DOMAIN c : a \in DOMAIN d /\ d[a].op = c[a].op
    BY DEF Kept
  <1>2. t[k] = s[k] /\ t[k - 1] = s[k - 1]
    OBVIOUS
  <1>3. s[k][2] \in Forward \cup Back => k - 2 >= b /\ t[k - 2] = s[k - 2] /\ t[k - 2][1] = "tag" /\ t[k - 1][1] = "addr"
    BY <1>2 DEF CellAt
  <1>4. s[k][2] \in Forward => t[k - 1][2] \in DOMAIN d /\ d[t[k - 1][2]].op \in OpsOf(s[k][2])
    BY <1>1, <1>2 DEF CellAt
  <1>5. s[k][2] \in {"of", "fallthrough"} => t[k - 2] = Tag("case")
    BY <1>3 DEF CellAt, Forward
  <1>6. s[k][2] = "do" => k - 4 >= b /\ t[k - 2] = Tag("leave") /\ t[k - 1][2] = t[k - 3][2] + 1
    <2> SUFFICES ASSUME s[k][2] = "do"
                 PROVE  k - 4 >= b /\ t[k - 2] = Tag("leave") /\ t[k - 1][2] = t[k - 3][2] + 1
      OBVIOUS
    <2>1. k - 4 >= b /\ s[k - 2] = Tag("leave") /\ s[k - 1][2] = s[k - 3][2] + 1
      BY DEF CellAt
    <2>2. t[k - 3] = s[k - 3] /\ t[k - 2] = s[k - 2]
      BY <2>1
    <2> QED
      BY <1>2, <2>1, <2>2
  <1>7. ASSUME s[k][2] = "case"
        PROVE  /\ k - 1 > b /\ t[k - 1][1] = "num"
               /\ k - 2 - t[k - 1][2] >= b /\ t[k - 2 - t[k - 1][2]][1] = "tag"
               /\ \A j \in 1..(k - 2) : j >= k - 1 - t[k - 1][2] =>
                     t[j][1] = "addr" /\ t[j][2] \in DOMAIN d /\ d[t[j][2]].op = "endof"
    <2>1. k - 1 > b /\ s[k - 1][1] = "num" /\ s[k - 1] \in Cell
      BY <1>7 DEF CellAt
    <2>2. PICK v \in Nat : v = s[k - 1][2]
      BY <2>1, CellIs
    <2>3. /\ k - 2 - v >= b /\ s[k - 2 - v][1] = "tag"
          /\ \A j \in 1..(k - 2) : j >= k - 1 - v =>
                     s[j][1] = "addr" /\ s[j][2] \in DOMAIN c /\ c[s[j][2]].op = "endof"
      BY <1>7, <2>2 DEF CellAt
    <2>4. t[k - 2 - v] = s[k - 2 - v] /\ \A j \in 1..(k - 2) : t[j] = s[j]
      <3>1. \A j \in 1..(k - 2) : j \in 1..k
        OBVIOUS
      <3>2. \A j \in 1..(k - 2) : t[j] = s[j]
        BY <3>1
      <3>3. k - 2 - v >= b
        BY <2>3
      <3>4. k - 2 - v \in 1..(k - 2)
        BY <3>3
      <3> QED
        BY <3>2, <3>4
    <2> QED
      BY <1>1, <1>2, <2>1, <2>2, <2>3, <2>4
  <1> QED
    BY <1>2, <1>3, <1>4, <1>5, <1>6, <1>7 DEF CellAt

\* The same structures on a stack with the same cells up to Q.
LEMMA NestedTo ==
    ASSUME NEW s, NEW t \in Seq(Cell), NEW c, NEW d, NEW b, Nested(s, c, b), Kept(c, d), NEW q \in Nat, b <= q,
           q <= Len(s), q <= Len(t), \A i \in 1..q : t[i] = s[i]
    PROVE  /\ t[b] = Tag("colon") /\ (b = 2 => t[1] = Xt)
           /\ \A k \in (b + 1)..q : t[k][1] = "tag" => CellAt(t, d, b, k)
  <1>1. b \in {1, 2} /\ s \in Seq(Cell) /\ t[b] = Tag("colon") /\ (b = 2 => t[1] = Xt)
    BY DEF Nested
  <1>2. ASSUME NEW k \in (b + 1)..q, t[k][1] = "tag"
        PROVE  CellAt(t, d, b, k)
    <2>1. k \in Nat /\ k > b /\ k <= Len(s) /\ k \in (b + 1)..Len(s) /\ \A i \in 1..k : t[i] = s[i]
      BY <1>1
    <2>2. s[k][1] = "tag" /\ CellAt(s, c, b, k)
      BY <1>2, <2>1 DEF Nested
    <2> QED
      BY <1>1, <2>1, <2>2, CellAtKeeps
  <1> QED
    BY <1>1, <1>2

\* Structures taken from the stack.
LEMMA NestedDrop ==
    ASSUME NEW s, NEW t, NEW c, NEW d, NEW b, Nested(s, c, b), Kept(c, d), NEW q, Dropped(s, t, q), b <= q,
           s[q][1] = "tag"
    PROVE  Nested(t, d, b)
  <1>1. t \in Seq(Cell) /\ q \in Nat /\ q <= Len(s) /\ Len(t) = q /\ (\A i \in 1..q : t[i] = s[i]) /\ s \in Seq(Cell)
    BY DEF Dropped, Nested
  <1>2. b \in {1, 2}
    BY DEF Nested
  <1>3. /\ t[b] = Tag("colon") /\ (b = 2 => t[1] = Xt)
        /\ \A k \in (b + 1)..q : t[k][1] = "tag" => CellAt(t, d, b, k)
    BY <1>1, NestedTo
  <1>4. t[q][1] = "tag"
    BY <1>1, <1>2
  <1> QED
    BY <1>1, <1>2, <1>3, <1>4 DEF Nested

\* A group put on the stack.
LEMMA NestedPush ==
    ASSUME NEW s, NEW t, NEW c, NEW d, NEW b, Nested(s, c, b), Kept(c, d), NEW q \in Nat, b <= q, q <= Len(s),
           t \in Seq(Cell), \A i \in 1..q : t[i] = s[i], NEW m \in Nat, m = Len(t), m > q, t[m][1] = "tag",
           \A i \in (q + 1)..(m - 1) : t[i][1] # "tag", CellAt(t, d, b, m)
    PROVE  Nested(t, d, b)
  <1>1. b \in {1, 2}
    BY DEF Nested
  <1>2. /\ t[b] = Tag("colon") /\ (b = 2 => t[1] = Xt)
        /\ \A k \in (b + 1)..q : t[k][1] = "tag" => CellAt(t, d, b, k)
    BY NestedTo
  <1>3. ASSUME NEW k \in (b + 1)..m, t[k][1] = "tag"
        PROVE  CellAt(t, d, b, k)
    <2>1. k \in (b + 1)..q \/ k = m \/ k \in (q + 1)..(m - 1)
      BY <1>1, <1>3
    <2> QED
      BY <1>2, <1>3, <2>1
  <1> QED
    BY <1>1, <1>2, <1>3 DEF Nested

\* What a word finds that takes a group from the top of the stack.
TopGroup(s, c, b, n, tag) ==
    /\ n - 2 >= b /\ s[n - 2][1] = "tag" /\ s[n - 1][1] = "addr" /\ s[n - 1] \in Cell /\ s[n - 1][2] \in Nat
    /\ tag \in Forward => s[n - 1][2] \in DOMAIN c /\ c[s[n - 1][2]].op \in OpsOf(tag)
    /\ tag \in {"of", "fallthrough"} => s[n - 2] = Tag("case")
    /\ tag = "do" => n - 4 >= b /\ s[n - 2] = Tag("leave") /\ s[n - 1][2] = s[n - 3][2] + 1
\* The group of the tag on top lies inside the definition, with the branch that its tag stands for.
LEMMA NestedTop ==
    ASSUME NEW s, NEW c, NEW b, Nested(s, c, b), NEW n \in Nat, n >= b, n <= Len(s), NEW tag \in Forward \cup Back,
           s[n] = Tag(tag)
    PROVE  TopGroup(s, c, b, n, tag)
  <1>1. s \in Seq(Cell) /\ b \in {1, 2} /\ s[b] = Tag("colon")
    BY DEF Nested
  <1>2. s[n][1] = "tag" /\ s[n][2] = tag /\ tag # "colon" /\ s[b][2] = "colon"
    BY <1>1, CellParts DEF Forward, Back
  <1>3. n \in (b + 1)..Len(s)
    BY <1>1, <1>2
  <1>4. CellAt(s, c, b, n)
    BY <1>2, <1>3 DEF Nested
  <1>5. n - 2 >= b /\ s[n - 2][1] = "tag" /\ s[n - 1][1] = "addr"
    BY <1>2, <1>4 DEF CellAt
  <1>6. s[n - 1] \in Cell
    BY <1>1, <1>3, <1>5
  <1>7. s[n - 1][2] \in Nat
    BY <1>5, <1>6, CellIs
  <1> QED
    BY <1>2, <1>4, <1>5, <1>6, <1>7 DEF CellAt, TopGroup

\* The cells of a group on top: an address of a branch that waits, or of a place to go back to.
LEMMA TopCells ==
    ASSUME NEW s \in Seq(Cell), NEW q \in Nat, Len(s) = q + 2, s[q + 1][1] = "addr", NEW tag \in Forward \cup Back,
           s[q + 2] = Tag(tag)
    PROVE  /\ \A j \in WaitCells(s) : j > q => j = q + 1 /\ tag \in Forward
           /\ \A j \in BackCells(s) : j > q => j = q + 1 /\ tag \in Back
           /\ q + 1 \in WaitCells(s) <=> tag \in Forward
           /\ q + 1 \in BackCells(s) <=> tag \in Back
  <1>1. s[q + 2][1] = "tag" /\ s[q + 2][2] = tag
    BY CellParts
  <1>2. ToBack(s, q + 1) <=> tag \in Back
    <2>1. q + 1 + 1 = q + 2
      OBVIOUS
    <2> QED
      BY <1>1, <2>1 DEF ToBack
  <1>3. tag \in Forward <=> ~(tag \in Back)
    BY DEF Forward, Back
  <1>4. \A j \in 1..(Len(s) - 1) : j > q => j = q + 1
    OBVIOUS
  <1>5. q + 1 \in 1..(Len(s) - 1)
    OBVIOUS
  <1> QED
    BY <1>2, <1>3, <1>4, <1>5 DEF WaitCells, BackCells

-----------------------------------------------------------------------------
(* Code and stack of a definition without a loose while. *)

Branchy(s, c, b) ==
    /\ c \in Seq(Instruction) /\ Typed(s, c)
    /\ Nested(s, c, b) /\ Ordered(s) /\ Serves(s, c)
    /\ CodeRight(c)

\* Where the addresses on the stack are, and that the code to come is in no body.
Older(s, c) ==
    /\ s \in Seq(Cell) /\ DOMAIN c = 1..Len(c) /\ Len(c) \in Nat /\ Len(s) \in Nat
    /\ \A j \in WaitCells(s) : j \in Nat /\ s[j][2] \in Waiting(c) /\ s[j][2] \in Nat /\ s[j][2] < Len(c) + 1
    /\ \A j \in BackCells(s) : j \in Nat /\ s[j][2] \in Nat /\ s[j][2] <= Len(c) + 1 /\ Outside(c, s[j][2])
    /\ \A a \in Nat : a > Len(c) => Outside(c, a)
\* The addresses that the cells of a definition hold are older than the next instruction.
LEMMA OlderIs ==
    ASSUME NEW s, NEW c, NEW b, Branchy(s, c, b)
    PROVE  Older(s, c)
  <1>1. c \in Seq(Instruction) /\ s \in Seq(Cell)
    BY DEF Branchy, Nested
  <1>2. PICK n \in Nat, l \in Nat : n = Len(s) /\ l = Len(c) /\ DOMAIN c = 1..l /\ DOMAIN s = 1..n
    BY <1>1
  <1>3. ASSUME NEW j \in WaitCells(s)
        PROVE  j \in Nat /\ s[j][2] \in Waiting(c) /\ s[j][2] \in Nat /\ s[j][2] < l + 1
    <2>1. s[j][2] \in Waiting(c)
      BY DEF Branchy, Serves
    <2>2. s[j][2] \in 1..l
      BY <1>2, <2>1 DEF Waiting
    <2> QED
      BY <1>2, <2>1, <2>2 DEF WaitCells
  <1>4. ASSUME NEW j \in BackCells(s)
        PROVE  j \in Nat /\ s[j][2] \in Nat /\ s[j][2] <= l + 1 /\ Outside(c, s[j][2])
    <2>1. j \in 1..(n - 1) /\ s[j][1] = "addr"
      BY <1>2 DEF BackCells
    <2>2. s[j][2] \in 1..(l + 1)
      BY <1>2, <2>1 DEF Branchy, Typed
    <2> QED
      BY <2>1, <2>2 DEF Branchy, Serves
  <1>5. ASSUME NEW a \in Nat, a > l
        PROVE  Outside(c, a)
    <2> SUFFICES ASSUME NEW x \in Dos(c, Resolved(c)) PROVE a \notin Body(c, x)
      BY DEF Outside
    <2>1. RightSoFar(c, x)
      BY DEF Branchy, CodeRight, Dos
    <2>2. \A i \in Body(c, x) : i \in 1..l
      BY <1>1, <1>2, <2>1, BodyInside
    <2> QED
      BY <1>2, <1>5, <2>2
  <1> QED
    BY <1>1, <1>2, <1>3, <1>4, <1>5 DEF Older

\* The first tag above a cell.
LEMMA NextTag ==
    ASSUME NEW s \in Seq(Cell), NEW n \in Nat, n = Len(s), NEW j \in 1..(n - 1), s[n][1] = "tag"
    PROVE  \E k \in 1..n : k > j /\ s[k][1] = "tag" /\ \A i \in 1..n : i > j /\ i < k => s[i][1] # "tag"
  <1> DEFINE P == {k \in 1..n : k > j /\ s[k][1] = "tag"}
  <1>1. n \in P /\ P \in SUBSET Nat
    OBVIOUS
  <1>2. P # {}
    BY <1>1
  <1>3. PICK k \in P : \A i \in P : k <= i
    BY <1>1, <1>2, Least
  <1>4. \A i \in 1..n : i > j /\ i < k => s[i][1] # "tag"
    BY <1>3
  <1> QED
    BY <1>3, <1>4

\* The address of a branch that waits is below the tag of the branch, or that of an endof.
LEMMA WaitKinds ==
    ASSUME NEW s, NEW c, NEW b, Nested(s, c, b), NEW j \in WaitCells(s)
    PROVE  /\ j > b
           /\ \/ \E tag \in Forward : s[j + 1] = Tag(tag) /\ c[s[j][2]].op \in OpsOf(tag)
              \/ c[s[j][2]].op = "endof"
  <1>1. s \in Seq(Cell) /\ b \in {1, 2} /\ b <= Len(s) /\ s[b] = Tag("colon") /\ (b = 2 => s[1] = Xt) /\ s[Len(s)][1] = "tag"
    BY DEF Nested
  <1>2. PICK n \in Nat : n = Len(s) /\ \A i \in 1..n : s[i] \in Cell
    BY <1>1
  <1>3. j \in 1..(n - 1) /\ s[j][1] = "addr" /\ ~ToBack(s, j)
    BY <1>2 DEF WaitCells
  <1>4. j # b /\ (b = 2 => j # 1)
    BY <1>1, <1>3, CellParts
  <1>5. j > b
    BY <1>1, <1>3, <1>4
  <1>6. PICK k \in 1..n : k > j /\ s[k][1] = "tag" /\ \A i \in 1..n : i > j /\ i < k => s[i][1] # "tag"
    BY <1>1, <1>2, <1>3, NextTag
  <1>7. k \in (b + 1)..n
    <2>1. j \in Nat /\ b \in Nat /\ j > b /\ k \in Nat /\ k > j /\ k <= n
      BY <1>1, <1>3, <1>5, <1>6
    <2> QED
      BY <2>1
  <1>8. CellAt(s, c, b, k)
    BY <1>2, <1>6, <1>7 DEF Nested
  <1>9. PICK tag : tag = s[k][2] /\ s[k] = Tag(tag) /\ tag \in Forward \cup Back \cup {"case", "colon"}
    <2>1. s[k] = <<"tag", s[k][2]>> /\ s[k][2] \in {"colon", "origin", "target", "do", "leave", "case", "of", "fallthrough"}
      BY <1>2, <1>6, CellIs
    <2> QED
      BY <2>1 DEF Tag, Forward, Back
  <1>10. tag # "colon"
    BY <1>8, <1>9 DEF CellAt
  <1>11. ASSUME tag \in Forward \cup Back
         PROVE  k = j + 1
    <2>1. k - 2 >= b /\ s[k - 2][1] = "tag"
      BY <1>8, <1>9, <1>11 DEF CellAt
    <2>2. k - 2 # j /\ ~(k - 2 > j)
      BY <1>1, <1>3, <1>6, <2>1
    <2> QED
      BY <1>3, <1>6, <2>1, <2>2
  <1>12. CASE tag \in Forward
    <2>1. j + 1 = k /\ k - 1 = j
      BY <1>11, <1>12, <1>3
    <2>2. c[s[j][2]].op \in OpsOf(tag)
      BY <1>8, <1>9, <1>12, <2>1 DEF CellAt
    <2> QED
      BY <1>5, <1>9, <1>12, <2>1, <2>2
  <1>13. CASE tag \in Back
    <2>1. s[j + 1] = Tag(tag)
      BY <1>9, <1>11, <1>13
    <2>2. ToBack(s, j)
      BY <1>13, <2>1, CellParts DEF ToBack
    <2> QED
      BY <1>3, <2>2
  <1>14. CASE tag = "case"
    <2>1. PICK v : v = s[k - 1][2]
      OBVIOUS
    <2>2. /\ k - 1 > b /\ s[k - 1][1] = "num" /\ k - 2 - v >= b /\ s[k - 2 - v][1] = "tag"
          /\ \A i \in 1..(k - 2) : i >= k - 1 - v => c[s[i][2]].op = "endof"
      BY <1>8, <1>9, <1>14, <2>1 DEF CellAt
    <2>3. v \in Nat
      <3>1. k - 1 \in 1..n
        BY <1>1, <2>2
      <3> QED
        BY <1>2, <2>1, <2>2, <3>1, CellIs
    <2>4. j # k - 1 /\ k - 2 - v # j /\ ~(k - 2 - v > j)
      BY <1>1, <1>3, <1>6, <2>2, <2>3
    <2>5. j \in 1..(k - 2) /\ j >= k - 1 - v
      BY <1>3, <1>6, <2>3, <2>4
    <2> QED
      BY <1>5, <2>2, <2>5
  <1> QED
    BY <1>9, <1>10, <1>12, <1>13, <1>14

\* The branches whose addresses are above cell Q.
Taken(s, q) == {s[j][2] : j \in {i \in WaitCells(s) : i > q}}
\* What a word does to code: it compiles G, or nothing, and patches the branches it takes from the stack.
Compiling(c, g) == g = c \/ \E e \in Instruction : Appended(c, g, e) /\ MayGoBack(c, e)
Patching(s, c, t, d, q, g) ==
    /\ Compiling(c, g)
    /\ Patched(g, d, Taken(s, q))
    /\ \A i \in Taken(s, q) : Fits(g, g[i].op)
    /\ \A i : i \in Waiting(g) <=> i \in Waiting(c) \/ \E j \in WaitCells(t) : j > q /\ t[j][2] = i
    /\ Taken(s, q) = {} \/ \A i \in Waiting(g) \ Waiting(c) : g[i].op # "do"

\* A branch compiled, or nothing.
LEMMA CompilingRight ==
    ASSUME NEW c \in Seq(Instruction), CodeRight(c), NEW g, Compiling(c, g)
    PROVE  g \in Seq(Instruction) /\ CodeRight(g) /\ SameBodies(c, g)
  <1>1. CASE g = c
    BY <1>1 DEF SameBodies
  <1>2. CASE \E e \in Instruction : Appended(c, g, e) /\ MayGoBack(c, e)
    <2>1. PICK e \in Instruction : Appended(c, g, e) /\ MayGoBack(c, e)
      BY <1>2
    <2>2. g \in Seq(Instruction)
      BY <2>1 DEF Appended
    <2> QED
      BY <2>1, <2>2, AppendRight
  <1> QED
    BY <1>1, <1>2 DEF Compiling

\* A word whose cells on the stack and branches in the code are as they should be.
LEMMA WordRight ==
    ASSUME NEW s, NEW c, NEW b, Branchy(s, c, b), NEW t, NEW d, NEW q, SameTo(s, t, q), NEW g,
           Patching(s, c, t, d, q, g), NewOnTop(s, t, q, Len(c) + 1),
           \A j \in BackCells(t) : j > q => Outside(c, t[j][2]) /\ t[j][2] \in Nat,
           Nested(t, d, b), Typed(t, d)
    PROVE  Branchy(t, d, b)
  <1>1. c \in Seq(Instruction) /\ Ordered(s) /\ Serves(s, c) /\ CodeRight(c) /\ s \in Seq(Cell)
    BY DEF Branchy, Nested
  <1>2. Older(s, c)
    BY OlderIs
  <1>3. PICK m \in Nat : m = Len(c) + 1
    BY <1>2 DEF Older
  <1>4. g \in Seq(Instruction) /\ CodeRight(g) /\ SameBodies(c, g)
    BY <1>1, CompilingRight DEF Patching
  <1>5. PICK P : P = Taken(s, q)
    OBVIOUS
  <1>6. \A i \in P : \E j \in WaitCells(s) : j > q /\ i = s[j][2]
    BY <1>5 DEF Taken
  <1>7. \A j \in WaitCells(s) : j > q => s[j][2] \in P
    BY <1>5 DEF Taken
  <1>8. \A j \in WaitCells(t) : j > q => t[j][2] = m
    BY <1>3 DEF NewOnTop
  <1>9. \A i \in P : i < m
    BY <1>2, <1>3, <1>6 DEF Older
  <1>10. q \in Nat
    BY DEF SameTo
  <1>11. ASSUME NEW i \in P, NEW x \in Dos(g, Waiting(g))
         PROVE  x < i
    <2>1. x \in Waiting(g) /\ g[x].op = "do" /\ x \notin P
      BY <1>5 DEF Dos, Patching, Fits
    <2>2. x \in Waiting(c)
      BY <1>5, <1>11, <2>1 DEF Patching
    <2>3. PICK k \in WaitCells(s) : s[k][2] = x
      BY <1>1, <2>2 DEF Serves
    <2>4. PICK j \in WaitCells(s) : j > q /\ i = s[j][2]
      BY <1>6
    <2>5. ~(k > q) /\ k \in Nat /\ j \in Nat
      BY <1>2, <1>7, <2>1, <2>3 DEF Older
    <2>6. k < j
      BY <1>10, <2>4, <2>5
    <2> QED
      BY <1>1, <2>3, <2>4, <2>6 DEF Ordered
  <1>12. CodeRight(d) /\ SameBodies(g, d)
    <2>1. Patched(g, d, P) /\ \A i \in P : Fits(g, g[i].op)
      BY <1>5 DEF Patching
    <2> QED
      BY <1>4, <1>11, <2>1, PatchRight
  <1>13. Ordered(t)
    BY <1>1, <1>3, Restack
  <1>14. Waiting(d) = Waiting(g) \ P
    BY <1>4, <1>5, PatchedSets DEF Patching
  <1>15. \A i : i \in Waiting(d) <=> \/ i \in Waiting(c) /\ \A j \in WaitCells(s) : j > q => s[j][2] # i
                                     \/ \E j \in WaitCells(t) : j > q /\ t[j][2] = i
    <2>1. \A i : i \in Waiting(g) <=> i \in Waiting(c) \/ \E j \in WaitCells(t) : j > q /\ t[j][2] = i
      BY DEF Patching
    <2>2. \A i : i \in P <=> \E j \in WaitCells(s) : j > q /\ i = s[j][2]
      BY <1>6, <1>7
    <2>3. m \notin P
      BY <1>9
    <2>4. \A i : (\E j \in WaitCells(t) : j > q /\ t[j][2] = i) => i \notin P
      BY <1>8, <2>3
    <2> QED
      BY <1>14, <2>1, <2>2, <2>4
  <1>16. \A j \in BackCells(s) : j <= q => Outside(d, s[j][2])
    BY <1>2, <1>4, <1>12 DEF Older, SameBodies
  <1>17. \A j \in BackCells(t) : j > q => Outside(d, t[j][2])
    BY <1>4, <1>12 DEF SameBodies
  <1>18. Serves(t, d)
    BY <1>1, <1>15, <1>16, <1>17, Reserve
  <1>19. d \in Seq(Instruction)
    BY DEF Patching, Patched
  <1> QED
    BY <1>12, <1>13, <1>18, <1>19 DEF Branchy

\* Code that nothing is patched in.
LEMMA NotPatched ==
    ASSUME NEW g \in Seq(Instruction)
    PROVE  Patched(g, g, {})
  BY DEF Patched
\* A branch that waits may be compiled everywhere, and so may what is no branch.
LEMMA MayWait ==
    ASSUME NEW c, NEW e \in Instruction, e.op \notin Branches \/ e.to = Open
    PROVE  MayGoBack(c, e)
  BY DEF MayGoBack

-----------------------------------------------------------------------------
(* What the words leave on the stack. *)

\* Code with an instruction compiled and branches patched keeps its instructions.
LEMMA PatchedKeeps ==
    ASSUME NEW c \in Seq(Instruction), NEW g, NEW e, Appended(c, g, e), NEW d, NEW P, Patched(g, d, P)
    PROVE  /\ Kept(c, d) /\ Len(c) \in Nat /\ Len(c) + 1 \in DOMAIN d /\ d[Len(c) + 1].op = e.op
           /\ \A i \in DOMAIN c : g[i] = c[i] /\ i \in DOMAIN g
  <1>1. PICK n \in Nat : n = Len(c) /\ DOMAIN c = 1..n
    BY Instructions
  <1>2. g \in Seq(Instruction) /\ Len(g) = n + 1 /\ g[n + 1] = e /\ \A i \in 1..n : g[i] = c[i]
    BY <1>1 DEF Appended
  <1>3. d \in Seq(Instruction) /\ Len(d) = n + 1 /\ DOMAIN d = 1..(n + 1) /\ \A i \in 1..(n + 1) : d[i].op = g[i].op
    BY <1>2 DEF Patched
  <1>4. n + 1 \in 1..(n + 1) /\ \A i \in 1..n : i \in 1..(n + 1)
    OBVIOUS
  <1> QED
    BY <1>1, <1>2, <1>3, <1>4 DEF Kept

\* T is the first Q cells of S, an address and its tag.
Paired(s, t, q, a, tag) ==
    /\ t \in Seq(Cell) /\ q \in Nat /\ q <= Len(s) /\ s[q][1] = "tag" /\ Len(t) = q + 2
    /\ \A i \in 1..q : t[i] = s[i]
    /\ t[q + 1] = Addr(a) /\ t[q + 2] = Tag(tag)
\* Such a stack.
LEMMA PairedIs ==
    ASSUME NEW s, NEW c, NEW b, Branchy(s, c, b), NEW t, NEW q, b <= q, NEW a, NEW tag \in Forward \cup Back,
           Paired(s, t, q, a, tag)
    PROVE  /\ SameTo(s, t, q) /\ s[q][1] # "addr" /\ q \in Nat
           /\ \A j \in WaitCells(t) : j > q => j = q + 1 /\ tag \in Forward /\ t[j][2] = a /\ t[j + 1] = Tag(tag)
           /\ \A j \in BackCells(t) : j > q => j = q + 1 /\ tag \in Back /\ t[j][2] = a
           /\ tag \in Forward => q + 1 \in WaitCells(t)
           /\ \A d : Kept(c, d) /\ CellAt(t, d, b, q + 2) => Nested(t, d, b)
  <1>1. s \in Seq(Cell) /\ b \in {1, 2} /\ t \in Seq(Cell) /\ q \in Nat /\ q <= Len(s) /\ s[q][1] = "tag"
        /\ Len(t) = q + 2 /\ (\A i \in 1..q : t[i] = s[i]) /\ t[q + 1] = Addr(a) /\ t[q + 2] = Tag(tag)
    BY DEF Branchy, Nested, Paired
  <1>2. SameTo(s, t, q)
    BY <1>1 DEF SameTo
  <1>3. t[q + 1][1] = "addr" /\ t[q + 1][2] = a /\ t[q + 2][1] = "tag"
    BY <1>1, CellParts
  <1>4. /\ \A j \in WaitCells(t) : j > q => j = q + 1 /\ tag \in Forward
        /\ \A j \in BackCells(t) : j > q => j = q + 1 /\ tag \in Back
        /\ q + 1 \in WaitCells(t) <=> tag \in Forward
    BY <1>1, <1>3, TopCells
  <1>5. ASSUME NEW d, Kept(c, d), CellAt(t, d, b, q + 2)
        PROVE  Nested(t, d, b)
    <2>1. PICK m \in Nat : m = q + 2 /\ m = Len(t) /\ m > q
      BY <1>1
    <2>2. \A i \in (q + 1)..(m - 1) : t[i][1] # "tag"
      <3>1. \A i \in (q + 1)..(m - 1) : i = q + 1
        BY <1>1, <2>1
      <3> QED
        BY <1>3, <3>1
    <2>3. Nested(s, c, b) /\ CellAt(t, d, b, m) /\ t[m][1] = "tag"
      BY <1>3, <1>5, <2>1 DEF Branchy
    <2> QED
      BY <1>1, <1>5, <2>1, <2>2, <2>3, NestedPush
  <1>6. q + 1 + 1 = q + 2
    BY <1>1
  <1> QED
    BY <1>1, <1>2, <1>3, <1>4, <1>5, <1>6

\* if, else, of and fallthrough: a branch that waits, with its address and its tag on top.
LEMMA OpenRight ==
    ASSUME NEW s, NEW c, NEW b, Branchy(s, c, b), NEW t, NEW q, b <= q, NEW tag \in Forward, tag # "leave",
           Paired(s, t, q, Len(c) + 1, tag), NEW e \in Instruction, e.op \in OpsOf(tag), e.op # "do", e.to = Open,
           NEW g, Appended(c, g, e), NEW d, Patched(g, d, Taken(s, q)), \A i \in Taken(s, q) : Fits(g, g[i].op),
           tag \in {"of", "fallthrough"} => s[q] = Tag("case"), Typed(t, d)
    PROVE  Branchy(t, d, b)
  <1>1. c \in Seq(Instruction) /\ Older(s, c)
    BY OlderIs DEF Branchy
  <1>2. PICK m \in Nat : m = Len(c) + 1
    BY <1>1 DEF Older
  <1>3. tag \in Forward \cup Back /\ tag \notin Back /\ tag # "case" /\ tag # "colon"
    BY DEF Forward, Back
  <1>4. /\ SameTo(s, t, q) /\ s[q][1] # "addr" /\ q \in Nat
        /\ \A j \in WaitCells(t) : j > q => j = q + 1 /\ t[j][2] = m /\ t[j + 1] = Tag(tag)
        /\ \A j \in BackCells(t) : ~(j > q)
        /\ q + 1 \in WaitCells(t)
        /\ \A f : Kept(c, f) /\ CellAt(t, f, b, q + 2) => Nested(t, f, b)
    BY <1>2, <1>3, PairedIs
  <1>5. Tag(tag) # Tag("leave")
    BY CellParts
  <1>6. NewOnTop(s, t, q, m)
    <2>1. \A j \in WaitCells(s) : s[j][2] < m
      BY <1>1, <1>2 DEF Older
    <2>2. \A j \in BackCells(s) : s[j][2] <= m
      BY <1>1, <1>2 DEF Older
    <2> QED
      BY <1>4, <2>1, <2>2 DEF NewOnTop
  <1>7. /\ Kept(c, d) /\ m \in DOMAIN d /\ d[m].op = e.op /\ \A i \in DOMAIN c : g[i] = c[i] /\ i \in DOMAIN g
    BY <1>1, <1>2, PatchedKeeps
  <1>8. CellAt(t, d, b, q + 2)
    <2>1. /\ t[q + 2][2] = tag /\ t[q + 1][1] = "addr" /\ t[q + 1][2] = m /\ t[q] = s[q] /\ t[q][1] = "tag"
      <3>1. q \in 1..q
        BY <1>4 DEF SameTo
      <3> QED
        BY <1>2, <3>1, CellParts DEF Paired
    <2>2. PICK k \in Nat : k = q + 2 /\ k - 2 = q /\ k - 1 = q + 1 /\ q >= b
      <3>1. b \in {1, 2}
        BY DEF Branchy, Nested
      <3> QED
        BY <1>4, <3>1
    <2>3. tag # "do"
      BY DEF Forward
    <2>4. /\ t[k][2] = tag /\ t[k - 1][1] = "addr" /\ t[k - 1][2] = m /\ t[k - 2][1] = "tag"
          /\ tag \in {"of", "fallthrough"} => t[k - 2] = Tag("case")
      BY <2>1, <2>2
    <2>5. CellAt(t, d, b, k)
      BY <1>3, <1>7, <2>2, <2>3, <2>4 DEF CellAt
    <2> QED
      BY <2>2, <2>5
  <1>9. e.op \in Branches
    BY DEF OpsOf
  <1>10. Waiting(g) = Waiting(c) \cup {m}
    BY <1>1, <1>2, <1>9, GrownIs DEF Grown
  <1>11. \A i : i \in Waiting(g) <=> i \in Waiting(c) \/ \E j \in WaitCells(t) : j > q /\ t[j][2] = i
    <2>1. q + 1 > q
      BY <1>4
    <2> QED
      BY <1>4, <1>10, <2>1
  <1>12. Patching(s, c, t, d, q, g)
    <2>1. Compiling(c, g)
      BY MayWait DEF Compiling
    <2>2. \A i \in Waiting(g) \ Waiting(c) : g[i].op # "do"
      BY <1>2, <1>10 DEF Appended
    <2> QED
      BY <1>11, <2>1, <2>2 DEF Patching
  <1> QED
    BY <1>2, <1>4, <1>6, <1>7, <1>8, <1>12, WordRight

\* then, until, repeat, loop and endcase: groups are taken from the stack.
LEMMA TakeRight ==
    ASSUME NEW s, NEW c, NEW b, Branchy(s, c, b), NEW t, NEW q, Dropped(s, t, q), b <= q, s[q][1] = "tag",
           NEW g, Compiling(c, g), Waiting(g) = Waiting(c),
           NEW d, Kept(c, d), Patched(g, d, Taken(s, q)), \A i \in Taken(s, q) : Fits(g, g[i].op), Typed(t, d)
    PROVE  Branchy(t, d, b)
  <1>1. Older(s, c) /\ b \in {1, 2} /\ s \in Seq(Cell)
    BY OlderIs DEF Branchy, Nested
  <1>2. q \in Nat /\ Len(t) = q /\ t \in Seq(Cell) /\ q <= Len(s) /\ \A i \in 1..q : t[i] = s[i]
    BY <1>1 DEF Dropped
  <1>3. q \in Nat \ {0}
    BY <1>1, <1>2
  <1>4. SameTo(s, t, q)
    BY <1>1, <1>2, <1>3 DEF SameTo
  <1>5. \A j \in WaitCells(t) \cup BackCells(t) : ~(j > q)
    BY <1>2 DEF WaitCells, BackCells
  <1>6. PICK m \in Nat : m = Len(c) + 1
    BY <1>1 DEF Older
  <1>7. NewOnTop(s, t, q, m)
    <2>1. \A j \in WaitCells(s) : s[j][2] < m
      BY <1>1, <1>6 DEF Older
    <2>2. \A j \in BackCells(s) : s[j][2] <= m
      BY <1>1, <1>6 DEF Older
    <2> QED
      BY <1>5, <2>1, <2>2 DEF NewOnTop
  <1>8. Nested(t, d, b)
    BY NestedDrop DEF Branchy
  <1>9. Patching(s, c, t, d, q, g)
    BY <1>5 DEF Patching
  <1> QED
    BY <1>4, <1>5, <1>6, <1>7, <1>8, <1>9, WordRight

\* An address and its tag on top of the stack, and what is below them.
TopWord(b, n, q, tag) ==
    /\ n = Len(stack) /\ q = n - 2 /\ q >= b /\ stack[q][1] = "tag" /\ q <= Len(stack)
    /\ stack[n] = Tag(tag)
    /\ Dropped(stack, Below(2), q) /\ q + 1 = n - 1
    /\ Holds(2) = stack[q + 1][2] /\ Holds(2) \in Nat /\ stack[q + 1][1] = "addr"
    /\ tag \in Forward => /\ Taken(stack, q) = {Holds(2)} /\ q + 1 \in WaitCells(stack)
                          /\ Holds(2) \in DOMAIN code /\ code[Holds(2)].op \in OpsOf(tag)
    /\ tag \in Back => /\ Taken(stack, q) = {} /\ q + 1 \in BackCells(stack)
                       /\ \A j \in WaitCells(stack) : j < q + 1
    /\ tag \in {"of", "fallthrough"} => stack[q] = Tag("case")
    /\ tag = "do" => n - 4 >= b /\ stack[q] = Tag("leave") /\ Holds(2) = stack[n - 3][2] + 1
\* What a word finds that looks for a tag.
LEMMA TopWordIs ==
    ASSUME NEW b, Branchy(stack, code, b), NEW tag \in Forward \cup Back, Matches(1, tag)
    PROVE  \E n, q \in Nat : TopWord(b, n, q, tag)
  <1>1. stack \in Seq(Cell) /\ b \in {1, 2} /\ Nested(stack, code, b) /\ b <= Len(stack)
    BY DEF Branchy, Nested
  <1>2. PICK n \in Nat : n = Len(stack) /\ n >= b
    BY <1>1
  <1>3. FromTop(1) = stack[n] /\ Holds(2) = stack[n - 1][2] /\ \A k \in 0..n : Dropped(stack, Below(k), n - k)
    BY <1>1, <1>2, Tops
  <1>4. stack[n] = Tag(tag)
    BY <1>3 DEF Matches
  <1>5. TopGroup(stack, code, b, n, tag)
    BY <1>1, <1>2, <1>4, NestedTop
  <1>6. PICK q \in Nat : q = n - 2 /\ q >= b /\ q + 1 = n - 1 /\ q + 2 = n /\ 2 \in 0..n
    BY <1>1, <1>2, <1>5 DEF TopGroup
  <1>7. stack[q][1] = "tag" /\ stack[q + 1][1] = "addr" /\ stack[q + 1][2] \in Nat
    BY <1>5, <1>6 DEF TopGroup
  <1>8. /\ \A j \in WaitCells(stack) : j > q => j = q + 1 /\ tag \in Forward
        /\ q + 1 \in WaitCells(stack) <=> tag \in Forward
        /\ q + 1 \in BackCells(stack) <=> tag \in Back
    BY <1>1, <1>2, <1>4, <1>6, <1>7, TopCells
  <1>9. q + 1 > q
    OBVIOUS
  <1>10. tag \in Forward => Taken(stack, q) = {stack[q + 1][2]}
    BY <1>8, <1>9 DEF Taken
  <1>11. tag \in Back => tag \notin Forward
    BY DEF Forward, Back
  <1>12. tag \in Back => Taken(stack, q) = {} /\ \A j \in WaitCells(stack) : j < q + 1
    <2> SUFFICES ASSUME tag \in Back PROVE Taken(stack, q) = {} /\ \A j \in WaitCells(stack) : j < q + 1
      OBVIOUS
    <2>1. \A j \in WaitCells(stack) : ~(j > q)
      BY <1>8, <1>11
    <2>2. \A j \in WaitCells(stack) : j \in Nat
      BY <1>1, OlderIs DEF Older
    <2> QED
      BY <2>1, <2>2 DEF Taken
  <1>13. Dropped(stack, Below(2), q)
    BY <1>3, <1>6
  <1>14. tag \in Forward => stack[q + 1][2] \in DOMAIN code /\ code[stack[q + 1][2]].op \in OpsOf(tag)
    BY <1>5, <1>6 DEF TopGroup
  <1>15. /\ tag \in {"of", "fallthrough"} => stack[q] = Tag("case")
         /\ tag = "do" => n - 4 >= b /\ stack[q] = Tag("leave") /\ stack[q + 1][2] = stack[n - 3][2] + 1
    BY <1>5, <1>6 DEF TopGroup
  <1>16. TopWord(b, n, q, tag)
    BY <1>2, <1>3, <1>4, <1>6, <1>7, <1>8, <1>10, <1>12, <1>13, <1>14, <1>15 DEF TopWord
  <1> QED
    BY <1>16

-----------------------------------------------------------------------------
(* The structure words, as long as no while stands outside of begin. *)

\* The instructions that structure words compile.
LEMMA BranchInstructions ==
    \A to \in Nat : \A op \in Branches \cup {"drop"} :
        Ins(op, to) \in Instruction /\ Ins(op, to).op = op /\ Ins(op, to).to = to
  BY DEF Ins, Instruction

\* One branch patched (resolveForwardBranch).
LEMMA PatchOne ==
    ASSUME NEW g \in Seq(Instruction), NEW a \in Waiting(g), NEW h, h = Len(g) + 1, NEW d, d = Patch(g, a, h)
    PROVE  Patched(g, d, {a})
  <1>1. a \in DOMAIN g /\ IsBranch(g, a) /\ h \in Nat
    BY DEF Waiting
  <1>2. Structured(g, g)
    BY StructuredSame
  <1>3. /\ Structured(g, d) /\ Len(d) = Len(g) /\ d[a] = Ins(g[a].op, h)
        /\ \A i \in DOMAIN g \ {a} : d[i] = g[i]
    BY <1>1, <1>2, StructuredPatch
  <1>4. d[a].to = h
    BY <1>3 DEF Ins
  <1> QED
    BY <1>3, <1>4 DEF Patched, Structured, Kept

\* What a branch with a tag finds before the place it is patched to.
LEMMA FitsTag ==
    ASSUME NEW g, NEW tag \in Forward, tag # "leave", NEW op \in OpsOf(tag),
           tag = "of" => g[Len(g)].op \in {"endof", "fallthrough"},
           tag = "fallthrough" => g[Len(g)].op \in {"of", "drop"}
    PROVE  Fits(g, op)
  <1>1. tag \in {"origin", "of", "fallthrough"}
    BY DEF Forward
  <1> QED
    BY <1>1 DEF OpsOf, Fits

\* Two cells pushed on some that end with a tag.
LEMMA PairOn ==
    ASSUME NEW s \in Seq(Cell), NEW q \in Nat, q <= Len(s), s[q][1] = "tag", NEW u, Dropped(s, u, q), NEW a \in Nat,
           NEW tag \in Forward \cup Back, NEW t, t = u \o markBranch(a, tag)
    PROVE  Paired(s, t, q, a, tag)
  <1>1. PICK x \in Cell, y \in Cell : x = Addr(a) /\ y = Tag(tag)
    BY CellsPushed
  <1>2. t = u \o <<x, y>>
    BY <1>1 DEF markBranch
  <1>3. u \in Seq(Cell) /\ Len(u) = q /\ \A i \in 1..q : u[i] = s[i]
    BY DEF Dropped
  <1>4. PushedTwo(u, t, x, y)
    BY <1>2, <1>3, PushTwo
  <1> QED
    BY <1>1, <1>3, <1>4 DEF PushedTwo, Paired

\* Nothing is taken from above the top.
LEMMA NoneTaken ==
    ASSUME NEW s, NEW n \in Nat, n = Len(s)
    PROVE  Taken(s, n) = {}
  <1>1. \A j \in 1..(n - 1) : ~(j > n)
    OBVIOUS
  <1> QED
    BY <1>1 DEF Taken, WaitCells

\* if, and of after what is no fallthrough
LEMMA OpenWord ==
    ASSUME NEW b, Branchy(stack, code, b), NEW tag \in Forward, tag # "leave", NEW op \in OpsOf(tag), op # "do",
           code' = Append(code, Ins(op, Open)), stack' = stack \o markBranch(here, tag),
           tag \in {"of", "fallthrough"} => stack[Len(stack)] = Tag("case"), Typed(stack', code')
    PROVE  Branchy(stack', code', b)
  <1>1. /\ stack \in Seq(Cell) /\ b \in {1, 2} /\ b <= Len(stack) /\ stack[Len(stack)][1] = "tag"
        /\ code \in Seq(Instruction)
    BY DEF Branchy, Nested
  <1>2. PICK n \in Nat, m \in Nat : n = Len(stack) /\ m = Len(code) + 1 /\ m = here
    BY <1>1 DEF here
  <1>3. PICK e \in Instruction : e = Ins(op, Open) /\ e.op = op /\ e.to = Open
    <2>1. Ins(op, Open) \in Instruction /\ Ins(op, Open).op = op /\ Ins(op, Open).to = Open
      BY DEF Ins, Instruction, OpsOf, Open
    <2> QED
      BY <2>1
  <1>4. PICK g : g = code'
    OBVIOUS
  <1>5. Appended(code, g, e) /\ g \in Seq(Instruction)
    <2>1. g = Append(code, e)
      BY <1>3, <1>4
    <2>2. Appended(code, g, e)
      BY <1>1, <2>1, AppendedIs
    <2> QED
      BY <2>2 DEF Appended
  <1>6. Taken(stack, n) = {}
    BY <1>2, NoneTaken
  <1>7. Patched(g, g, Taken(stack, n))
    BY <1>5, <1>6, NotPatched
  <1>8. PICK t : t = stack'
    OBVIOUS
  <1>9. Paired(stack, t, n, m, tag)
    <2>1. Dropped(stack, stack, n)
      BY <1>1, <1>2 DEF Dropped
    <2>2. t = stack \o markBranch(m, tag) /\ tag \in Forward \cup Back
      BY <1>2, <1>8
    <2>3. n <= Len(stack) /\ stack[n][1] = "tag" /\ stack \in Seq(Cell)
      BY <1>1, <1>2
    <2> QED
      BY <2>1, <2>2, <2>3, PairOn
  <1>10. Branchy(t, g, b)
    <2>1. b <= n /\ Paired(stack, t, n, Len(code) + 1, tag) /\ (tag \in {"of", "fallthrough"} => stack[n] = Tag("case"))
      BY <1>1, <1>2, <1>9
    <2>2. \A i \in Taken(stack, n) : Fits(g, g[i].op)
      BY <1>6
    <2>3. Typed(t, g) /\ e.op \in OpsOf(tag) /\ e.op # "do"
      BY <1>3, <1>4, <1>8
    <2> QED
      BY <1>3, <1>5, <1>7, <2>1, <2>2, <2>3, OpenRight
  <1> QED
    BY <1>4, <1>8, <1>10

\* A branch compiled, and the one on top of the stack patched behind it.
Replaced(g, e, d, a) ==
    /\ Appended(code, g, e) /\ e \in Instruction /\ Patched(g, d, {a}) /\ Kept(code, d)
    /\ g[a].op = code[a].op /\ g[Len(g)] = e
\* The code of else, of after a fallthrough, endof, fallthrough, repeat.
LEMMA ReplacedIs ==
    ASSUME code \in Seq(Instruction), NEW op \in Branches, NEW to \in Nat, NEW a \in Waiting(code),
           NEW d, d = Patch(Append(code, Ins(op, to)), a, here + 1)
    PROVE  \E g, e : Replaced(g, e, d, a) /\ e.op = op /\ e.to = to
  <1>1. PICK e \in Instruction : e = Ins(op, to) /\ e.op = op /\ e.to = to
    <2>1. Ins(op, to) \in Instruction /\ Ins(op, to).op = op /\ Ins(op, to).to = to
      BY DEF Ins, Instruction
    <2> QED
      BY <2>1
  <1>2. PICK g : g = Append(code, e)
    OBVIOUS
  <1>3. Appended(code, g, e) /\ g \in Seq(Instruction)
    <2>1. Appended(code, g, e)
      BY <1>2, AppendedIs
    <2> QED
      BY <2>1 DEF Appended
  <1>4. a \in Waiting(g)
    <2>1. Grown(code, g, e)
      BY <1>3, GrownIs
    <2> QED
      BY <2>1 DEF Grown
  <1>5. Len(g) = Len(code) + 1 /\ Len(code) \in Nat /\ here + 1 = Len(g) + 1 /\ g[Len(g)] = e
    <2>1. PICK l \in Nat : l = Len(code)
      OBVIOUS
    <2> QED
      BY <1>3, <2>1 DEF Appended, here
  <1>6. Patched(g, d, {a})
    <2>1. d = Patch(g, a, Len(g) + 1)
      BY <1>1, <1>2, <1>5
    <2> QED
      BY <1>3, <1>4, <2>1, PatchOne
  <1>7. Kept(code, d)
    BY <1>3, <1>6, PatchedKeeps
  <1>8. g[a].op = code[a].op
    BY <1>3 DEF Appended, Waiting
  <1>9. Replaced(g, e, d, a)
    BY <1>3, <1>5, <1>6, <1>7, <1>8 DEF Replaced
  <1> QED
    BY <1>1, <1>9

\* else, fallthrough, and of after a fallthrough
LEMMA ReplaceWord ==
    ASSUME NEW b, Branchy(stack, code, b), NEW old \in Forward, old # "leave", Matches(1, old),
           NEW tag \in Forward, tag # "leave", NEW op \in OpsOf(tag), op # "do",
           old = "of" => op \in {"endof", "fallthrough"}, old = "fallthrough" => op \in {"of", "drop"},
           tag \in {"of", "fallthrough"} => old \in {"of", "fallthrough"},
           code' = Patch(Append(code, Ins(op, Open)), Holds(2), here + 1),
           stack' = Below(2) \o markBranch(here, tag), Typed(stack', code')
    PROVE  Branchy(stack', code', b)
  <1>1. old \in Forward \cup Back /\ tag \in Forward \cup Back /\ op \in Branches /\ Open \in Nat
    BY DEF OpsOf, Open
  <1>2. PICK n \in Nat, q \in Nat : TopWord(b, n, q, old)
    BY <1>1, TopWordIs
  <1>3. stack \in Seq(Cell) /\ code \in Seq(Instruction) /\ Older(stack, code)
    BY OlderIs DEF Branchy, Nested
  <1>4. PICK a : a = Holds(2)
    OBVIOUS
  <1>5. a \in Waiting(code) /\ Taken(stack, q) = {a} /\ code[a].op \in OpsOf(old)
    BY <1>2, <1>3, <1>4 DEF TopWord, Older
  <1>6. PICK d : d = code' /\ d = Patch(Append(code, Ins(op, Open)), a, here + 1)
    BY <1>4
  <1>7. PICK g, e : Replaced(g, e, d, a) /\ e.op = op /\ e.to = Open
    BY <1>1, <1>3, <1>5, <1>6, ReplacedIs
  <1>8. Fits(g, g[a].op)
    BY <1>5, <1>7, FitsTag DEF Replaced
  <1>9. PICK m \in Nat : m = here /\ m = Len(code) + 1
    BY <1>3 DEF here
  <1>10. PICK t : t = stack'
    OBVIOUS
  <1>11. Paired(stack, t, q, m, tag)
    <2>1. t = Below(2) \o markBranch(m, tag)
      BY <1>9, <1>10
    <2> QED
      BY <1>1, <1>2, <1>3, <2>1, PairOn DEF TopWord
  <1>12. Branchy(t, d, b)
    <2>1. /\ b <= q /\ Paired(stack, t, q, Len(code) + 1, tag)
          /\ (tag \in {"of", "fallthrough"} => stack[q] = Tag("case"))
      BY <1>2, <1>9, <1>11 DEF TopWord
    <2>2. Patched(g, d, Taken(stack, q)) /\ \A i \in Taken(stack, q) : Fits(g, g[i].op)
      BY <1>5, <1>7, <1>8 DEF Replaced
    <2>3. Typed(t, d) /\ e.op \in OpsOf(tag) /\ e.op # "do" /\ e \in Instruction /\ Appended(code, g, e)
      BY <1>6, <1>7, <1>10 DEF Replaced
    <2> QED
      BY <1>7, <2>1, <2>2, <2>3, OpenRight
  <1> QED
    BY <1>6, <1>10, <1>12

BranchPre(b) == WordPre /\ Branchy(stack, code, b)
BranchPost(b) == Branchy(stack', code', b)

\* if
LEMMA IfRight == ASSUME NEW b, BranchPre(b), If PROVE BranchPost(b)
  <1>1. "origin" \in Forward /\ "origin" # "leave" /\ "if" \in OpsOf("origin") /\ "if" # "do"
    BY DEF Forward, OpsOf, Branches
  <1>2. Typed(stack', code') /\ Branchy(stack, code, b)
    BY IfKeeps DEF BranchPre, WordPost
  <1>3. code' = Append(code, Ins("if", Open)) /\ stack' = stack \o markBranch(here, "origin")
    BY DEF If, Plainly, Compiles
  <1> QED
    BY <1>1, <1>2, <1>3, OpenWord DEF BranchPost

\* else
LEMMA ElseRight == ASSUME NEW b, BranchPre(b), Else PROVE BranchPost(b)
  <1>1. "origin" \in Forward /\ "origin" # "leave" /\ "else" \in OpsOf("origin") /\ "else" # "do"
    BY DEF Forward, OpsOf, Branches
  <1>2. Typed(stack', code') /\ Branchy(stack, code, b)
    BY ElseKeeps DEF BranchPre, WordPost
  <1>3. /\ Matches(1, "origin") /\ code' = Patch(Append(code, Ins("else", Open)), Holds(2), here + 1)
        /\ stack' = Below(2) \o markBranch(here, "origin")
    BY DEF Else, Plainly, Compiles
  <1> QED
    BY <1>1, <1>2, <1>3, ReplaceWord DEF BranchPost

\* fallthrough
LEMMA FallthroughRight == ASSUME NEW b, BranchPre(b), Fallthrough PROVE BranchPost(b)
  <1>1. /\ "of" \in Forward /\ "of" # "leave" /\ "fallthrough" \in Forward /\ "fallthrough" # "leave"
        /\ "fallthrough" \in OpsOf("fallthrough") /\ "fallthrough" # "do"
    BY DEF Forward, OpsOf, Branches
  <1>2. Typed(stack', code') /\ Branchy(stack, code, b)
    BY FallthroughKeeps DEF BranchPre, WordPost
  <1>3. /\ Matches(1, "of") /\ code' = Patch(Append(code, Ins("fallthrough", Open)), Holds(2), here + 1)
        /\ stack' = Below(2) \o markBranch(here, "fallthrough")
    BY DEF Fallthrough, Plainly, Compiles
  <1> QED
    BY <1>1, <1>2, <1>3, ReplaceWord DEF BranchPost

\* of, after a fallthrough and after something else
LEMMA OfRight == ASSUME NEW b, BranchPre(b), Of PROVE BranchPost(b)
  <1>1. /\ "of" \in Forward /\ "of" # "leave" /\ "fallthrough" \in Forward /\ "fallthrough" # "leave"
        /\ "of" \in OpsOf("of") /\ "of" # "do"
    BY DEF Forward, OpsOf, Branches
  <1>2. Typed(stack', code') /\ Branchy(stack, code, b)
    BY OfKeeps DEF BranchPre, WordPost
  <1>3. CASE Matches(1, "fallthrough")
    <2>1. Fell = 2
      BY <1>3 DEF Fell
    <2>2. /\ code' = Patch(Append(code, Ins("of", Open)), Holds(2), here + 1)
          /\ stack' = Below(2) \o markBranch(here, "of")
      BY <2>1 DEF Of, Plainly, Compiles
    <2> QED
      BY <1>1, <1>2, <1>3, <2>2, ReplaceWord DEF BranchPost
  <1>4. CASE ~Matches(1, "fallthrough")
    <2>1. Fell = 0
      BY <1>4 DEF Fell
    <2>2. code' = Append(code, Ins("of", Open)) /\ stack' = Below(0) \o markBranch(here, "of") /\ Matches(0 + 1, "case")
      BY <2>1 DEF Of, Plainly, Compiles
    <2>3. stack \in Seq(Cell)
      BY <1>2 DEF Branchy, Nested
    <2>4. Below(0) = stack
      BY <2>3 DEF Below
    <2>5. FromTop(1) = Tag("case") /\ FromTop(1) = stack[Len(stack)]
      BY <2>2, <2>3, Tops DEF Matches
    <2> QED
      BY <1>1, <1>2, <2>2, <2>4, <2>5, OpenWord DEF BranchPost
  <1> QED
    BY <1>3, <1>4

\* then
LEMMA ThenRight == ASSUME NEW b, BranchPre(b), Then PROVE BranchPost(b)
  <1>1. Typed(stack', code') /\ Branchy(stack, code, b)
    BY ThenKeeps DEF BranchPre, WordPost
  <1>2. "origin" \in Forward /\ "origin" # "leave" /\ "origin" \in Forward \cup Back
    BY DEF Forward
  <1>3. Matches(1, "origin") /\ code' = Patch(code, Holds(2), here) /\ stack' = Below(2)
    BY DEF Then, Plainly, Compiles
  <1>4. PICK n \in Nat, q \in Nat : TopWord(b, n, q, "origin")
    BY <1>1, <1>2, <1>3, TopWordIs
  <1>5. code \in Seq(Instruction) /\ Older(stack, code)
    BY <1>1, OlderIs DEF Branchy
  <1>6. PICK a : a = Holds(2)
    OBVIOUS
  <1>7. a \in Waiting(code) /\ Taken(stack, q) = {a} /\ code[a].op \in OpsOf("origin")
    BY <1>2, <1>4, <1>5, <1>6 DEF TopWord, Older
  <1>8. PICK d, t : d = code' /\ t = stack'
    OBVIOUS
  <1>9. Patched(code, d, {a})
    <2>1. d = Patch(code, a, here) /\ here = Len(code) + 1
      BY <1>3, <1>6, <1>8 DEF here
    <2> QED
      BY <1>5, <1>7, <2>1, PatchOne
  <1>10. Kept(code, d)
    BY <1>5, <1>9 DEF Patched, Kept
  <1>11. Fits(code, code[a].op)
    BY <1>2, <1>7, FitsTag
  <1>12. Compiling(code, code)
    BY DEF Compiling
  <1>13. Branchy(t, d, b)
    <2>1. Dropped(stack, t, q) /\ b <= q /\ stack[q][1] = "tag"
      BY <1>3, <1>4, <1>8 DEF TopWord
    <2>2. Patched(code, d, Taken(stack, q)) /\ \A i \in Taken(stack, q) : Fits(code, code[i].op)
      BY <1>7, <1>9, <1>11
    <2> QED
      BY <1>1, <1>8, <1>10, <1>12, <2>1, <2>2, TakeRight
  <1> QED
    BY <1>8, <1>13 DEF BranchPost

\* A place to go back to: in no body, and behind every do that waits.
LEMMA GoesBack ==
    ASSUME NEW b, Branchy(stack, code, b), NEW tag \in Back, NEW n \in Nat, NEW q \in Nat, TopWord(b, n, q, tag),
           NEW e \in Instruction, e.op \in {"until", "repeat", "loop"}, e.to = Holds(2)
    PROVE  MayGoBack(code, e) /\ e.to \in 1..(Len(code) + 1) /\ e.to # Open
  <1>1. Older(stack, code) /\ Nested(stack, code, b) /\ Ordered(stack) /\ Serves(stack, code)
    BY OlderIs DEF Branchy
  <1>2. q + 1 \in BackCells(stack) /\ stack[q + 1][2] = e.to /\ \A j \in WaitCells(stack) : j < q + 1
    BY DEF TopWord
  <1>3. ASSUME NEW x \in Dos(code, Waiting(code))
        PROVE  x < e.to
    <2>1. x \in Waiting(code) /\ code[x].op = "do"
      BY DEF Dos
    <2>2. PICK j \in WaitCells(stack) : stack[j][2] = x
      BY <1>1, <2>1 DEF Serves
    <2>3. PICK fw \in Forward : stack[j + 1] = Tag(fw) /\ "do" \in OpsOf(fw)
      BY <1>1, <2>1, <2>2, WaitKinds
    <2>4. fw = "leave"
      BY <2>3 DEF OpsOf, Forward
    <2> QED
      BY <1>1, <1>2, <2>2, <2>3, <2>4 DEF Ordered
  <1>4. Outside(code, e.to) /\ e.to \in Nat /\ e.to <= Len(code) + 1
    BY <1>1, <1>2 DEF Older
  <1>5. e.to \in 1..(Len(code) + 1)
    <2>1. q + 1 \in DOMAIN stack /\ stack[q + 1][1] = "addr"
      BY <1>1, <1>2 DEF BackCells, Older
    <2> QED
      BY <1>2, <2>1 DEF Branchy, Typed
  <1>6. e.to # Open
    BY <1>1, <1>5 DEF Older, Open
  <1> QED
    BY <1>3, <1>4, <1>5, <1>6 DEF MayGoBack

\* until and again
LEMMA UntilRight == ASSUME NEW b, BranchPre(b), Until PROVE BranchPost(b)
  <1>1. Typed(stack', code') /\ Branchy(stack, code, b)
    BY UntilKeeps DEF BranchPre, WordPost
  <1>2. "target" \in Back /\ "target" \in Forward \cup Back
    BY DEF Back
  <1>3. Matches(1, "target") /\ code' = Append(code, Ins("until", Holds(2))) /\ stack' = Below(2)
    BY DEF Until, Plainly, Compiles
  <1>4. PICK n \in Nat, q \in Nat : TopWord(b, n, q, "target")
    BY <1>1, <1>2, <1>3, TopWordIs
  <1>5. code \in Seq(Instruction)
    BY <1>1 DEF Branchy
  <1>6. PICK a \in Nat : a = Holds(2)
    BY <1>4 DEF TopWord
  <1>7. PICK e \in Instruction : e = Ins("until", a) /\ e.op = "until" /\ e.to = a
    <2>1. "until" \in Branches
      BY DEF Branches
    <2> QED
      BY <2>1, BranchInstructions
  <1>8. MayGoBack(code, e) /\ e.to # Open
    BY <1>1, <1>2, <1>4, <1>6, <1>7, GoesBack
  <1>9. PICK d, t : d = code' /\ t = stack'
    OBVIOUS
  <1>10. Appended(code, d, e)
    <2>1. d = Append(code, e)
      BY <1>3, <1>6, <1>7, <1>9
    <2> QED
      BY <1>5, <2>1, AppendedIs
  <1>11. d \in Seq(Instruction) /\ Kept(code, d)
    BY <1>10 DEF Appended
  <1>12. Waiting(d) = Waiting(code)
    BY <1>5, <1>8, <1>10, GrownIs DEF Grown
  <1>13. Compiling(code, d)
    BY <1>8, <1>10 DEF Compiling
  <1>14. Branchy(t, d, b)
    <2>1. Dropped(stack, t, q) /\ b <= q /\ stack[q][1] = "tag"
      BY <1>3, <1>4, <1>9 DEF TopWord
    <2>2. Taken(stack, q) = {}
      BY <1>2, <1>4 DEF TopWord
    <2>3. Patched(d, d, Taken(stack, q)) /\ \A i \in Taken(stack, q) : Fits(d, d[i].op)
      BY <1>11, <2>2, NotPatched
    <2> QED
      BY <1>1, <1>9, <1>11, <1>12, <1>13, <2>1, <2>3, TakeRight
  <1> QED
    BY <1>9, <1>14 DEF BranchPost

\* The stack of a word that pushes cells (begin, case, do).
LEMMA TopOf ==
    ASSUME NEW b, Branchy(stack, code, b)
    PROVE  /\ stack \in Seq(Cell) /\ b \in {1, 2} /\ b <= Len(stack) /\ stack[Len(stack)][1] = "tag" /\ Len(stack) \in Nat
           /\ code \in Seq(Instruction) /\ here \in Nat /\ here = Len(code) + 1 /\ Older(stack, code)
           /\ Dropped(stack, stack, Len(stack)) /\ Taken(stack, Len(stack)) = {} /\ Compiling(code, code)
           /\ Patched(code, code, Taken(stack, Len(stack))) /\ Kept(code, code)
  <1>1. /\ stack \in Seq(Cell) /\ b \in {1, 2} /\ b <= Len(stack) /\ stack[Len(stack)][1] = "tag"
        /\ code \in Seq(Instruction)
    BY DEF Branchy, Nested
  <1>2. PICK n \in Nat : n = Len(stack)
    BY <1>1
  <1>3. Dropped(stack, stack, n)
    BY <1>1, <1>2 DEF Dropped
  <1>4. Taken(stack, n) = {}
    BY <1>2, NoneTaken
  <1> QED
    BY <1>1, <1>2, <1>3, <1>4, OlderIs, NotPatched DEF Compiling, here, Kept

\* begin
LEMMA BeginLoopRight == ASSUME NEW b, BranchPre(b), BeginLoop PROVE BranchPost(b)
  <1>1. Typed(stack', code') /\ Branchy(stack, code, b)
    BY BeginLoopKeeps DEF BranchPre, WordPost
  <1>2. code' = code /\ stack' = stack \o markBranch(here, "target")
    BY DEF BeginLoop, Plainly, Compiles
  <1>3. "target" \in Back /\ "target" \notin Forward /\ "target" \in Forward \cup Back
    BY DEF Forward, Back
  <1>4. PICK n \in Nat, m \in Nat : n = Len(stack) /\ m = here /\ m = Len(code) + 1
    BY <1>1, TopOf
  <1>5. PICK t : t = stack'
    OBVIOUS
  <1>6. Paired(stack, t, n, m, "target")
    <2>1. t = stack \o markBranch(m, "target")
      BY <1>2, <1>4, <1>5
    <2>2. n <= Len(stack) /\ stack[n][1] = "tag" /\ stack \in Seq(Cell) /\ Dropped(stack, stack, n)
      BY <1>1, <1>4, TopOf
    <2> QED
      BY <1>3, <2>1, <2>2, PairOn
  <1>7. /\ SameTo(stack, t, n) /\ stack[n][1] # "addr"
        /\ \A j \in WaitCells(t) : ~(j > n)
        /\ \A j \in BackCells(t) : j > n => j = n + 1 /\ t[j][2] = m
        /\ \A d : Kept(code, d) /\ CellAt(t, d, b, n + 2) => Nested(t, d, b)
    <2>1. b <= n
      BY <1>1, <1>4, TopOf
    <2> QED
      BY <1>1, <1>3, <1>6, <2>1, PairedIs
  <1>8. NewOnTop(stack, t, n, m)
    <2>1. Older(stack, code)
      BY <1>1, TopOf
    <2>2. \A j \in WaitCells(t) : t[j][2] < m
      <3> TAKE j \in WaitCells(t)
      <3>1. j \in 1..n
        <4>1. ~(j > n) /\ j \in Nat /\ j >= 1
          <5>1. t \in Seq(Cell)
            BY <1>7 DEF SameTo
          <5>2. j \in 1..(Len(t) - 1)
            BY DEF WaitCells
          <5> QED
            BY <1>7, <5>1, <5>2
        <4> QED
          BY <4>1
      <3>2. j \in WaitCells(stack) /\ t[j] = stack[j]
        BY <1>7, <3>1, SameCells
      <3> QED
        BY <1>4, <2>1, <3>2 DEF Older
    <2> QED
      BY <1>4, <1>7, <2>1, <2>2 DEF NewOnTop, Older
  <1>9. CellAt(t, code, b, n + 2)
    <2>1. PICK k \in Nat : k = n + 2 /\ k - 2 = n /\ k - 1 = n + 1 /\ n >= b
      BY <1>1, <1>4, TopOf
    <2>2. t[k][2] = "target" /\ t[k - 1][1] = "addr" /\ t[k - 2][1] = "tag"
      <3>1. n \in 1..n
        BY <1>1, <1>4, TopOf
      <3> QED
        BY <1>6, <2>1, <3>1, CellParts DEF Paired
    <2>3. CellAt(t, code, b, k)
      BY <1>3, <2>1, <2>2 DEF CellAt
    <2> QED
      BY <2>1, <2>3
  <1>10. Patching(stack, code, t, code, n, code)
    <2>1. Taken(stack, n) = {} /\ Patched(code, code, Taken(stack, n)) /\ Compiling(code, code)
      BY <1>1, <1>4, TopOf
    <2> QED
      BY <1>7, <2>1 DEF Patching
  <1>11. Outside(code, m)
    BY <1>1, <1>4, TopOf DEF Older
  <1>12. Branchy(t, code, b)
    <2>1. Kept(code, code) /\ Typed(t, code)
      BY <1>1, <1>2, <1>5, TopOf
    <2>2. \A j \in BackCells(t) : j > n => Outside(code, t[j][2]) /\ t[j][2] \in Nat
      BY <1>7, <1>11
    <2> QED
      BY <1>1, <1>4, <1>7, <1>8, <1>9, <1>10, <2>1, <2>2, WordRight
  <1> QED
    BY <1>2, <1>5, <1>12 DEF BranchPost

\* case
LEMMA CaseRight == ASSUME NEW b, BranchPre(b), Case PROVE BranchPost(b)
  <1>1. Typed(stack', code') /\ Branchy(stack, code, b)
    BY CaseKeeps DEF BranchPre, WordPost
  <1>2. PICK x \in Cell, y \in Cell : x = Num(0) /\ y = Tag("case") /\ x[1] = "num" /\ x[2] = 0 /\ y[1] = "tag" /\ y[2] = "case"
    BY CellsPushed, CellParts
  <1>3. PICK t : t = stack' /\ t = stack \o <<x, y>> /\ code' = code
    BY <1>2 DEF Case, Plainly, Compiles
  <1>4. PICK n \in Nat, m \in Nat : n = Len(stack) /\ m = here /\ m = Len(code) + 1
    BY <1>1, TopOf
  <1>5. stack \in Seq(Cell) /\ b \in {1, 2} /\ b <= n /\ stack[n][1] = "tag" /\ Older(stack, code)
    BY <1>1, <1>4, TopOf
  <1>6. t \in Seq(Cell) /\ Len(t) = n + 2 /\ (\A i \in 1..n : t[i] = stack[i]) /\ t[n + 1] = x /\ t[n + 2] = y
    BY <1>3, <1>4, <1>5, PushTwo DEF PushedTwo
  <1>7. SameTo(stack, t, n)
    BY <1>4, <1>5, <1>6 DEF SameTo
  <1>8. \A j \in WaitCells(t) \cup BackCells(t) : ~(j > n)
    <2>1. \A j \in 1..(n + 2 - 1) : j > n => j = n + 1
      OBVIOUS
    <2> QED
      BY <1>2, <1>6, <2>1 DEF WaitCells, BackCells
  <1>9. NewOnTop(stack, t, n, m)
    BY <1>4, <1>5, <1>8 DEF NewOnTop, Older
  <1>10. CellAt(t, code, b, n + 2)
    <2>1. PICK k \in Nat : k = n + 2 /\ k - 2 = n /\ k - 1 = n + 1 /\ n >= b /\ k - 1 > b /\ n - 0 = n
      BY <1>5
    <2>2. t[k][2] = "case" /\ t[k - 1][1] = "num" /\ t[k - 1][2] = 0 /\ t[n][1] = "tag"
      BY <1>2, <1>5, <1>6, <2>1
    <2>3. "case" \notin Forward \cup Back
      BY DEF Forward, Back
    <2>4. \A j \in 1..(k - 2) : ~(j >= k - 1 - 0)
      BY <2>1
    <2>5. CellAt(t, code, b, k)
      BY <2>1, <2>2, <2>3, <2>4 DEF CellAt, Forward
    <2> QED
      BY <2>1, <2>5
  <1>11. Nested(t, code, b)
    <2>1. PICK k \in Nat : k = n + 2 /\ k = Len(t) /\ k > n /\ t[k][1] = "tag" /\ CellAt(t, code, b, k)
      BY <1>2, <1>6, <1>10
    <2>2. \A i \in (n + 1)..(k - 1) : t[i][1] # "tag"
      <3>1. \A i \in (n + 1)..(k - 1) : i = n + 1
        BY <2>1
      <3> QED
        BY <1>2, <1>6, <3>1
    <2>3. Kept(code, code) /\ Nested(stack, code, b) /\ n <= Len(stack)
      BY <1>1, <1>4, TopOf DEF Branchy
    <2> QED
      BY <1>5, <1>6, <2>1, <2>2, <2>3, NestedPush
  <1>12. Patching(stack, code, t, code, n, code)
    <2>1. Taken(stack, n) = {} /\ Patched(code, code, Taken(stack, n)) /\ Compiling(code, code)
      BY <1>1, <1>4, TopOf
    <2> QED
      BY <1>8, <2>1 DEF Patching
  <1>13. Branchy(t, code, b)
    BY <1>1, <1>3, <1>4, <1>7, <1>8, <1>9, <1>11, <1>12, WordRight
  <1> QED
    BY <1>3, <1>13 DEF BranchPost

\* Cells up to Q that are the same are addresses of branches that wait, before the code to come.
LEMMA OlderWait ==
    ASSUME NEW s, NEW c, Older(s, c), NEW t, NEW q, SameTo(s, t, q), NEW j \in WaitCells(t)
    PROVE  j > q \/ (j \in 1..q /\ j \in WaitCells(s) /\ t[j] = s[j] /\ t[j][2] \in Nat /\ t[j][2] < Len(c) + 1)
  <1>1. t \in Seq(Cell) /\ q \in Nat
    BY DEF SameTo
  <1>2. j \in 1..(Len(t) - 1)
    BY DEF WaitCells
  <1>3. j > q \/ j \in 1..q
    BY <1>1, <1>2
  <1>4. ASSUME j \in 1..q
        PROVE  j \in WaitCells(s) /\ t[j] = s[j]
    BY <1>4, SameCells
  <1> QED
    BY <1>3, <1>4 DEF Older

\* do and ?do
LEMMA DoRight == ASSUME NEW b, BranchPre(b), Do PROVE BranchPost(b)
  <1>1. Typed(stack', code') /\ Branchy(stack, code, b)
    BY DoKeeps DEF BranchPre, WordPost
  <1>2. PICK n \in Nat, m \in Nat : n = Len(stack) /\ m = here /\ m = Len(code) + 1
    BY <1>1, TopOf
  <1>3. /\ stack \in Seq(Cell) /\ b \in {1, 2} /\ b <= n /\ stack[n][1] = "tag" /\ Older(stack, code)
        /\ code \in Seq(Instruction) /\ Taken(stack, n) = {}
    BY <1>1, <1>2, TopOf
  <1>4. /\ "leave" \in Forward /\ "leave" \in Forward \cup Back /\ "do" \in Forward \cup Back /\ "do" \notin Forward
        /\ "do" \in Back /\ "leave" \notin Back /\ "do" \in Branches /\ "do" \in OpsOf("leave")
    BY DEF Forward, Back, Branches, OpsOf
  <1>5. PICK e \in Instruction : e = Ins("do", Open) /\ e.op = "do" /\ e.to = Open
    BY <1>4, BranchInstructions DEF Open
  <1>6. PICK d, t : d = code' /\ t = stack'
    OBVIOUS
  <1>7. Appended(code, d, e)
    <2>1. d = Append(code, e)
      BY <1>5, <1>6 DEF Do, Plainly, Compiles
    <2> QED
      BY <1>3, <2>1, AppendedIs
  <1>8. PICK u : u = stack \o markBranch(m, "leave")
    OBVIOUS
  <1>9. t = u \o markBranch(m + 1, "do")
    <2>1. PICK p, o : p = markBranch(m, "leave") /\ o = markBranch(m + 1, "do")
      OBVIOUS
    <2>2. p \in Seq(Cell) /\ o \in Seq(Cell)
      <3>1. Addr(m) \in Cell /\ Addr(m + 1) \in Cell /\ Tag("leave") \in Cell /\ Tag("do") \in Cell
        BY <1>4, CellsPushed
      <3> QED
        BY <2>1, <3>1 DEF markBranch
    <2>3. t = stack \o p \o o
      BY <1>2, <1>6, <2>1 DEF Do, Plainly, Compiles
    <2> QED
      BY <1>3, <1>8, <2>1, <2>2, <2>3
  <1>10. PICK x \in Cell, y \in Cell, z \in Cell, w \in Cell :
            /\ x = Addr(m) /\ y = Tag("leave") /\ z = Addr(m + 1) /\ w = Tag("do")
            /\ x[1] = "addr" /\ x[2] = m /\ y[1] = "tag" /\ y[2] = "leave" /\ z[1] = "addr" /\ z[2] = m + 1
            /\ w[1] = "tag" /\ w[2] = "do"
    BY <1>4, CellsPushed, CellParts
  <1>11. /\ u \in Seq(Cell) /\ Len(u) = n + 2 /\ (\A i \in 1..n : u[i] = stack[i]) /\ u[n + 1] = x /\ u[n + 2] = y
    <2>1. u = stack \o <<x, y>>
      BY <1>8, <1>10 DEF markBranch
    <2>2. PushedTwo(stack, u, x, y)
      BY <1>3, <2>1, PushTwo
    <2> QED
      BY <1>2, <2>2 DEF PushedTwo
  <1>12. /\ t \in Seq(Cell) /\ Len(t) = n + 4 /\ \A i \in 1..n : t[i] = stack[i]
         /\ t[n + 1] = x /\ t[n + 2] = y /\ t[n + 3] = z /\ t[n + 4] = w
    <2>1. t = u \o <<z, w>>
      BY <1>9, <1>10 DEF markBranch
    <2>2. PushedTwo(u, t, z, w)
      BY <1>11, <2>1, PushTwo
    <2>3. n + 2 + 1 = n + 3 /\ n + 2 + 2 = n + 4 /\ n + 1 \in 1..(n + 2) /\ n + 2 \in 1..(n + 2)
          /\ \A i \in 1..n : i \in 1..(n + 2)
      OBVIOUS
    <2>4. t \in Seq(Cell) /\ Len(t) = n + 4 /\ (\A i \in 1..(n + 2) : t[i] = u[i]) /\ t[n + 3] = z /\ t[n + 4] = w
      BY <1>11, <2>2, <2>3 DEF PushedTwo
    <2> QED
      BY <1>11, <2>3, <2>4
  <1>13. SameTo(stack, t, n)
    BY <1>2, <1>3, <1>12 DEF SameTo
  <1>14. ~ToBack(t, n + 1) /\ ToBack(t, n + 3)
    <2>1. n + 1 + 1 = n + 2 /\ n + 3 + 1 = n + 4
      OBVIOUS
    <2> QED
      BY <1>4, <1>10, <1>12, <2>1 DEF ToBack
  <1>15. /\ \A j \in WaitCells(t) : j > n => j = n + 1 /\ t[j][2] = m
         /\ \A j \in BackCells(t) : j > n => j = n + 3 /\ t[j][2] = m + 1
         /\ n + 1 \in WaitCells(t)
    <2>1. \A j \in 1..(n + 4 - 1) : j > n => j = n + 1 \/ j = n + 2 \/ j = n + 3
      OBVIOUS
    <2>2. n + 1 \in 1..(n + 4 - 1)
      OBVIOUS
    <2>3. t[n + 1][1] = "addr" /\ t[n + 1][2] = m /\ t[n + 2][1] # "addr" /\ t[n + 3][2] = m + 1
      BY <1>10, <1>12
    <2>4. /\ WaitCells(t) = {j \in 1..(n + 4 - 1) : t[j][1] = "addr" /\ ~ToBack(t, j)}
          /\ BackCells(t) = {j \in 1..(n + 4 - 1) : t[j][1] = "addr" /\ ToBack(t, j)}
      BY <1>12 DEF WaitCells, BackCells
    <2>5. \A j \in WaitCells(t) : j > n => j = n + 1 /\ t[j][2] = m
      BY <1>14, <2>1, <2>3, <2>4
    <2>6. \A j \in BackCells(t) : j > n => j = n + 3 /\ t[j][2] = m + 1
      BY <1>14, <2>1, <2>3, <2>4
    <2>7. n + 1 \in WaitCells(t)
      BY <1>14, <2>2, <2>3, <2>4
    <2> QED
      BY <2>5, <2>6, <2>7
  <1>16. NewOnTop(stack, t, n, m)
    <2>1. \A j \in WaitCells(t) : t[j][2] \in Nat /\ t[j][2] < m + 1
      BY <1>2, <1>3, <1>13, <1>15, OlderWait
    <2>2. \A j \in WaitCells(stack) : stack[j][2] < m
      BY <1>2, <1>3 DEF Older
    <2>3. \A j \in BackCells(stack) : stack[j][2] <= m
      BY <1>2, <1>3 DEF Older
    <2>4. n + 1 < n + 3
      OBVIOUS
    <2> QED
      BY <1>3, <1>15, <2>1, <2>2, <2>3, <2>4 DEF NewOnTop
  <1>17. PICK g : g = d
    OBVIOUS
  <1>18. d \in Seq(Instruction) /\ Patched(g, d, Taken(stack, n)) /\ Kept(code, d) /\ m \in DOMAIN d /\ d[m].op = "do"
    <2>1. d \in Seq(Instruction)
      BY <1>7 DEF Appended
    <2>2. Patched(d, d, {})
      BY <2>1, NotPatched
    <2> QED
      BY <1>2, <1>3, <1>5, <1>7, <1>17, <2>1, <2>2, PatchedKeeps
  <1>19. Nested(u, d, b)
    <2>1. PICK k \in Nat : k = n + 2 /\ k = Len(u) /\ k > n /\ k - 2 = n /\ k - 1 = n + 1 /\ n >= b
      BY <1>3, <1>11
    <2>2. u[k][2] = "leave" /\ u[k - 1][1] = "addr" /\ u[k - 1][2] = m /\ u[k - 2][1] = "tag" /\ u[k][1] = "tag"
      BY <1>3, <1>10, <1>11, <2>1
    <2>3. CellAt(u, d, b, k)
      BY <1>4, <1>18, <2>1, <2>2 DEF CellAt
    <2>4. \A i \in (n + 1)..(k - 1) : u[i][1] # "tag"
      <3>1. \A i \in (n + 1)..(k - 1) : i = n + 1
        BY <2>1
      <3> QED
        BY <1>10, <1>11, <3>1
    <2>5. Nested(stack, code, b) /\ n <= Len(stack)
      BY <1>1, <1>2 DEF Branchy
    <2> QED
      BY <1>3, <1>11, <1>18, <2>1, <2>2, <2>3, <2>4, <2>5, NestedPush
  <1>20. Nested(t, d, b)
    <2>1. PICK q \in Nat, k \in Nat : q = n + 2 /\ k = n + 4 /\ k = Len(t) /\ k > q /\ k - 2 = q /\ k - 1 = n + 3 /\ k - 4 = n
                                    /\ k - 3 = n + 1 /\ n >= b /\ q >= b
      <3>1. n >= b /\ b \in Nat
        BY <1>3
      <3>2. Len(t) = n + 4
        BY <1>12
      <3>3. /\ n + 2 \in Nat /\ n + 4 \in Nat /\ n + 4 > n + 2 /\ n + 4 - 2 = n + 2
            /\ n + 4 - 1 = n + 3 /\ n + 4 - 4 = n /\ n + 4 - 3 = n + 1
        OBVIOUS
      <3>4. n + 2 >= b
        BY <3>1
      <3> QED
        BY <3>1, <3>2, <3>3, <3>4
    <2>2. /\ t[k][2] = "do" /\ t[k - 1][1] = "addr" /\ t[k - 1][2] = m + 1 /\ t[k - 2][1] = "tag" /\ t[k][1] = "tag"
          /\ t[k - 2] = Tag("leave") /\ t[k - 3][2] = m
      BY <1>10, <1>12, <2>1
    <2>3. CellAt(t, d, b, k)
      BY <1>4, <2>1, <2>2 DEF CellAt
    <2>4. \A i \in (q + 1)..(k - 1) : t[i][1] # "tag"
      <3>1. \A i \in (q + 1)..(k - 1) : i = n + 3
        BY <2>1
      <3> QED
        BY <1>10, <1>12, <3>1
    <2>5. Kept(d, d) /\ q <= Len(u) /\ b <= q
      BY <1>11, <1>18, <2>1 DEF Kept
    <2>6. \A i \in 1..q : t[i] = u[i]
      <3>1. \A i \in 1..q : i \in 1..n \/ i = n + 1 \/ i = n + 2
        BY <2>1
      <3> QED
        BY <1>11, <1>12, <3>1
    <2> QED
      BY <1>12, <1>19, <2>1, <2>2, <2>3, <2>4, <2>5, <2>6, NestedPush
  <1>21. Waiting(d) = Waiting(code) \cup {m}
    BY <1>2, <1>3, <1>4, <1>5, <1>7, GrownIs DEF Grown
  <1>22. Patching(stack, code, t, d, n, g)
    <2>1. Compiling(code, g)
      BY <1>5, <1>7, <1>17, MayWait DEF Compiling
    <2>2. n + 1 > n
      OBVIOUS
    <2>3. \A i : i \in Waiting(g) <=> i \in Waiting(code) \/ \E j \in WaitCells(t) : j > n /\ t[j][2] = i
      BY <1>15, <1>17, <1>21, <2>2
    <2> QED
      BY <1>3, <1>18, <2>1, <2>3 DEF Patching
  <1>23. Outside(code, m + 1)
    BY <1>2, <1>3 DEF Older
  <1>24. Branchy(t, d, b)
    <2>1. \A j \in BackCells(t) : j > n => Outside(code, t[j][2]) /\ t[j][2] \in Nat
      BY <1>15, <1>23
    <2>2. NewOnTop(stack, t, n, Len(code) + 1) /\ Typed(t, d)
      BY <1>1, <1>2, <1>6, <1>16
    <2> QED
      BY <1>1, <1>13, <1>20, <1>22, <2>1, <2>2, WordRight
  <1> QED
    BY <1>6, <1>24 DEF BranchPost

\* while in a begin
LEMMA WhileRight == ASSUME NEW b, BranchPre(b), While, Matches(1, "target") PROVE BranchPost(b)
  <1>1. Typed(stack', code') /\ Branchy(stack, code, b)
    BY WhileKeeps DEF BranchPre, WordPost
  <1>2. /\ "target" \in Back /\ "target" \in Forward \cup Back /\ "target" \notin Forward /\ "origin" \in Forward
        /\ "origin" \notin Back /\ "while" \in Branches /\ "while" \in OpsOf("origin")
    BY DEF Forward, Back, Branches, OpsOf
  <1>3. PICK n \in Nat, q \in Nat : TopWord(b, n, q, "target")
    BY <1>1, <1>2, TopWordIs
  <1>4. PICK m \in Nat : m = here /\ m = Len(code) + 1
    BY <1>1, TopOf
  <1>5. stack \in Seq(Cell) /\ b \in {1, 2} /\ Older(stack, code) /\ code \in Seq(Instruction) /\ Ordered(stack)
    BY <1>1, TopOf DEF Branchy
  <1>6. PICK e \in Instruction : e = Ins("while", Open) /\ e.op = "while" /\ e.to = Open
    BY <1>2, BranchInstructions DEF Open
  <1>7. PICK d, t : d = code' /\ t = stack'
    OBVIOUS
  <1>8. Appended(code, d, e)
    <2>1. d = Append(code, e)
      BY <1>6, <1>7 DEF While, Compiles
    <2> QED
      BY <1>5, <2>1, AppendedIs
  <1>9. Len(stack) = q + 2
    BY <1>3 DEF TopWord
  <1>10. PICK x, y, z, w : x = Addr(m) /\ y = Tag("origin") /\ z = stack[q + 1] /\ w = stack[q + 2]
    OBVIOUS
  <1>11. /\ t \in Seq(Cell) /\ Len(t) = q + 4 /\ \A i \in 1..q : t[i] = stack[i]
         /\ t[q + 1] = x /\ t[q + 2] = y /\ t[q + 3] = z /\ t[q + 4] = w
    <2>1. t = TwoSwap(stack \o markBranch(m, "origin"))
      BY <1>4, <1>7 DEF While, Compiles
    <2>2. /\ t \in Seq(Cell) /\ Len(t) = q + 4 /\ \A i \in 1..q : t[i] = stack[i]
          /\ t[q + 1] = Addr(m) /\ t[q + 2] = Tag("origin") /\ t[q + 3] = stack[q + 1] /\ t[q + 4] = stack[q + 2]
      BY <1>5, <1>9, <2>1, WhileStack
    <2> QED
      BY <1>10, <2>2
  <1>12. /\ x[1] = "addr" /\ x[2] = m /\ y[1] = "tag" /\ y[2] = "origin" /\ z[1] = "addr"
         /\ w = Tag("target") /\ w[1] = "tag" /\ w[2] = "target"
    <2>1. stack[q + 2] = Tag("target") /\ stack[q + 1][1] = "addr"
      BY <1>3, <1>9 DEF TopWord
    <2> QED
      BY <1>10, <2>1, CellParts
  <1>13. PICK v \in Nat : v = z[2] /\ stack[q + 1][2] = v
    BY <1>3, <1>10 DEF TopWord
  <1>14. /\ q >= b /\ stack[q][1] = "tag" /\ Taken(stack, q) = {} /\ q + 1 \in BackCells(stack)
         /\ \A j \in WaitCells(stack) : j < q + 1
    BY <1>2, <1>3 DEF TopWord
  <1>15. SameTo(stack, t, q)
    <2>1. q \in Nat \ {0} /\ q <= Len(stack) /\ q <= Len(t)
      BY <1>5, <1>9, <1>11, <1>14
    <2> QED
      BY <1>5, <1>11, <1>14, <2>1 DEF SameTo
  <1>16. ~ToBack(t, q + 1) /\ ToBack(t, q + 3)
    <2>1. q + 1 + 1 = q + 2 /\ q + 3 + 1 = q + 4
      OBVIOUS
    <2> QED
      BY <1>2, <1>11, <1>12, <2>1 DEF ToBack
  <1>17. /\ \A j \in WaitCells(t) : j > q => j = q + 1 /\ t[j][2] = m /\ t[j + 1] = y
         /\ \A j \in BackCells(t) : j > q => j = q + 3 /\ t[j][2] = v
         /\ q + 1 \in WaitCells(t)
    <2>1. \A j \in 1..(q + 4 - 1) : j > q => j = q + 1 \/ j = q + 2 \/ j = q + 3
      OBVIOUS
    <2>2. q + 1 \in 1..(q + 4 - 1) /\ q + 1 + 1 = q + 2
      OBVIOUS
    <2>3. t[q + 1][1] = "addr" /\ t[q + 1][2] = m /\ t[q + 2][1] # "addr" /\ t[q + 3][2] = v /\ t[q + 1 + 1] = y
      BY <1>11, <1>12, <1>13, <2>2
    <2>4. \A j \in WaitCells(t) : j \in 1..(q + 4 - 1) /\ t[j][1] = "addr" /\ ~ToBack(t, j)
      BY <1>11 DEF WaitCells
    <2>5. \A j \in BackCells(t) : j \in 1..(q + 4 - 1) /\ t[j][1] = "addr" /\ ToBack(t, j)
      BY <1>11 DEF BackCells
    <2>6. q + 1 \in WaitCells(t)
      BY <1>11, <1>16, <2>2, <2>3 DEF WaitCells
    <2>7. \A j \in WaitCells(t) : j > q => j = q + 1
      BY <1>16, <2>1, <2>3, <2>4
    <2>8. \A j \in BackCells(t) : j > q => j = q + 3
      BY <1>16, <2>1, <2>3, <2>5
    <2> QED
      BY <2>3, <2>6, <2>7, <2>8
  <1>18. NewOnTop(stack, t, q, m)
    <2>1. \A j \in WaitCells(stack) : stack[j][2] < m
      BY <1>4, <1>5 DEF Older
    <2>2. \A j \in BackCells(stack) : stack[j][2] <= m
      BY <1>4, <1>5 DEF Older
    <2>3. y # Tag("leave")
      BY <1>12, CellParts
    <2>4. \A j \in WaitCells(t), k \in BackCells(t) : j < k /\ k > q /\ t[j + 1] = Tag("leave") => t[j][2] < t[k][2]
      <3> SUFFICES ASSUME NEW j \in WaitCells(t), NEW k \in BackCells(t), k > q, t[j + 1] = Tag("leave")
                   PROVE  t[j][2] < t[k][2]
        OBVIOUS
      <3>1. t[k][2] = v /\ ~(j > q)
        BY <1>17, <2>3
      <3>2. j \in 1..q /\ j \in WaitCells(stack) /\ t[j] = stack[j]
        BY <1>5, <1>15, <3>1, OlderWait
      <3>3. j # q
        BY <1>14, <3>2 DEF WaitCells
      <3>4. stack[j + 1] = Tag("leave")
        BY <1>15, <3>2, <3>3, SameCells
      <3>5. j < q + 1
        BY <3>2
      <3> QED
        BY <1>5, <1>13, <1>14, <3>1, <3>2, <3>4, <3>5 DEF Ordered
    <2>5. q + 1 < q + 3
      OBVIOUS
    <2> QED
      BY <1>14, <1>17, <2>1, <2>2, <2>4, <2>5 DEF NewOnTop
  <1>19. PICK g : g = d
    OBVIOUS
  <1>20. d \in Seq(Instruction) /\ Patched(g, d, Taken(stack, q)) /\ Kept(code, d) /\ m \in DOMAIN d /\ d[m].op = "while"
    <2>1. d \in Seq(Instruction)
      BY <1>8 DEF Appended
    <2>2. Patched(d, d, {})
      BY <2>1, NotPatched
    <2> QED
      BY <1>4, <1>5, <1>6, <1>8, <1>14, <1>19, <2>1, <2>2, PatchedKeeps
  <1>21. PICK u : Dropped(t, u, q + 2)
    <2>1. q + 2 \in 0..Len(t)
      BY <1>11
    <2> QED
      BY <1>11, <2>1, DropSome
  <1>22. u \in Seq(Cell) /\ Len(u) = q + 2 /\ \A i \in 1..(q + 2) : u[i] = t[i]
    BY <1>21 DEF Dropped
  <1>23. Nested(u, d, b)
    <2>0. q >= b /\ q \in 1..q
      BY <1>5, <1>14
    <2>1. PICK k \in Nat : k = q + 2 /\ k = Len(u) /\ k > q /\ k - 2 = q /\ k - 1 = q + 1 /\ q >= b /\ q \in 1..q
      BY <1>22, <2>0
    <2>2. (\A i \in 1..q : u[i] = stack[i]) /\ u[q + 1] = x /\ u[k] = y
      <3>1. (\A i \in 1..q : i \in 1..(q + 2)) /\ q + 1 \in 1..(q + 2) /\ q + 2 \in 1..(q + 2)
        OBVIOUS
      <3> QED
        BY <1>11, <1>22, <2>1, <3>1
    <2>3. u[k][2] = "origin" /\ u[k - 1][1] = "addr" /\ u[k - 1][2] = m /\ u[k - 2][1] = "tag" /\ u[k][1] = "tag"
      BY <1>12, <1>14, <2>1, <2>2
    <2>4. CellAt(u, d, b, k)
      BY <1>2, <1>20, <2>1, <2>3 DEF CellAt
    <2>5. \A i \in (q + 1)..(k - 1) : u[i][1] # "tag"
      <3>1. \A i \in (q + 1)..(k - 1) : i = q + 1
        BY <2>1
      <3> QED
        BY <1>12, <2>2, <3>1
    <2>6. Nested(stack, code, b) /\ q <= Len(stack) /\ b <= q
      BY <1>1, <1>9, <2>1 DEF Branchy
    <2> QED
      BY <1>5, <1>20, <1>22, <2>1, <2>2, <2>3, <2>4, <2>5, <2>6, NestedPush
  <1>24. Nested(t, d, b)
    <2>1. PICK o \in Nat, k \in Nat : o = q + 2 /\ k = q + 4 /\ k = Len(t) /\ k > o /\ k - 2 = o /\ k - 1 = q + 3 /\ o >= b
      BY <1>5, <1>11, <1>14
    <2>2. t[k][2] = "target" /\ t[k - 1][1] = "addr" /\ t[k - 2][1] = "tag" /\ t[k][1] = "tag"
      BY <1>11, <1>12, <2>1
    <2>3. CellAt(t, d, b, k)
      BY <1>2, <2>1, <2>2 DEF CellAt
    <2>4. \A i \in (o + 1)..(k - 1) : t[i][1] # "tag"
      <3>1. \A i \in (o + 1)..(k - 1) : i = q + 3
        BY <2>1
      <3> QED
        BY <1>11, <1>12, <3>1
    <2>5. Kept(d, d) /\ o <= Len(u) /\ b <= o /\ \A i \in 1..o : t[i] = u[i]
      BY <1>20, <1>22, <2>1 DEF Kept
    <2> QED
      BY <1>11, <1>23, <2>1, <2>2, <2>3, <2>4, <2>5, NestedPush
  <1>25. Waiting(d) = Waiting(code) \cup {m}
    BY <1>2, <1>4, <1>5, <1>6, <1>8, GrownIs DEF Grown
  <1>26. Patching(stack, code, t, d, q, g)
    <2>1. Compiling(code, g)
      BY <1>6, <1>8, <1>19, MayWait DEF Compiling
    <2>2. q + 1 > q
      OBVIOUS
    <2>3. \A i : i \in Waiting(g) <=> i \in Waiting(code) \/ \E j \in WaitCells(t) : j > q /\ t[j][2] = i
      BY <1>17, <1>19, <1>25, <2>2
    <2> QED
      BY <1>14, <1>20, <2>1, <2>3 DEF Patching
  <1>27. Branchy(t, d, b)
    <2>1. Outside(code, v)
      BY <1>5, <1>13, <1>14 DEF Older
    <2>2. \A j \in BackCells(t) : j > q => Outside(code, t[j][2]) /\ t[j][2] \in Nat
      BY <1>17, <2>1
    <2>3. NewOnTop(stack, t, q, Len(code) + 1) /\ Typed(t, d)
      BY <1>1, <1>4, <1>7, <1>18
    <2> QED
      BY <1>1, <1>15, <1>24, <1>26, <2>2, <2>3, WordRight
  <1> QED
    BY <1>7, <1>27 DEF BranchPost

\* The group below the one on top: a branch that waits, below a place to go back to.
SecondWord(b, n, q, tag) ==
    /\ q = n - 4 /\ q >= b /\ stack[q][1] = "tag" /\ Dropped(stack, Below(4), q)
    /\ q + 1 \in WaitCells(stack) /\ Holds(4) = stack[q + 1][2]
    /\ Taken(stack, q) = {Holds(4)} /\ Holds(4) \in Waiting(code) /\ code[Holds(4)].op \in OpsOf(tag)
\* What repeat and loop find.
LEMMA SecondWordIs ==
    ASSUME NEW b, Branchy(stack, code, b), NEW first \in Back, NEW n \in Nat, NEW r \in Nat, TopWord(b, n, r, first),
           NEW second \in Forward, Matches(3, second)
    PROVE  \E q \in Nat : SecondWord(b, n, q, second)
  <1>1. stack \in Seq(Cell) /\ b \in {1, 2} /\ Nested(stack, code, b) /\ Older(stack, code)
    BY OlderIs DEF Branchy, Nested
  <1>2. n = Len(stack) /\ r = n - 2 /\ r >= b /\ r + 1 = n - 1 /\ \A j \in WaitCells(stack) : j < r + 1
    BY DEF TopWord
  <1>3. /\ FromTop(3) = stack[n - 2] /\ Holds(4) = stack[n - 3][2] /\ \A k \in 0..n : Dropped(stack, Below(k), n - k)
    BY <1>1, <1>2, Tops
  <1>4. stack[r] = Tag(second) /\ second \in Forward \cup Back
    BY <1>2, <1>3 DEF Matches
  <1>5. TopGroup(stack, code, b, r, second)
    BY <1>1, <1>2, <1>4, NestedTop
  <1>6. PICK q \in Nat : q = r - 2 /\ q = n - 4 /\ q >= b /\ q + 1 = r - 1 /\ q + 1 = n - 3 /\ q + 2 = r /\ 4 \in 0..n
    <2>1. r - 2 >= b /\ r = n - 2 /\ b \in {1, 2}
      BY <1>1, <1>2, <1>5 DEF TopGroup
    <2> QED
      BY <2>1
  <1>7. stack[q][1] = "tag" /\ stack[q + 1][1] = "addr" /\ code[stack[q + 1][2]].op \in OpsOf(second)
    BY <1>5, <1>6 DEF TopGroup
  <1>8. q + 1 \in WaitCells(stack)
    <2>1. q + 1 \in 1..(Len(stack) - 1) /\ q + 1 + 1 = r
      BY <1>2, <1>6
    <2>2. second \notin Back
      BY DEF Forward, Back
    <2>3. ~ToBack(stack, q + 1)
      BY <1>4, <2>1, <2>2, CellParts DEF ToBack
    <2> QED
      BY <1>7, <2>1, <2>3 DEF WaitCells
  <1>9. \A j \in WaitCells(stack) : j > q => j = q + 1
    <2> SUFFICES ASSUME NEW j \in WaitCells(stack), j > q PROVE j = q + 1
      OBVIOUS
    <2>1. j \in Nat /\ j < r + 1 /\ stack[j][1] = "addr"
      BY <1>1, <1>2 DEF Older, WaitCells
    <2>2. j # r
      BY <1>4, <2>1, CellParts
    <2> QED
      BY <1>6, <2>1, <2>2
  <1>10. Taken(stack, q) = {stack[q + 1][2]}
    <2>1. q + 1 > q
      OBVIOUS
    <2> QED
      BY <1>8, <1>9, <2>1 DEF Taken
  <1>11. stack[q + 1][2] \in Waiting(code)
    BY <1>1, <1>8 DEF Older
  <1>12. SecondWord(b, n, q, second)
    BY <1>3, <1>6, <1>7, <1>8, <1>10, <1>11 DEF SecondWord
  <1> QED
    BY <1>12

\* repeat
LEMMA RepeatRight == ASSUME NEW b, BranchPre(b), Repeat PROVE BranchPost(b)
  <1>1. Typed(stack', code') /\ Branchy(stack, code, b)
    BY RepeatKeeps DEF BranchPre, WordPost
  <1>2. /\ "target" \in Back /\ "target" \in Forward \cup Back /\ "origin" \in Forward /\ "origin" # "leave"
        /\ "repeat" \in Branches
    BY DEF Forward, Back, Branches
  <1>3. /\ Matches(1, "target") /\ Matches(3, "origin") /\ stack' = Below(4)
        /\ code' = Patch(Append(code, Ins("repeat", Holds(2))), Holds(4), here + 1)
    BY DEF Repeat, Plainly, Compiles
  <1>4. PICK n \in Nat, r \in Nat : TopWord(b, n, r, "target")
    BY <1>1, <1>2, <1>3, TopWordIs
  <1>5. PICK q \in Nat : SecondWord(b, n, q, "origin")
    BY <1>1, <1>2, <1>3, <1>4, SecondWordIs
  <1>6. PICK a \in Nat, p \in Waiting(code) : a = Holds(2) /\ p = Holds(4)
    BY <1>4, <1>5 DEF TopWord, SecondWord
  <1>7. PICK d, t : d = code' /\ t = stack'
    OBVIOUS
  <1>8. code \in Seq(Instruction)
    BY <1>1 DEF Branchy
  <1>9. PICK g, e : Replaced(g, e, d, p) /\ e.op = "repeat" /\ e.to = a
    <2>1. d = Patch(Append(code, Ins("repeat", a)), p, here + 1)
      BY <1>3, <1>6, <1>7
    <2> QED
      BY <1>2, <1>8, <2>1, ReplacedIs
  <1>10. Appended(code, g, e) /\ e \in Instruction /\ Patched(g, d, {p}) /\ Kept(code, d) /\ g[p].op = code[p].op
    BY <1>9 DEF Replaced
  <1>11. MayGoBack(code, e) /\ e.to # Open
    BY <1>1, <1>2, <1>4, <1>6, <1>9, <1>10, GoesBack
  <1>12. Compiling(code, g)
    BY <1>10, <1>11 DEF Compiling
  <1>13. Waiting(g) = Waiting(code)
    BY <1>8, <1>10, <1>11, GrownIs DEF Grown
  <1>14. Fits(g, g[p].op)
    <2>1. code[p].op \in OpsOf("origin")
      BY <1>5, <1>6 DEF SecondWord
    <2> QED
      BY <1>2, <1>10, <2>1, FitsTag
  <1>15. Branchy(t, d, b)
    <2>1. Dropped(stack, t, q) /\ b <= q /\ stack[q][1] = "tag" /\ Taken(stack, q) = {p}
      BY <1>3, <1>5, <1>6, <1>7 DEF SecondWord
    <2>2. Patched(g, d, Taken(stack, q)) /\ \A i \in Taken(stack, q) : Fits(g, g[i].op)
      BY <1>10, <1>14, <2>1
    <2> QED
      BY <1>1, <1>7, <1>10, <1>12, <1>13, <2>1, <2>2, TakeRight
  <1> QED
    BY <1>7, <1>15 DEF BranchPost

\* loop and +loop
LEMMA LoopRight == ASSUME NEW b, BranchPre(b), Loop PROVE BranchPost(b)
  <1>1. Typed(stack', code') /\ Branchy(stack, code, b)
    BY LoopKeeps DEF BranchPre, WordPost
  <1>2. /\ "do" \in Back /\ "do" \in Forward \cup Back /\ "leave" \in Forward /\ "loop" \in Branches
    BY DEF Forward, Back, Branches
  <1>3. /\ Matches(1, "do") /\ Matches(3, "leave") /\ stack' = Below(4)
        /\ code' = Patch(Append(code, Ins("loop", Holds(2))), Holds(4), here + 1)
    BY DEF Loop, Plainly, Compiles, LeaveTarget
  <1>4. PICK n \in Nat, r \in Nat : TopWord(b, n, r, "do")
    BY <1>1, <1>2, <1>3, TopWordIs
  <1>5. PICK q \in Nat : SecondWord(b, n, q, "leave")
    BY <1>1, <1>2, <1>3, <1>4, SecondWordIs
  <1>6. PICK a \in Nat, p \in Waiting(code) : a = Holds(2) /\ p = Holds(4)
    BY <1>4, <1>5 DEF TopWord, SecondWord
  <1>7. PICK d, t : d = code' /\ t = stack'
    OBVIOUS
  <1>8. /\ code \in Seq(Instruction) /\ Older(stack, code) /\ Ordered(stack) /\ Serves(stack, code) /\ CodeRight(code)
        /\ Nested(stack, code, b) /\ b \in {1, 2} /\ stack \in Seq(Cell)
    BY <1>1, OlderIs DEF Branchy, Nested
  <1>9. PICK g, e : Replaced(g, e, d, p) /\ e.op = "loop" /\ e.to = a
    <2>1. d = Patch(Append(code, Ins("loop", a)), p, here + 1)
      BY <1>3, <1>6, <1>7
    <2> QED
      BY <1>2, <1>8, <2>1, ReplacedIs
  <1>10. /\ Appended(code, g, e) /\ e \in Instruction /\ Patched(g, d, {p}) /\ Kept(code, d) /\ g[p].op = code[p].op
         /\ g[Len(g)] = e
    BY <1>9 DEF Replaced
  <1>11. MayGoBack(code, e) /\ e.to # Open
    BY <1>1, <1>2, <1>4, <1>6, <1>9, <1>10, GoesBack
  <1>12. Compiling(code, g)
    BY <1>10, <1>11 DEF Compiling
  <1>13. Waiting(g) = Waiting(code)
    BY <1>8, <1>10, <1>11, GrownIs DEF Grown
  <1>14. /\ n = Len(stack) /\ q = n - 4 /\ q >= b /\ q \in Nat /\ stack[q][1] = "tag" /\ Dropped(stack, t, q)
         /\ q + 1 \in WaitCells(stack) /\ stack[q + 1][2] = p /\ Taken(stack, q) = {p} /\ code[p].op = "do" /\ a = p + 1
    <2>1. n - 3 = q + 1
      BY <1>5 DEF SecondWord
    <2>2. a = stack[n - 3][2] + 1
      BY <1>4, <1>6 DEF TopWord
    <2>3. code[p].op = "do"
      BY <1>5, <1>6 DEF SecondWord, OpsOf
    <2> QED
      BY <1>3, <1>4, <1>5, <1>6, <1>7, <2>1, <2>2, <2>3 DEF SecondWord, TopWord
  <1>15. PICK l \in Nat : l = Len(code) /\ p \in 1..l /\ DOMAIN code = 1..l
    BY <1>8 DEF Older, Waiting
  <1>16. g \in Seq(Instruction) /\ CodeRight(g) /\ SameBodies(code, g) /\ Len(g) = l + 1
    <2>1. Len(g) = l + 1
      BY <1>10, <1>15 DEF Appended
    <2> QED
      BY <1>8, <1>12, <2>1, CompilingRight
  <1>17. g[p].op = "do" /\ g[Len(g)] = Ins("loop", p + 1)
    <2>1. e = Ins("loop", p + 1)
      <3>1. e.op = "loop" /\ e.to = p + 1
        BY <1>9, <1>14
      <3> QED
        BY <1>10, <3>1 DEF Instruction, Ins
    <2> QED
      BY <1>10, <1>14, <2>1
  <1>18. \A i \in Waiting(g) : i <= p
    <2> SUFFICES ASSUME NEW i \in Waiting(code) PROVE i <= p
      BY <1>13
    <2>1. PICK j \in WaitCells(stack) : stack[j][2] = i
      BY <1>8 DEF Serves
    <2>2. j \in Nat
      BY <1>8 DEF Older
    <2>3. CASE j > q
      <3>1. i \in Taken(stack, q)
        BY <2>1, <2>3 DEF Taken
      <3> QED
        BY <1>14, <1>15, <3>1
    <2>4. CASE ~(j > q)
      <3>1. j < q + 1
        BY <2>2, <2>4
      <3>2. i < p
        BY <1>8, <1>14, <2>1, <3>1 DEF Ordered
      <3>3. i \in Nat
        BY <1>8, <2>1 DEF Older
      <3> QED
        BY <1>15, <3>2, <3>3
    <2> QED
      BY <2>3, <2>4
  <1>19. \A i \in Resolved(g) : g[i].to <= Len(g)
    <2> SUFFICES ASSUME NEW i \in Resolved(g) PROVE g[i].to <= l + 1
      BY <1>16
    <2>1. Resolved(g) \subseteq Resolved(code) \cup {l + 1}
      BY <1>8, <1>10, <1>15, GrownIs DEF Grown
    <2>2. CASE i \in Resolved(code)
      <3>1. RightSoFar(code, i) /\ i \in DOMAIN code
        BY <1>8, <2>2 DEF CodeRight, Resolved
      <3>2. code[i].to \in 1..(l + 1) /\ g[i] = code[i]
        BY <1>10, <1>15, <3>1 DEF RightSoFar, Appended
      <3> QED
        BY <1>15, <3>2
    <2>3. CASE i = l + 1
      <3>1. g[i].to = p + 1
        BY <1>16, <1>17, <2>3 DEF Ins
      <3> QED
        BY <1>15, <3>1
    <2> QED
      BY <2>1, <2>2, <2>3
  <1>20. CodeRight(d) /\ \A x \in Nat : x <= p /\ Outside(g, x) => Outside(d, x)
    BY <1>10, <1>16, <1>17, <1>18, <1>19, PatchDoRight
  <1>21. Nested(t, d, b)
    BY <1>8, <1>10, <1>14, NestedDrop
  <1>22. /\ t \in Seq(Cell) /\ Len(t) = q /\ (\A i \in 1..q : t[i] = stack[i]) /\ q <= n
    BY <1>14 DEF Dropped
  <1>23. SameTo(stack, t, q)
    <2>1. b \in {1, 2} /\ q >= b
      BY <1>8, <1>14
    <2>2. q \in Nat \ {0}
      BY <2>1
    <2> QED
      BY <1>8, <1>14, <1>22, <2>2 DEF SameTo
  <1>24. \A j \in WaitCells(t) \cup BackCells(t) : ~(j > q)
    BY <1>22 DEF WaitCells, BackCells
  <1>25. Ordered(t)
    <2>1. PICK m \in Nat : m = l + 1
      OBVIOUS
    <2>2. NewOnTop(stack, t, q, m)
      BY <1>8, <1>14, <1>15, <1>24, <2>1 DEF NewOnTop, Older
    <2> QED
      BY <1>8, <1>23, <2>2, Restack
  <1>26. Waiting(d) = Waiting(code) \ {p}
    BY <1>10, <1>13, <1>16, PatchedSets
  <1>27. \A i : i \in Waiting(d) <=> \/ i \in Waiting(code) /\ \A j \in WaitCells(stack) : j > q => stack[j][2] # i
                                     \/ \E j \in WaitCells(t) : j > q /\ t[j][2] = i
    <2>1. \A j \in WaitCells(stack) : j > q => stack[j][2] = p
      BY <1>14 DEF Taken
    <2>2. q + 1 > q
      OBVIOUS
    <2> QED
      BY <1>14, <1>24, <1>26, <2>1, <2>2
  <1>28. \A j \in BackCells(stack) : j <= q => Outside(d, stack[j][2])
    <2> SUFFICES ASSUME NEW j \in BackCells(stack), j <= q PROVE Outside(d, stack[j][2])
      OBVIOUS
    <2>1. j \in Nat /\ stack[j][2] \in Nat /\ Outside(code, stack[j][2])
      BY <1>8 DEF Older
    <2>2. j < q + 1
      BY <2>1
    <2>3. stack[j][2] <= p
      BY <1>8, <1>14, <2>2 DEF Ordered
    <2> QED
      BY <1>16, <1>20, <2>1, <2>3 DEF SameBodies
  <1>29. Serves(t, d)
    BY <1>8, <1>23, <1>24, <1>27, <1>28, Reserve
  <1>30. d \in Seq(Instruction)
    BY <1>10 DEF Kept
  <1>31. Branchy(t, d, b)
    BY <1>1, <1>7, <1>20, <1>21, <1>25, <1>29, <1>30 DEF Branchy
  <1> QED
    BY <1>7, <1>31 DEF BranchPost

\* The cells endof leaves: the address of a branch that waits, and a case with one endof more.
LEMMA EndofCells ==
    ASSUME stack \in Seq(Cell), NEW p \in Nat, Len(stack) = p + 4, stack[p + 1][1] = "num", p > 0,
           NEW t, NEW a \in Nat, NEW v \in Nat, CaseOn(t, p, a, v)
    PROVE  /\ SameTo(stack, t, p) /\ t[p + 1] # Tag("leave")
           /\ \A j \in WaitCells(t) : j > p => j = p + 1 /\ t[j][2] = a
           /\ p + 1 \in WaitCells(t)
           /\ \A j \in BackCells(t) : ~(j > p)
  <1>1. PICK x, y, z : x = t[p + 1] /\ y = t[p + 2] /\ z = t[p + 3] /\ x[1] = "addr" /\ x[2] = a /\ y[1] = "num" /\ z[1] = "tag"
    BY CellParts DEF CaseOn
  <1>2. /\ t \in Seq(Cell) /\ Len(t) = p + 3 /\ (\A i \in 1..p : t[i] = stack[i])
    BY DEF CaseOn
  <1>3. ~ToBack(stack, p) /\ ~ToBack(t, p)
    BY <1>1 DEF ToBack
  <1>4. SameTo(stack, t, p)
    BY <1>2, <1>3 DEF SameTo
  <1>5. x # Tag("leave")
    BY <1>1, CellParts
  <1>6. \A j \in 1..(p + 3 - 1) : j > p => j = p + 1 \/ j = p + 2
    OBVIOUS
  <1>7. ~ToBack(t, p + 1)
    <2>1. PICK k \in Nat : k = p + 1 /\ k + 1 = p + 2
      OBVIOUS
    <2> QED
      BY <1>1, <2>1 DEF ToBack
  <1>8. p + 1 \in 1..(p + 3 - 1)
    OBVIOUS
  <1>9. p + 1 \in WaitCells(t)
    BY <1>1, <1>2, <1>7, <1>8 DEF WaitCells
  <1>10. \A j \in WaitCells(t) \cup BackCells(t) : j > p => j = p + 1
    BY <1>1, <1>2, <1>6 DEF WaitCells, BackCells
  <1>11. \A j \in BackCells(t) : ~(j > p)
    BY <1>7, <1>10 DEF BackCells
  <1> QED
    BY <1>1, <1>4, <1>5, <1>9, <1>10, <1>11

\* What endof finds below the pair of its of: a case, the number of its endofs and those.
EndofPlace(b, p, v) ==
    /\ p \in Nat /\ v \in Nat /\ Len(stack) = p + 4 /\ p >= b /\ p > 0
    /\ stack[p + 1][1] = "num" /\ stack[p + 1][2] = v /\ Holds(4) = v /\ stack[p + 2] = Tag("case")
    /\ p - v \in Nat /\ p - v >= b /\ stack[p - v][1] = "tag"
    /\ \A j \in 1..p : j >= p + 1 - v => stack[j][1] = "addr" /\ stack[j][2] \in DOMAIN code /\ code[stack[j][2]].op = "endof"
    /\ Dropped(stack, Below(4), p) /\ Taken(stack, p) = Taken(stack, p + 2)
\* Below the pair of an of there is a case, with as many endofs as its number says.
LEMMA EndofPlaceIs ==
    ASSUME NEW b, Branchy(stack, code, b), NEW r \in Nat, NEW n \in Nat, TopWord(b, n, r, "of"), "of" \in Forward
    PROVE  \E p, v \in Nat : EndofPlace(b, p, v) /\ r = p + 2
  <1>1. /\ stack \in Seq(Cell) /\ b \in {1, 2} /\ stack[b] = Tag("colon") /\ Nested(stack, code, b)
    BY DEF Branchy, Nested
  <1>2. /\ n = Len(stack) /\ r = n - 2 /\ r >= b /\ stack[r] = Tag("case") /\ r <= Len(stack)
    BY DEF TopWord
  <1>3. r # b /\ r > b
    <2>1. r # b
      BY <1>1, <1>2, CellParts
    <2> QED
      BY <1>1, <1>2, <2>1
  <1>4. CellAt(stack, code, b, r) /\ stack[r][2] = "case"
    <2>1. r \in (b + 1)..Len(stack)
      BY <1>1, <1>2, <1>3
    <2> QED
      BY <1>1, <1>2, <2>1, CellParts DEF Nested
  <1>5. /\ r - 1 > b /\ stack[r - 1][1] = "num"
        /\ r - 2 - stack[r - 1][2] >= b /\ stack[r - 2 - stack[r - 1][2]][1] = "tag"
        /\ \A j \in 1..(r - 2) : j >= r - 1 - stack[r - 1][2] =>
              stack[j][1] = "addr" /\ stack[j][2] \in DOMAIN code /\ code[stack[j][2]].op = "endof"
    BY <1>4 DEF CellAt
  <1>6. PICK v \in Nat : v = stack[r - 1][2]
    <2>1. r - 1 \in 1..Len(stack)
      BY <1>1, <1>2, <1>5
    <2>2. stack[r - 1] \in Cell
      BY <1>1, <2>1
    <2> QED
      BY <1>5, <2>2, CellIs
  <1>7. PICK p \in Nat : r = p + 2 /\ r - 1 = p + 1 /\ n = p + 4 /\ n - 3 = p + 1 /\ n - 4 = p /\ 4 \in 0..n /\ p >= b /\ p > 0
    <2>1. r - 2 - v >= b
      BY <1>5, <1>6
    <2>2. r - 2 >= b /\ r - 2 \in Nat /\ r - 2 > 0
      BY <1>1, <1>6, <2>1
    <2> QED
      BY <1>2, <2>2
  <1>8. p - v \in Nat /\ p - v >= b /\ stack[p - v][1] = "tag"
    <2>1. PICK w : w = r - 2 - v /\ w = p - v
      BY <1>7
    <2>2. w >= b /\ stack[w][1] = "tag"
      BY <1>5, <1>6, <2>1
    <2>3. w \in Int
      BY <2>1
    <2> QED
      BY <1>1, <2>1, <2>2, <2>3
  <1>9. \A j \in 1..p : j >= p + 1 - v => stack[j][1] = "addr" /\ stack[j][2] \in DOMAIN code /\ code[stack[j][2]].op = "endof"
    <2>1. r - 2 = p /\ r - 1 - v = p + 1 - v
      BY <1>7
    <2> QED
      BY <1>5, <1>6, <2>1
  <1>10. Dropped(stack, Below(4), p) /\ Holds(4) = stack[p + 1][2]
    BY <1>1, <1>2, <1>7, Tops
  <1>11. \A j \in WaitCells(stack) : j > p <=> j > p + 2
    <2>1. \A j \in WaitCells(stack) : j \in Nat /\ stack[j][1] = "addr"
      BY DEF WaitCells
    <2>2. stack[p + 1][1] = "num" /\ stack[p + 2][1] = "tag"
      BY <1>2, <1>5, <1>7, CellParts
    <2>3. \A j \in Nat : j > p => j = p + 1 \/ j = p + 2 \/ j > p + 2
      OBVIOUS
    <2> QED
      BY <2>1, <2>2, <2>3
  <1>12. Taken(stack, p) = Taken(stack, p + 2)
    BY <1>11 DEF Taken
  <1>13. stack[p + 1][1] = "num" /\ stack[p + 1][2] = v /\ stack[p + 2] = Tag("case")
    BY <1>2, <1>5, <1>6, <1>7
  <1>14. EndofPlace(b, p, v)
    BY <1>2, <1>7, <1>8, <1>9, <1>10, <1>12, <1>13 DEF EndofPlace
  <1> QED
    BY <1>7, <1>14

\* endof
LEMMA EndofRight == ASSUME NEW b, BranchPre(b), Endof PROVE BranchPost(b)
  <1>1. Typed(stack', code') /\ Branchy(stack, code, b)
    BY EndofWordKeeps DEF BranchPre, WordPost
  <1>2. "of" \in Forward /\ "of" \in Forward \cup Back /\ "of" # "leave" /\ "endof" \in Branches /\ Open \in Nat
    BY DEF Forward, Branches, Open
  <1>3. /\ Matches(1, "of") /\ code' = Patch(Append(code, Ins("endof", Open)), Holds(2), here + 1)
        /\ stack' = Below(4) \o <<Addr(here), Num(Holds(4) + 1), Tag("case")>>
    BY DEF Endof, Plainly, Compiles
  <1>4. PICK n \in Nat, r \in Nat : TopWord(b, n, r, "of")
    BY <1>1, <1>2, <1>3, TopWordIs
  <1>5. PICK p \in Nat, v \in Nat : EndofPlace(b, p, v) /\ r = p + 2
    BY <1>1, <1>2, <1>4, EndofPlaceIs
  <1>6. /\ stack \in Seq(Cell) /\ code \in Seq(Instruction) /\ Older(stack, code) /\ Serves(stack, code)
        /\ Nested(stack, code, b) /\ b \in {1, 2}
    BY <1>1, OlderIs DEF Branchy, Nested
  <1>7. PICK a : a = Holds(2)
    OBVIOUS
  <1>8. a \in Waiting(code) /\ Taken(stack, p) = {a} /\ code[a].op \in OpsOf("of")
    <2>1. r + 1 \in WaitCells(stack) /\ a = stack[r + 1][2] /\ Taken(stack, r) = {a} /\ code[a].op \in OpsOf("of")
      BY <1>2, <1>4, <1>7 DEF TopWord
    <2>2. Taken(stack, p) = Taken(stack, r)
      BY <1>5 DEF EndofPlace
    <2> QED
      BY <1>6, <2>1, <2>2 DEF Serves
  <1>9. PICK d : d = code' /\ d = Patch(Append(code, Ins("endof", Open)), a, here + 1)
    BY <1>3, <1>7
  <1>10. PICK g, e : Replaced(g, e, d, a) /\ e.op = "endof" /\ e.to = Open
    BY <1>2, <1>6, <1>8, <1>9, ReplacedIs
  <1>11. /\ Appended(code, g, e) /\ e \in Instruction /\ Patched(g, d, {a}) /\ Kept(code, d) /\ g[a].op = code[a].op
         /\ g[Len(g)] = e
    BY <1>10 DEF Replaced
  <1>12. Fits(g, g[a].op)
    <2>1. "of" = "fallthrough" => g[Len(g)].op \in {"of", "drop"}
      OBVIOUS
    <2>2. g[Len(g)].op \in {"endof", "fallthrough"}
      BY <1>10, <1>11
    <2> QED
      BY <1>2, <1>8, <1>11, <2>1, <2>2, FitsTag
  <1>13. PICK m \in Nat : m = here /\ m = Len(code) + 1
    BY <1>6 DEF here
  <1>14. PICK t, w : t = stack' /\ w = v + 1 /\ w \in Nat
    OBVIOUS
  <1>15. CaseOn(t, p, m, w)
    <2>1. t = Below(4) \o <<Addr(m), Num(w), Tag("case")>> /\ Dropped(stack, Below(4), p)
      BY <1>3, <1>5, <1>13, <1>14 DEF EndofPlace
    <2> QED
      BY <1>14, <2>1, EndofStack
  <1>16. /\ SameTo(stack, t, p) /\ t[p + 1] # Tag("leave")
         /\ \A j \in WaitCells(t) : j > p => j = p + 1 /\ t[j][2] = m
         /\ p + 1 \in WaitCells(t)
         /\ \A j \in BackCells(t) : ~(j > p)
    <2>1. Len(stack) = p + 4 /\ stack[p + 1][1] = "num" /\ p > 0
      BY <1>5 DEF EndofPlace
    <2>2. stack \in Seq(Cell) /\ w \in Nat /\ CaseOn(t, p, m, w)
      BY <1>6, <1>14, <1>15
    <2>3. SameTo(stack, t, p) /\ t[p + 1] # Tag("leave") /\ p + 1 \in WaitCells(t)
      BY <2>1, <2>2, EndofCells
    <2>4. \A j \in WaitCells(t) : j > p => j = p + 1 /\ t[j][2] = m
      BY <2>1, <2>2, EndofCells
    <2>5. \A j \in BackCells(t) : ~(j > p)
      BY <2>1, <2>2, EndofCells
    <2> QED
      BY <2>3, <2>4, <2>5
  <1>17. NewOnTop(stack, t, p, m)
    <2>1. \A j \in WaitCells(stack) : stack[j][2] < m
      BY <1>6, <1>13 DEF Older
    <2>2. \A j \in BackCells(stack) : stack[j][2] <= m
      BY <1>6, <1>13 DEF Older
    <2> QED
      BY <1>16, <2>1, <2>2 DEF NewOnTop
  <1>18. m \in DOMAIN d /\ d[m].op = "endof"
    BY <1>6, <1>10, <1>11, <1>13, PatchedKeeps
  <1>19. CellAt(t, d, b, p + 3)
    <2>1. PICK k \in Nat : k = p + 3 /\ k - 1 = p + 2 /\ k - 2 = p + 1 /\ p >= b /\ k - 1 > b
      BY <1>5, <1>6 DEF EndofPlace
    <2>2. PICK y \in Nat : y = p - v /\ y >= b /\ y = k - 2 - w /\ stack[y][1] = "tag"
      BY <1>5, <1>14, <2>1 DEF EndofPlace
    <2>3. t[k] = Tag("case") /\ t[k - 1] = Num(w) /\ t[p + 1] = Addr(m) /\ \A j \in 1..p : t[j] = stack[j]
      BY <1>15, <2>1 DEF CaseOn
    <2>4. t[y][1] = "tag"
      <3>1. y \in 1..p
        BY <1>6, <2>2
      <3> QED
        BY <2>2, <2>3, <3>1
    <2>5. ASSUME NEW j \in 1..(k - 2), j >= k - 1 - w
          PROVE  t[j][1] = "addr" /\ t[j][2] \in DOMAIN d /\ d[t[j][2]].op = "endof"
      <3>1. CASE j = p + 1
        BY <1>18, <2>3, <3>1, CellParts
      <3>2. CASE j # p + 1
        <4>1. j \in 1..p /\ j >= p + 1 - v
          BY <1>14, <2>1, <2>5, <3>2
        <4>2. stack[j][1] = "addr" /\ stack[j][2] \in DOMAIN code /\ code[stack[j][2]].op = "endof"
          BY <1>5, <4>1 DEF EndofPlace
        <4>3. \A x \in DOMAIN code : x \in DOMAIN d /\ d[x].op = code[x].op
          BY <1>11 DEF Kept
        <4> QED
          BY <2>3, <4>1, <4>2, <4>3
      <3> QED
        BY <3>1, <3>2
    <2>6. "case" \notin Forward \cup Back /\ t[k][2] = "case" /\ t[k - 1][1] = "num" /\ t[k - 1][2] = w
      BY <2>3, CellParts DEF Forward, Back
    <2>7. CellAt(t, d, b, k)
      BY <2>1, <2>2, <2>4, <2>5, <2>6 DEF CellAt, Forward
    <2> QED
      BY <2>1, <2>7
  <1>20. Nested(t, d, b)
    <2>1. PICK k \in Nat : k = p + 3 /\ k = Len(t) /\ k > p /\ t[k][1] = "tag" /\ CellAt(t, d, b, k)
      BY <1>15, <1>19, CellParts DEF CaseOn
    <2>2. \A i \in (p + 1)..(k - 1) : t[i][1] # "tag"
      <3>1. \A i \in (p + 1)..(k - 1) : i = p + 1 \/ i = p + 2
        BY <2>1
      <3> QED
        BY <1>15, <3>1, CellParts DEF CaseOn
    <2>3. p <= Len(stack) /\ b <= p /\ t \in Seq(Cell) /\ \A i \in 1..p : t[i] = stack[i]
      BY <1>5, <1>6, <1>15 DEF EndofPlace, CaseOn
    <2> QED
      BY <1>6, <1>11, <2>1, <2>2, <2>3, NestedPush
  <1>21. Waiting(g) = Waiting(code) \cup {m}
    BY <1>2, <1>6, <1>10, <1>11, <1>13, GrownIs DEF Grown
  <1>22. \A i : i \in Waiting(g) <=> i \in Waiting(code) \/ \E j \in WaitCells(t) : j > p /\ t[j][2] = i
    <2>1. p + 1 > p
      OBVIOUS
    <2> QED
      BY <1>16, <1>21, <2>1
  <1>23. Patching(stack, code, t, d, p, g)
    <2>1. Compiling(code, g)
      BY <1>10, <1>11, MayWait DEF Compiling
    <2>2. \A i \in Waiting(g) \ Waiting(code) : g[i].op # "do"
      BY <1>10, <1>11, <1>13, <1>21 DEF Appended
    <2> QED
      BY <1>8, <1>11, <1>12, <1>22, <2>1, <2>2 DEF Patching
  <1>24. Branchy(t, d, b)
    <2>1. \A j \in BackCells(t) : j > p => Outside(code, t[j][2]) /\ t[j][2] \in Nat
      BY <1>16
    <2> QED
      BY <1>1, <1>9, <1>13, <1>14, <1>16, <1>17, <1>20, <1>23, <2>1, WordRight
  <1> QED
    BY <1>9, <1>14, <1>24 DEF BranchPost

\* What endcase finds: a case at cell K below a fallthrough or on top, with V endofs above cell Q.
EndcasePlace(b, n, k, v, q) ==
    /\ n = Len(stack) /\ k = n - Fell /\ k >= 2 /\ k <= n /\ v <= k - 2 /\ q = k - 2 - v /\ q >= b
    /\ stack[q][1] = "tag" /\ stack[k] = Tag("case") /\ stack[k - 1][1] = "num" /\ Holds(Fell + 2) = v
    /\ \A j \in 1..n : j > q /\ j <= k - 2 =>
            stack[j][1] = "addr" /\ stack[j][2] \in DOMAIN code /\ code[stack[j][2]].op = "endof"
    /\ Fell = 2 => n - 1 \in WaitCells(stack) /\ code[stack[n - 1][2]].op = "fallthrough"
    /\ Dropped(stack, Below(Fell + 2 + v), q)
\* The case that endcase finds has as many endofs as its number says, above a tag.
LEMMA EndcasePlaceIs ==
    ASSUME NEW b, Branchy(stack, code, b), Matches(Fell + 1, "case")
    PROVE  \E n, k, v, q \in Nat : EndcasePlace(b, n, k, v, q)
  <1>1. stack \in Seq(Cell) /\ b \in {1, 2} /\ stack[b] = Tag("colon") /\ Nested(stack, code, b)
    BY DEF Branchy, Nested
  <1>2. PICK n \in Nat : n = Len(stack)
    BY <1>1
  <1>3. Fell \in {0, 2} /\ (Fell = 2 => Matches(1, "fallthrough"))
    BY DEF Fell
  <1>4. PICK k \in Nat : k = n - Fell /\ k > 0 /\ k <= n /\ stack[k] = Tag("case")
    <2>1. n >= Fell + 1 /\ FromTop(Fell + 1) = Tag("case")
      BY <1>2 DEF Matches
    <2>2. n + 1 - (Fell + 1) = n - Fell /\ n - Fell \in Nat /\ n - Fell > 0 /\ n - Fell <= n
      BY <1>2, <1>3, <2>1
    <2>3. stack[n - Fell] = Tag("case")
      BY <1>2, <2>1, <2>2 DEF FromTop
    <2> QED
      BY <2>2, <2>3
  <1>5. Fell = 2 => k >= b /\ n - 1 \in WaitCells(stack) /\ code[stack[n - 1][2]].op = "fallthrough"
    <2> SUFFICES ASSUME Fell = 2
                 PROVE  k >= b /\ n - 1 \in WaitCells(stack) /\ code[stack[n - 1][2]].op = "fallthrough"
      OBVIOUS
    <2>1. "fallthrough" \in Forward \cup Back /\ "fallthrough" \in Forward /\ \A op \in OpsOf("fallthrough") : op = "fallthrough"
      BY DEF Forward, OpsOf
    <2>2. PICK l \in Nat, r \in Nat : TopWord(b, l, r, "fallthrough")
      BY <1>3, <2>1, TopWordIs
    <2>3. l = n /\ r = k /\ r + 1 = n - 1
      BY <1>2, <1>4, <2>2 DEF TopWord
    <2> QED
      BY <2>1, <2>2, <2>3 DEF TopWord
  <1>6. k >= b /\ k # b
    <2>1. k # b
      BY <1>1, <1>4, CellParts
    <2>2. Fell = 0 => k >= b
      BY <1>1, <1>2, <1>4 DEF Nested
    <2> QED
      BY <1>3, <1>5, <2>1, <2>2
  <1>7. CellAt(stack, code, b, k) /\ stack[k][2] = "case"
    <2>1. k \in (b + 1)..Len(stack)
      BY <1>1, <1>2, <1>4, <1>6
    <2> QED
      BY <1>1, <1>4, <2>1, CellParts DEF Nested
  <1>8. /\ k - 1 > b /\ stack[k - 1][1] = "num"
        /\ k - 2 - stack[k - 1][2] >= b /\ stack[k - 2 - stack[k - 1][2]][1] = "tag"
        /\ \A j \in 1..(k - 2) : j >= k - 1 - stack[k - 1][2] =>
              stack[j][1] = "addr" /\ stack[j][2] \in DOMAIN code /\ code[stack[j][2]].op = "endof"
    BY <1>7 DEF CellAt
  <1>9. PICK v \in Nat : v = stack[k - 1][2]
    <2>1. k - 1 \in 1..Len(stack)
      BY <1>1, <1>2, <1>4, <1>8
    <2>2. stack[k - 1] \in Cell
      BY <1>1, <2>1
    <2> QED
      BY <1>8, <2>2, CellIs
  <1>10. PICK q \in Nat : q = k - 2 - v /\ q >= b /\ stack[q][1] = "tag" /\ k >= 2 /\ v <= k - 2
    <2>1. PICK q \in Int : q = k - 2 - v
      OBVIOUS
    <2>2. q >= b /\ stack[q][1] = "tag"
      BY <1>8, <1>9, <2>1
    <2>3. q \in Nat /\ v <= k - 2 /\ k >= 2
      BY <1>1, <2>1, <2>2
    <2> QED
      BY <2>1, <2>2, <2>3
  <1>11. \A j \in 1..n : j > q /\ j <= k - 2 =>
             stack[j][1] = "addr" /\ stack[j][2] \in DOMAIN code /\ code[stack[j][2]].op = "endof"
    <2>1. \A j \in 1..n : j > q /\ j <= k - 2 => j \in 1..(k - 2) /\ j >= k - 1 - v
      BY <1>10
    <2> QED
      BY <1>8, <1>9, <2>1
  <1>12. Holds(Fell + 2) = v
    <2>1. n + 1 - (Fell + 2) = k - 1
      BY <1>3, <1>4
    <2> QED
      BY <1>2, <1>9, <2>1 DEF Holds, FromTop
  <1>13. Dropped(stack, Below(Fell + 2 + v), q)
    <2>1. PICK z \in 0..n : z = Fell + 2 + v /\ n - z = q
      BY <1>3, <1>4, <1>10
    <2> QED
      BY <1>1, <1>2, <2>1, Tops
  <1>14. EndcasePlace(b, n, k, v, q)
    BY <1>2, <1>4, <1>5, <1>8, <1>10, <1>11, <1>12, <1>13 DEF EndcasePlace
  <1> QED
    BY <1>14

\* endcase takes the branches that wait above its case's endofs, and no other cells.
LEMMA EndcaseTakesAll ==
    ASSUME stack \in Seq(Cell), NEW n \in Nat, NEW k \in Nat, NEW v \in Nat, NEW q \in Nat, NEW b, EndcasePlace(b, n, k, v, q)
    PROVE  {EndcaseTakes[i][2] : i \in EndcaseAddresses} = Taken(stack, q)
  <1>1. /\ n = Len(stack) /\ k = n - Fell /\ k >= 2 /\ k <= n /\ v <= k - 2 /\ q = k - 2 - v
        /\ stack[k] = Tag("case") /\ stack[k - 1][1] = "num" /\ Holds(Fell + 2) = v
        /\ \A j \in 1..n : j > q /\ j <= k - 2 => stack[j][1] = "addr"
        /\ Fell = 2 => n - 1 \in WaitCells(stack)
    BY DEF EndcasePlace
  <1>2. Fell \in {0, 2}
    BY DEF Fell
  <1>3. PICK e : e = EndcaseTakes
    OBVIOUS
  <1>4. TakenFrom(e, n, k, v)
    <2>1. Fell = 0 \/ n >= 2
      BY <1>1
    <2> QED
      BY <1>1, <1>3, <2>1, EndcaseTaken
  <1>5. ASSUME NEW j \in 1..n
        PROVE  j > q /\ j <= k - 2 => j \in WaitCells(stack)
    <2> SUFFICES ASSUME j > q, j <= k - 2 PROVE j \in WaitCells(stack)
      OBVIOUS
    <2>1. stack[j + 1][1] # "tag"
      <3>1. CASE j = k - 2
        <4>1. j + 1 = k - 1
          BY <3>1
        <4> QED
          BY <1>1, <4>1
      <3>2. CASE j # k - 2
        <4>1. PICK i \in 1..n : i = j + 1 /\ i > q /\ i <= k - 2
          BY <1>1, <3>2
        <4> QED
          BY <1>1, <4>1
      <3> QED
        BY <3>1, <3>2
    <2>2. j \in 1..(n - 1)
      BY <1>1
    <2> QED
      BY <1>1, <2>1, <2>2 DEF WaitCells, ToBack
  <1>6. ASSUME NEW a \in {e[i][2] : i \in {x \in DOMAIN e : e[x][1] = "addr"}}
        PROVE  a \in Taken(stack, q)
    <2>1. PICK i \in DOMAIN e : a = e[i][2]
      OBVIOUS
    <2>2. PICK j \in 1..n : e[i] = stack[j] /\ ((j >= k - 1 - v /\ j <= k - 2) \/ (Fell = 2 /\ j = n - 1))
      BY <1>4, <2>1 DEF TakenFrom
    <2>3. j > q /\ (j <= k - 2 \/ (Fell = 2 /\ j = n - 1))
      BY <1>1, <1>2, <2>2
    <2>4. j \in WaitCells(stack)
      BY <1>1, <1>5, <2>3
    <2> QED
      BY <2>1, <2>2, <2>3, <2>4 DEF Taken
  <1>7. ASSUME NEW a \in Taken(stack, q)
        PROVE  a \in {e[i][2] : i \in {x \in DOMAIN e : e[x][1] = "addr"}}
    <2>1. PICK j \in WaitCells(stack) : j > q /\ a = stack[j][2]
      BY DEF Taken
    <2>2. j \in 1..(n - 1) /\ stack[j][1] = "addr"
      BY <1>1, <2>1 DEF WaitCells
    <2>3. j # k /\ j # k - 1
      BY <1>1, <2>2, CellParts
    <2>4. j \in 1..n /\ ((j >= k - 1 - v /\ j <= k - 2) \/ (Fell = 2 /\ j = n - 1))
      <3>1. j \in 1..n /\ j >= k - 1 - v
        BY <1>1, <2>1, <2>2
      <3>2. CASE Fell = 0
        <4>1. k = n
          BY <1>1, <3>2
        <4> QED
          BY <2>2, <2>3, <3>1, <4>1
      <3>3. CASE Fell = 2
        <4>1. n = k + 2
          BY <1>1, <3>3
        <4> QED
          BY <2>2, <2>3, <3>1, <3>3, <4>1
      <3> QED
        BY <1>2, <3>2, <3>3
    <2>5. PICK i \in DOMAIN e : e[i] = stack[j]
      BY <1>4, <2>4 DEF TakenFrom
    <2> QED
      BY <2>1, <2>2, <2>5
  <1> QED
    BY <1>3, <1>6, <1>7 DEF EndcaseAddresses

\* The branches endcase patches.
LEMMA PatchAll ==
    ASSUME NEW c \in Seq(Instruction), NEW P, P \subseteq Waiting(c),
           NEW d, d = [a \in DOMAIN c |-> IF a \in P THEN Ins(c[a].op, Len(c) + 1) ELSE c[a]]
    PROVE  Patched(c, d, P)
  <1>1. PICK n \in Nat : n = Len(c) /\ DOMAIN c = 1..n
    OBVIOUS
  <1>2. \A a \in DOMAIN c : c[a] \in Instruction
    OBVIOUS
  <1>3. \A a \in DOMAIN c : Ins(c[a].op, n + 1) \in Instruction /\ Ins(c[a].op, n + 1).op = c[a].op /\ Ins(c[a].op, n + 1).to = n + 1
    BY <1>1, <1>2 DEF Ins, Instruction
  <1>4. /\ d = [a \in 1..n |-> d[a]] /\ \A a \in 1..n : d[a] \in Instruction /\ d[a].op = c[a].op
        /\ \A a \in 1..n : (a \in P => d[a].to = n + 1) /\ (a \notin P => d[a] = c[a])
    BY <1>1, <1>2, <1>3
  <1>5. d \in Seq(Instruction) /\ Len(d) = n
    BY <1>1, <1>4
  <1>6. \A a \in P : a \in 1..n
    BY <1>1 DEF Waiting
  <1> QED
    BY <1>1, <1>4, <1>5, <1>6 DEF Patched

\* endcase
LEMMA EndcaseRight == ASSUME NEW b, BranchPre(b), Endcase PROVE BranchPost(b)
  <1>1. Typed(stack', code') /\ Branchy(stack, code, b)
    BY EndcaseKeeps DEF BranchPre, WordPost
  <1>2. PICK n \in Nat, k \in Nat, v \in Nat, q \in Nat : EndcasePlace(b, n, k, v, q)
    BY <1>1, EndcasePlaceIs DEF Endcase
  <1>3. /\ stack \in Seq(Cell) /\ code \in Seq(Instruction) /\ Older(stack, code) /\ CodeRight(code)
    BY <1>1, OlderIs DEF Branchy, Nested
  <1>4. PICK P : P = Taken(stack, q) /\ P = {EndcaseTakes[i][2] : i \in EndcaseAddresses}
    BY <1>2, <1>3, EndcaseTakesAll
  <1>5. PICK e \in Instruction : e = Ins("drop", 0) /\ e.op = "drop" /\ e.to = 0
    BY BranchInstructions
  <1>6. PICK g : g = Append(code, e)
    OBVIOUS
  <1>7. Appended(code, g, e)
    BY <1>3, <1>6, AppendedIs
  <1>8. e.op \notin Branches
    BY <1>5 DEF Branches
  <1>9. Compiling(code, g) /\ Waiting(g) = Waiting(code)
    <2>1. MayGoBack(code, e)
      BY <1>8, MayWait
    <2> QED
      BY <1>3, <1>7, <1>8, <2>1, GrownIs DEF Compiling, Grown
  <1>10. g \in Seq(Instruction) /\ g[Len(g)].op = "drop" /\ \A i \in DOMAIN code : g[i] = code[i]
    BY <1>5, <1>7 DEF Appended
  <1>11. \A a \in P : a \in Waiting(code) /\ code[a].op \in {"endof", "fallthrough"}
    <2> SUFFICES ASSUME NEW a \in P
                 PROVE  a \in Waiting(code) /\ code[a].op \in {"endof", "fallthrough"}
      OBVIOUS
    <2>1. PICK j \in WaitCells(stack) : j > q /\ a = stack[j][2]
      BY <1>4 DEF Taken
    <2>2. a \in Waiting(code)
      BY <1>3, <2>1 DEF Older
    <2>3. /\ n = Len(stack) /\ k = n - Fell /\ stack[k] = Tag("case") /\ stack[k - 1][1] = "num"
          /\ \A x \in 1..n : x > q /\ x <= k - 2 => code[stack[x][2]].op = "endof"
          /\ Fell = 2 => code[stack[n - 1][2]].op = "fallthrough"
      BY <1>2 DEF EndcasePlace
    <2>4. j \in 1..(n - 1) /\ stack[j][1] = "addr" /\ Fell \in {0, 2}
      BY <2>1, <2>3 DEF WaitCells, Fell
    <2>5. j # k /\ j # k - 1
      BY <2>3, <2>4, CellParts
    <2>6. j <= k - 2 \/ (Fell = 2 /\ j = n - 1)
      BY <2>3, <2>4, <2>5
    <2> QED
      BY <2>1, <2>2, <2>3, <2>4, <2>6
  <1>12. PICK d : d = code' /\ d = [a \in DOMAIN g |-> IF a \in P THEN Ins(g[a].op, Len(g) + 1) ELSE g[a]]
    BY <1>4, <1>5, <1>6 DEF Endcase, Compiles
  <1>13. Patched(g, d, P)
    BY <1>9, <1>10, <1>11, <1>12, PatchAll
  <1>14. Kept(code, d)
    BY <1>3, <1>7, <1>13, PatchedKeeps
  <1>15. \A a \in P : Fits(g, g[a].op)
    <2>1. \A a \in P : a \in DOMAIN code
      BY <1>11 DEF Waiting
    <2> QED
      BY <1>10, <1>11, <2>1 DEF Fits
  <1>16. PICK t : t = stack'
    OBVIOUS
  <1>17. Dropped(stack, t, q) /\ b <= q /\ stack[q][1] = "tag"
    BY <1>2, <1>16 DEF Endcase, Compiles, EndcasePlace
  <1>18. Branchy(t, d, b)
    BY <1>1, <1>4, <1>9, <1>12, <1>13, <1>14, <1>15, <1>16, <1>17, TakeRight
  <1> QED
    BY <1>12, <1>16, <1>18 DEF BranchPost

\* Code to which instructions that are no branches have been compiled; the operand of such an instruction may change.
Plainer(c, d) ==
    /\ Kept(c, d)
    /\ \A i \in DOMAIN c : IsBranch(c, i) => d[i] = c[i]
    /\ \A i \in DOMAIN d : i \in DOMAIN c \/ ~IsBranch(d, i)
\* The branches and where they go are the same.
LEMMA PlainerRight ==
    ASSUME NEW s, NEW c, NEW b, Branchy(s, c, b), NEW d, Plainer(c, d)
    PROVE  Branchy(s, d, b)
  <1>1. c \in Seq(Instruction) /\ d \in Seq(Instruction) /\ Kept(c, d) /\ CodeRight(c)
    BY DEF Branchy, Plainer, Kept
  <1>2. PICK n \in Nat, m \in Nat : n = Len(c) /\ m = Len(d) /\ DOMAIN c = 1..n /\ DOMAIN d = 1..m /\ n <= m
    BY <1>1 DEF Kept
  <1>3. \A i : IsBranch(d, i) /\ i \in DOMAIN d <=> IsBranch(c, i) /\ i \in DOMAIN c
    BY <1>2 DEF Plainer, Kept, IsBranch
  <1>4. \A i \in DOMAIN c : IsBranch(c, i) => d[i] = c[i]
    BY DEF Plainer
  <1>5. Waiting(d) = Waiting(c) /\ Resolved(d) = Resolved(c)
    BY <1>3, <1>4 DEF Waiting, Resolved
  <1>6. \A i \in Resolved(c) \cup Waiting(c) : i \in DOMAIN c /\ d[i] = c[i]
    BY <1>4 DEF Resolved, Waiting
  <1>7. Dos(d, Resolved(d)) = Dos(c, Resolved(c)) /\ Dos(d, Waiting(d)) = Dos(c, Waiting(c))
    BY <1>5, <1>6 DEF Dos
  <1>8. \A x \in Dos(c, Resolved(c)) : Body(d, x) = Body(c, x)
    BY <1>6 DEF Body, Dos
  <1>9. \A a : Outside(d, a) <=> Outside(c, a)
    BY <1>7, <1>8 DEF Outside
  <1>10. ASSUME NEW i \in Resolved(d)
         PROVE  RightSoFar(d, i)
    <2>1. RightSoFar(c, i) /\ d[i] = c[i] /\ i \in DOMAIN c
      BY <1>1, <1>5, <1>6 DEF CodeRight
    <2>2. PICK to \in Nat : to = c[i].to /\ to \in 1..(n + 1) /\ d[i].to = to
      BY <1>2, <2>1 DEF RightSoFar
    <2>3. to \in 1..(m + 1)
      BY <1>2, <2>2
    <2>4. IsBranch(c, i)
      BY <1>5 DEF Resolved
    <2>5. c[i].op \in {"do", "of", "endof", "fallthrough"} => to - 1 \in DOMAIN c
      <3>1. c[i].op \in {"do", "of", "endof", "fallthrough"} => to > i
        BY <2>1, <2>2 DEF RightSoFar
      <3> QED
        BY <1>2, <2>1, <2>2, <3>1
    <2>6. \A x \in DOMAIN c : d[x].op = c[x].op
      BY <1>1 DEF Kept
    <2>7. c[i].op = "do" => d[to - 1] = c[to - 1]
      <3> SUFFICES ASSUME c[i].op = "do" PROVE d[to - 1] = c[to - 1]
        OBVIOUS
      <3>1. c[to - 1] = Ins("loop", i + 1)
        BY <2>1, <2>2 DEF RightSoFar
      <3>2. IsBranch(c, to - 1) /\ to - 1 \in DOMAIN c
        BY <2>5, <3>1 DEF IsBranch, Ins, Branches
      <3> QED
        BY <1>4, <3>2
    <2> QED
      BY <1>2, <2>1, <2>2, <2>3, <2>5, <2>6, <2>7 DEF RightSoFar
  <1>11. Closed(d)
    <2>1. \A x \in Dos(c, Resolved(c)) : \A i \in Resolved(c) \ {x} : i \in Body(c, x) <=> c[i].to \in Body(c, x)
      BY <1>1 DEF CodeRight, Closed
    <2>2. \A x \in Dos(c, Resolved(c)) : \A i \in Resolved(c) \ {x} : i \in Body(d, x) <=> d[i].to \in Body(d, x)
      BY <1>6, <1>8, <2>1
    <2> QED
      BY <1>5, <1>7, <2>2 DEF Closed
  <1>12. \A i \in Waiting(d) : Outside(d, i)
    BY <1>1, <1>5, <1>9 DEF CodeRight
  <1>13. Apart(d)
    <2>1. \A x \in Dos(c, Waiting(c)), i \in Resolved(c) : (i > x => c[i].to > x) /\ (i < x => c[i].to <= x)
      BY <1>1 DEF CodeRight, Apart
    <2>2. \A x \in Dos(c, Waiting(c)), i \in Resolved(c) : (i > x => d[i].to > x) /\ (i < x => d[i].to <= x)
      BY <1>6, <2>1
    <2> QED
      BY <1>5, <1>7, <2>2 DEF Apart
  <1>14. CodeRight(d)
    BY <1>10, <1>11, <1>12, <1>13 DEF CodeRight
  <1>15. Serves(s, d)
    BY <1>5, <1>9 DEF Branchy, Serves
  <1>16. Nested(s, d, b)
    <2>1. Nested(s, c, b) /\ s \in Seq(Cell) /\ b \in {1, 2} /\ b <= Len(s)
      BY DEF Branchy, Nested
    <2>2. PICK q \in Nat : q = Len(s) /\ b <= q
      BY <2>1
    <2>3. /\ s[b] = Tag("colon") /\ (b = 2 => s[1] = Xt)
          /\ \A k \in (b + 1)..q : s[k][1] = "tag" => CellAt(s, d, b, k)
      BY <1>1, <2>1, <2>2, NestedTo
    <2> QED
      BY <2>1, <2>2, <2>3 DEF Nested
  <1>17. Typed(s, d)
    BY <1>2 DEF Branchy, Typed
  <1> QED
    BY <1>1, <1>14, <1>15, <1>16, <1>17 DEF Branchy

\* An instruction that is no branch.
LEMMA PlainOne ==
    ASSUME NEW c, NEW d, NEW e, Appended(c, d, e), e.op \notin Branches
    PROVE  Plainer(c, d)
  <1>1. c \in Seq(Instruction) /\ d \in Seq(Instruction) /\ Kept(c, d) /\ Len(d) = Len(c) + 1 /\ d[Len(c) + 1] = e
    BY DEF Appended, Kept
  <1>2. \A i \in DOMAIN d : i \in DOMAIN c \/ i = Len(c) + 1
    BY <1>1
  <1> QED
    BY <1>1, <1>2 DEF Plainer, Appended, IsBranch

\* More of them.
LEMMA PlainTwice ==
    ASSUME NEW c, NEW d, NEW f, Plainer(c, d), Plainer(d, f)
    PROVE  Plainer(c, f)
  <1>1. Kept(c, f)
    BY KeptTwice DEF Plainer
  <1>2. \A i \in DOMAIN c : i \in DOMAIN d /\ (IsBranch(c, i) <=> IsBranch(d, i))
    BY DEF Plainer, Kept, IsBranch
  <1>3. \A i \in DOMAIN c : IsBranch(c, i) => f[i] = c[i]
    BY <1>2 DEF Plainer
  <1>4. ASSUME NEW i \in DOMAIN f, i \notin DOMAIN c
        PROVE  ~IsBranch(f, i)
    <2>1. CASE i \notin DOMAIN d
      BY <2>1 DEF Plainer
    <2>2. CASE i \in DOMAIN d
      <3>1. ~IsBranch(d, i)
        BY <1>4, <2>2 DEF Plainer
      <3>2. f[i].op = d[i].op
        BY <2>2 DEF Plainer, Kept
      <3> QED
        BY <3>1, <3>2 DEF IsBranch
    <2> QED
      BY <2>1, <2>2
  <1> QED
    BY <1>1, <1>3, <1>4 DEF Plainer

\* What exit, does> and ; compile.
LEMMA PlainLeaving ==
    ASSUME NEW c \in Seq(Instruction), NEW count, NEW op \in {"exit", "does", "semi"}, NEW d, d = Leaving(c, count, op)
    PROVE  Plainer(c, d) /\ d \in Seq(Instruction)
  <1>1. PICK x \in Instruction, y \in Instruction : x = Ins("unlink", 0) /\ y = Ins(op, 0) /\ x.op = "unlink" /\ y.op = op
    BY FrameInstructions
  <1>2. x.op \notin Branches /\ y.op \notin Branches
    BY <1>1, NotBranches
  <1>3. CASE count > 0
    <2>1. PICK l : l = Append(c, x)
      OBVIOUS
    <2>2. Appended(c, l, x)
      BY <2>1, AppendedIs
    <2>3. l \in Seq(Instruction) /\ Plainer(c, l)
      BY <1>2, <2>2, PlainOne DEF Appended
    <2>4. d = Append(l, y)
      <3>1. d = c \o <<x>> \o <<y>>
        BY <1>1, <1>3 DEF Leaving
      <3>2. c \o <<x>> = l /\ l \o <<y>> = Append(l, y)
        BY <2>1, <2>3, AppendOne
      <3> QED
        BY <3>1, <3>2
    <2>5. Appended(l, d, y)
      BY <2>3, <2>4, AppendedIs
    <2>6. Plainer(l, d) /\ d \in Seq(Instruction)
      BY <1>2, <2>5, PlainOne DEF Appended
    <2> QED
      BY <2>3, <2>6, PlainTwice
  <1>4. CASE ~(count > 0)
    <2>1. d = c \o <<>> \o <<y>>
      BY <1>1, <1>4 DEF Leaving
    <2>2. d = Append(c, y)
      BY <2>1, AppendOne
    <2>3. Appended(c, d, y)
      BY <2>2, AppendedIs
    <2> QED
      BY <1>2, <2>3, PlainOne DEF Appended
  <1> QED
    BY <1>3, <1>4

\* What (local) compiles.
LEMMA PlainParen ==
    ASSUME NEW c \in Seq(Instruction), NEW count \in Nat, NEW fixup \in 0..Len(c), fixup # 0 => c[fixup].op = "link",
           NEW d, d = LocalParen(c, count, fixup)
    PROVE  Plainer(c, d)
  <1>0. "link" \notin Branches /\ "tolocal" \notin Branches
    BY NotBranches
  <1>1. CASE count = 0
    <2>1. PICK x \in Instruction, y \in Instruction : x = Ins("link", 1) /\ y = Ins("tolocal", 0) /\ x.op = "link" /\ y.op = "tolocal"
      BY FrameInstructions
    <2>2. PICK l : l = Append(c, x)
      OBVIOUS
    <2>3. d = Append(l, y)
      BY <1>1, <2>1, <2>2, LocalParenFirst
    <2>4. Appended(c, l, x)
      BY <2>2, AppendedIs
    <2>5. l \in Seq(Instruction) /\ Plainer(c, l)
      BY <1>0, <2>1, <2>4, PlainOne DEF Appended
    <2>6. Appended(l, d, y)
      BY <2>3, <2>5, AppendedIs
    <2>7. Plainer(l, d)
      BY <1>0, <2>1, <2>6, PlainOne
    <2> QED
      BY <2>5, <2>7, PlainTwice
  <1>2. CASE count # 0
    <2>1. PICK y \in Instruction : y = Ins("tolocal", count) /\ y.op = "tolocal"
      BY FrameInstructions
    <2>2. CASE fixup = 0
      <3>1. d = Append(c, y)
        BY <1>2, <2>1, <2>2, LocalUnlinked
      <3>2. Appended(c, d, y)
        BY <3>1, AppendedIs
      <3> QED
        BY <1>0, <2>1, <3>2, PlainOne
    <2>3. CASE fixup # 0
      <3>1. fixup \in DOMAIN c /\ c[fixup].op = "link" /\ count \in Nat \ {0} /\ count + 1 \in Nat
        BY <1>2, <2>3
      <3>2. PICK x \in Instruction : x = Ins("link", count + 1) /\ x.op = "link"
        BY <3>1, FrameInstructions
      <3>3. PICK l : l = [c EXCEPT ![fixup] = x]
        OBVIOUS
      <3>4. d = Append(l, y)
        BY <2>1, <3>1, <3>2, <3>3, LocalParenNext
      <3>5. l \in Seq(Instruction) /\ Len(l) = Len(c) /\ l[fixup] = x /\ \A i \in DOMAIN c \ {fixup} : l[i] = c[i]
        BY <3>1, <3>3, Overwrite
      <3>6. Plainer(c, l)
        <4>1. \A i \in DOMAIN c : l[i].op = c[i].op
          BY <3>1, <3>2, <3>5
        <4>2. \A i \in DOMAIN c : IsBranch(c, i) => l[i] = c[i]
          BY <1>0, <3>1, <3>5 DEF IsBranch
        <4>3. DOMAIN l = DOMAIN c
          BY <3>5
        <4> QED
          BY <3>5, <4>1, <4>2, <4>3 DEF Plainer, Kept
      <3>7. Appended(l, d, y)
        BY <3>4, <3>5, AppendedIs
      <3>8. Plainer(l, d)
        BY <1>0, <2>1, <3>7, PlainOne
      <3> QED
        BY <3>6, <3>8, PlainTwice
    <2> QED
      BY <2>2, <2>3
  <1> QED
    BY <1>1, <1>2

\* exit, does>, { n } and the name of a local compile no branch.
LocalWord == Exit \/ Does \/ \E n \in LocalName : Local(n) \/ Word(n)
\* A word about locals compiles no branch and leaves the stack and what is done alone.
LEMMA LocalWordPlain ==
    ASSUME FrameInv, ~wild, LocalWord
    PROVE  Plainer(code, code') /\ UNCHANGED <<state, stack, done>> /\ state = "compile"
  <1>1. UNCHANGED <<state, stack, done>> /\ state = "compile"
    BY DEF LocalWord, Exit, Does, Local, Word, Plainly, Compiles
  <1>2. InProgress /\ TypeOK
    BY <1>1 DEF FrameInv
  <1>3. code \in Seq(Instruction) /\ localsCount \in Nat /\ localsFixup \in 0..Len(code)
    BY <1>2, CompileAssumption DEF TypeOK, Code, Instruction
  <1>4. CASE Exit
    <2>1. PICK d : d = Leaving(code, localsCount, "exit") /\ d = code'
      BY <1>4 DEF Exit, Plainly, Compiles, Leaving, Unlink
    <2> QED
      BY <1>1, <1>3, <2>1, PlainLeaving
  <1>5. CASE Does
    <2>1. PICK d : d = Leaving(code, localsCount, "does")
      OBVIOUS
    <2>2. PICK e : e = LocalParen(d, 0, 0) /\ e = code'
      BY <1>5, <2>1 DEF Does, Leaving, Unlink, ficl_init_locals
    <2>3. Plainer(code, d) /\ d \in Seq(Instruction)
      BY <1>3, <2>1, PlainLeaving
    <2>4. 0 \in 0..Len(d)
      BY <2>3
    <2>5. Plainer(d, e)
      BY <2>2, <2>3, <2>4, PlainParen
    <2> QED
      BY <1>1, <2>2, <2>3, <2>5, PlainTwice
  <1>6. CASE \E n \in LocalName : Local(n)
    <2>1. PICK d : d = LocalParen(code, localsCount, localsFixup) /\ d = code'
      BY <1>6 DEF Local
    <2>2. localsFixup # 0 => code[localsFixup].op = "link"
      BY <1>2 DEF InProgress
    <2> QED
      BY <1>1, <1>3, <2>1, <2>2, PlainParen
  <1>7. ASSUME NEW n \in LocalName, Word(n)
        PROVE  Plainer(code, code')
    <2>1. PICK i \in DOMAIN locals : ficlSystemLookupLocal(n)[1] = locals[i].index
      BY <1>2, <1>7, FoundLocal DEF Word
    <2>2. PICK index \in Nat : index = locals[i].index
      <3>1. locals[i].index \in 0..(MAX_LOCALS - 1)
        BY <1>2, <2>1, LocalIndexes
      <3> QED
        BY <3>1
    <2>3. PICK e \in Instruction : e = Ins("getlocal", index) /\ e.op = "getlocal"
      BY FrameInstructions
    <2>4. PICK d : d = Append(code, e) /\ d = code'
      BY <1>7, <2>1, <2>2, <2>3 DEF Word, Plainly, Compiles
    <2>5. Appended(code, d, e)
      BY <1>3, <2>4, AppendedIs
    <2>6. "getlocal" \notin Branches
      BY NotBranches
    <2> QED
      BY <2>3, <2>4, <2>5, <2>6, PlainOne
  <1> QED
    BY <1>1, <1>4, <1>5, <1>6, <1>7 DEF LocalWord

-----------------------------------------------------------------------------
(* Where a definition begins and ends, and the inductive invariant of the branches. *)

\* What a definition finds below its structures: the tag of :, and the xt of a nameless one.
Bottom(how) == IF how = "colon" THEN 1 ELSE 2
BottomCells(s, b) == (s = <<Tag("colon")>> /\ b = 1) \/ (s = <<Xt, Tag("colon")>> /\ b = 2)
\* A definition that begins has no branches.
LEMMA FirstBranches ==
    ASSUME NEW s, NEW b, BottomCells(s, b), NEW c, c = <<>>
    PROVE  Branchy(s, c, b)
  <1>1. PICK x \in Cell, y \in Cell : x = Xt /\ y = Tag("colon") /\ x[1] = "xt" /\ y[1] = "tag"
    BY CellsPushed, CellParts
  <1>2. /\ s \in Seq(Cell) /\ b \in {1, 2} /\ Len(s) = b /\ s[b] = y /\ (b = 2 => s[1] = x)
    <2>1. CASE s = <<y>> /\ b = 1
      BY <1>1, <2>1
    <2>2. CASE s = <<x, y>> /\ b = 2
      BY <1>1, <2>2
    <2> QED
      BY <1>1, <2>1, <2>2 DEF BottomCells
  <1>3. c \in Seq(Instruction) /\ DOMAIN c = {}
    OBVIOUS
  <1>4. Typed(s, c)
    <2>1. s = <<Tag("colon")>> \/ s = <<Xt, Tag("colon")>>
      BY DEF BottomCells
    <2> QED
      BY <2>1, FirstGroups
  <1>5. WaitCells(s) = {} /\ BackCells(s) = {}
    <2>1. \A j \in 1..(Len(s) - 1) : b = 2 /\ j = 1
      BY <1>2
    <2>2. \A j \in 1..(Len(s) - 1) : s[j][1] # "addr"
      BY <1>1, <1>2, <2>1
    <2> QED
      BY <2>2 DEF WaitCells, BackCells
  <1>6. Nested(s, c, b)
    <2>1. \A k \in (b + 1)..Len(s) : FALSE
      BY <1>2
    <2> QED
      BY <1>1, <1>2, <2>1 DEF Nested
  <1>7. Waiting(c) = {} /\ Resolved(c) = {}
    BY <1>3 DEF Waiting, Resolved
  <1>8. CodeRight(c)
    <2>1. Dos(c, {}) = {}
      BY DEF Dos
    <2> QED
      BY <1>7, <2>1 DEF CodeRight, Closed, Apart
  <1>9. Ordered(s) /\ Serves(s, c)
    BY <1>5, <1>7 DEF Ordered, Serves
  <1> QED
    BY <1>3, <1>4, <1>6, <1>8, <1>9 DEF Branchy

\* A ; whose tag is on top finds the bottom: no structure is open, and no branch waits.
LEMMA LastBranches ==
    ASSUME NEW b, Branchy(stack, code, b), Matches(1, "colon")
    PROVE  /\ Len(stack) = b /\ Waiting(code) = {}
           /\ Below(1) = IF b = 1 THEN <<>> ELSE <<Xt>>
  <1>1. /\ stack \in Seq(Cell) /\ b \in {1, 2} /\ b <= Len(stack) /\ (b = 2 => stack[1] = Xt)
        /\ Nested(stack, code, b) /\ Serves(stack, code)
    BY DEF Branchy, Nested
  <1>2. PICK n \in Nat : n = Len(stack) /\ n >= 1 /\ stack[n] = Tag("colon")
    BY <1>1, Tops DEF Matches
  <1>3. n = b
    <2> SUFFICES ASSUME n # b PROVE FALSE
      OBVIOUS
    <2>1. n \in (b + 1)..Len(stack)
      BY <1>1, <1>2
    <2>2. CellAt(stack, code, b, n)
      BY <1>1, <1>2, <2>1, CellParts DEF Nested
    <2> QED
      BY <1>2, <2>2, CellParts DEF CellAt
  <1>4. \A j \in 1..(n - 1) : b = 2 /\ j = 1
    BY <1>1, <1>3
  <1>5. WaitCells(stack) = {}
    BY <1>1, <1>2, <1>4, CellParts DEF WaitCells
  <1>6. Waiting(code) = {}
    BY <1>1, <1>5 DEF Serves
  <1>7. Below(1) = IF b = 1 THEN <<>> ELSE <<Xt>>
    <2>1. Below(1) = SubSeq(stack, 1, n - 1)
      BY <1>2 DEF Below
    <2>2. CASE b = 1
      BY <1>1, <1>3, <2>1, <2>2
    <2>3. CASE b = 2
      <3>1. PICK x \in Cell : x = Xt /\ stack[1] = x
        BY <1>1, <2>3, CellsPushed
      <3>2. Below(1) = SubSeq(stack, 1, 1)
        BY <1>3, <2>1, <2>3
      <3>3. SubSeq(stack, 1, 1) = <<x>>
        <4>1. PICK l, o : l = SubSeq(stack, 1, 1) /\ o = <<x>>
          OBVIOUS
        <4>2. 1 \in 0..Len(stack)
          BY <1>2
        <4>3. l \in Seq(Cell) /\ Len(l) = 1 /\ l[1] = x
          <5>1. Dropped(stack, l, 1)
            BY <1>1, <4>1, <4>2, DropSome
          <5> QED
            BY <3>1, <5>1 DEF Dropped
        <4>4. o \in Seq(Cell) /\ Len(o) = 1 /\ o[1] = x
          BY <4>1
        <4>5. \A i \in 1..1 : l[i] = o[i]
          BY <4>3, <4>4
        <4>6. l = o
          BY <4>3, <4>4, <4>5
        <4> QED
          BY <4>1, <4>6
      <3> QED
        BY <2>3, <3>1, <3>2, <3>3
    <2> QED
      BY <1>1, <2>2, <2>3
  <1> QED
    BY <1>2, <1>3, <1>6, <1>7

\* Every branch goes right, and bodies are closed, in code whose branches have all been patched.
LEMMA AllResolved ==
    ASSUME NEW c \in Seq(Instruction), CodeRight(c), Waiting(c) = {}, NEW d, Plainer(c, d), Len(c) < Len(d)
    PROVE  /\ \A i \in DOMAIN d : IsBranch(d, i) => GoesRight(d, i)
           /\ \A x \in DOMAIN d : d[x].op = "do" =>
                \A i \in DOMAIN d \ {x} :
                    IsBranch(d, i) => (i \in (x + 1)..(d[x].to - 1) <=> d[i].to \in (x + 1)..(d[x].to - 1))
  <1>1. PICK n \in Nat, m \in Nat : n = Len(c) /\ m = Len(d) /\ DOMAIN c = 1..n /\ DOMAIN d = 1..m /\ n < m
    BY DEF Plainer, Kept
  <1>2. \A i \in DOMAIN d : IsBranch(d, i) => i \in Resolved(c) /\ d[i] = c[i]
    <2>1. \A i \in DOMAIN d : IsBranch(d, i) => i \in DOMAIN c /\ IsBranch(c, i)
      BY DEF Plainer, Kept, IsBranch
    <2>2. \A i \in DOMAIN c : IsBranch(c, i) => d[i] = c[i] /\ i \in Resolved(c)
      BY DEF Plainer, Waiting, Resolved
    <2> QED
      BY <2>1, <2>2
  <1>3. ASSUME NEW i \in DOMAIN d, IsBranch(d, i)
        PROVE  GoesRight(d, i)
    <2>1. i \in Resolved(c) /\ d[i] = c[i] /\ RightSoFar(c, i) /\ i \in DOMAIN c
      BY <1>2, <1>3 DEF CodeRight, Resolved
    <2>2. PICK to \in Nat : to = c[i].to /\ to \in 1..(n + 1) /\ d[i].to = to
      BY <1>1, <2>1 DEF RightSoFar
    <2>3. to \in 1..m
      BY <1>1, <2>2
    <2>4. c[i].op \in {"if", "else", "while", "do", "of", "endof", "fallthrough"} => to > i
      BY <2>1, <2>2 DEF RightSoFar
    <2>5. c[i].op \in {"until", "repeat", "loop"} => to <= i
      BY <2>1, <2>2 DEF RightSoFar
    <2>6. c[i].op \in {"do", "of", "endof", "fallthrough"} => to \in 2..(m + 1) /\ to - 1 \in DOMAIN c
      BY <1>1, <2>1, <2>2, <2>4
    <2>7. \A x \in DOMAIN c : d[x].op = c[x].op
      BY DEF Plainer, Kept
    <2>8. c[i].op = "do" => d[to - 1] = Ins("loop", i + 1)
      <3> SUFFICES ASSUME c[i].op = "do" PROVE d[to - 1] = Ins("loop", i + 1)
        OBVIOUS
      <3>1. c[to - 1] = Ins("loop", i + 1)
        BY <2>1, <2>2 DEF RightSoFar
      <3>2. IsBranch(c, to - 1) /\ to - 1 \in DOMAIN c
        BY <2>6, <3>1 DEF IsBranch, Ins, Branches
      <3> QED
        BY <3>1, <3>2 DEF Plainer
    <2>9. c[i].op = "of" => d[to - 1].op \in {"endof", "fallthrough"}
      BY <2>1, <2>2, <2>6, <2>7 DEF RightSoFar
    <2>10. c[i].op = "endof" => d[to - 1].op = "drop"
      BY <2>1, <2>2, <2>6, <2>7 DEF RightSoFar
    <2>11. c[i].op = "fallthrough" => d[to - 1].op \in {"of", "drop"}
      BY <2>1, <2>2, <2>6, <2>7 DEF RightSoFar
    <2>12. PICK before : before = IF to \in 2..(m + 1) THEN d[to - 1] ELSE Ins("none", 0)
      OBVIOUS
    <2>13. /\ c[i].op = "do" => before = Ins("loop", i + 1)
           /\ c[i].op = "of" => before.op \in {"endof", "fallthrough"}
           /\ c[i].op = "endof" => before.op = "drop"
           /\ c[i].op = "fallthrough" => before.op \in {"of", "drop"}
      BY <2>6, <2>8, <2>9, <2>10, <2>11, <2>12
    <2> QED
      BY <1>1, <2>1, <2>2, <2>3, <2>4, <2>5, <2>12, <2>13 DEF GoesRight
  <1>4. ASSUME NEW x \in DOMAIN d, d[x].op = "do", NEW i \in DOMAIN d \ {x}, IsBranch(d, i)
        PROVE  i \in (x + 1)..(d[x].to - 1) <=> d[i].to \in (x + 1)..(d[x].to - 1)
    <2>1. IsBranch(d, x)
      BY <1>4 DEF IsBranch, Branches
    <2>2. x \in Resolved(c) /\ d[x] = c[x] /\ i \in Resolved(c) \ {x} /\ d[i] = c[i]
      BY <1>2, <1>4, <2>1
    <2>3. x \in Dos(c, Resolved(c))
      BY <1>4, <2>2 DEF Dos
    <2> QED
      BY <2>2, <2>3 DEF CodeRight, Closed, Body
  <1> QED
    BY <1>3, <1>4

\* What is so of every definition: what a ; has accepted is right, and while a definition is in
\* progress its branches and the cells of its structures are as Branchy says.
BranchInv ==
    /\ FrameInv /\ BranchesResolved /\ DoBodiesClosed
    /\ state = "compile" /\ ~done.loose => done.found = <<>> /\ Branchy(stack, code, Bottom(done.how))

\* What is said of accepted definitions says nothing while one is in progress.
LEMMA NothingAccepted ==
    ASSUME TypeOK, done.code = <<>>
    PROVE  BranchesResolved /\ DoBodiesClosed
  BY DEF BranchesResolved, DoBodiesClosed, Accepted

\* A structure word keeps the branches right.
LEMMA StructureRight ==
    ASSUME NEW b, BranchPre(b), StructureWord, ~While \/ Matches(1, "target")
    PROVE  BranchPost(b)
  BY IfRight, ElseRight, ThenRight, BeginLoopRight, UntilRight, WhileRight, RepeatRight, DoRight, LoopRight,
     CaseRight, OfRight, EndofRight, FallthroughRight, EndcaseRight DEF StructureWord

\* A structure word leaves what is known of its definition, unless it is a loose while.
LEMMA LooseWhile ==
    ASSUME DoneType, StructureWord
    PROVE  /\ done'.found = done.found /\ done'.how = done.how /\ done'.code = done.code
           /\ ~done'.loose => ~done.loose /\ (~While \/ Matches(1, "target"))
  <1>1. CASE While
    <2>1. PICK l \in BOOLEAN : l = (done.loose \/ ~Matches(1, "target"))
      BY DEF DoneType
    <2>2. done' = [done EXCEPT !.loose = l]
      BY <1>1, <2>1 DEF While
    <2> QED
      BY <2>1, <2>2 DEF DoneType
  <1>2. CASE ~While
    <2>1. done' = done
      BY <1>2 DEF StructureWord, If, Else, Then, BeginLoop, Until, Repeat, Do, Loop, Case, Of, Endof, Fallthrough,
                  Endcase, Plainly
    <2> QED
      BY <1>2, <2>1
  <1> QED
    BY <1>1, <1>2

\* Structure words keep the invariant.
LEMMA BranchStructure ==
    ASSUME BranchInv, ~wild, StructureWord
    PROVE  BranchInv'
  <1>1. FrameInv' /\ TypeOK' /\ InProgress /\ TypeOK /\ DoneType /\ state = "compile"
    <2>1. state = "compile"
      BY StructureTouches DEF BranchInv, FrameInv, TypeOK
    <2>2. FrameInv'
      BY FrameStructure DEF BranchInv
    <2> QED
      BY <2>1, <2>2 DEF BranchInv, FrameInv
  <1>2. /\ done'.found = done.found /\ done'.how = done.how /\ done'.code = done.code
        /\ ~done'.loose => ~done.loose /\ (~While \/ Matches(1, "target"))
    BY <1>1, LooseWhile
  <1>3. ASSUME ~done'.loose
        PROVE  done'.found = <<>> /\ Branchy(stack', code', Bottom(done'.how))
    <2>1. PICK b : b = Bottom(done.how)
      OBVIOUS
    <2>2. done.found = <<>> /\ Branchy(stack, code, b)
      BY <1>1, <1>2, <1>3, <2>1 DEF BranchInv
    <2>3. BranchPre(b)
      BY <1>1, <2>2 DEF BranchPre, WordPre, InProgress
    <2>4. BranchPost(b)
      BY <1>2, <1>3, <2>3, StructureRight
    <2> QED
      BY <1>2, <2>1, <2>2, <2>4 DEF BranchPost, Bottom
  <1>4. BranchesResolved' /\ DoBodiesClosed'
    <2>1. done'.code = <<>>
      BY <1>1, <1>2 DEF InProgress
    <2> QED
      BY <1>1, <2>1 DEF BranchesResolved, DoBodiesClosed, Accepted
  <1> QED
    BY <1>1, <1>3, <1>4 DEF BranchInv

\* exit, does>, { n } and the name of a local keep the invariant.
LEMMA BranchLocal ==
    ASSUME BranchInv, ~wild, LocalWord
    PROVE  BranchInv'
  <1>1. Plainer(code, code') /\ UNCHANGED <<state, stack, done>> /\ state = "compile" /\ InProgress
    BY LocalWordPlain DEF BranchInv, FrameInv
  <1>2. FrameInv'
    BY FrameExit, FrameDoes, FrameLocal, FrameWord DEF LocalWord, BranchInv
  <1>3. BranchesResolved' /\ DoBodiesClosed'
    <2>1. done'.code = <<>> /\ TypeOK'
      BY <1>1, <1>2 DEF InProgress, FrameInv
    <2> QED
      BY <2>1 DEF BranchesResolved, DoBodiesClosed, Accepted
  <1>4. ASSUME ~done'.loose
        PROVE  done'.found = <<>> /\ Branchy(stack', code', Bottom(done'.how))
    <2>1. PICK b, d : b = Bottom(done.how) /\ d = code'
      OBVIOUS
    <2>2. done.found = <<>> /\ Branchy(stack, code, b)
      BY <1>1, <1>4, <2>1 DEF BranchInv
    <2>3. Branchy(stack, d, b)
      BY <1>1, <2>1, <2>2, PlainerRight
    <2> QED
      BY <1>1, <2>1, <2>2, <2>3
  <1> QED
    BY <1>1, <1>2, <1>3, <1>4 DEF BranchInv

\* :, lambda: and :noname begin with the invariant.
LEMMA BranchBegin ==
    ASSUME BranchInv, ~wild, (\E h \in {"colon", "lambda"} : Colon(h, <<>>)) \/ NoName(<<>>)
    PROVE  BranchInv'
  <1>0. DoneType /\ FrameInv
    BY DEF BranchInv, FrameInv
  <1>1. FrameInv' /\ DoneType
    <2>1. ASSUME NEW h \in {"colon", "lambda"}, Colon(h, <<>>)
          PROVE  FrameInv'
      BY <1>0, <2>1, FrameColon
    <2>2. CASE NoName(<<>>)
      BY <1>0, <2>2, FrameNoName
    <2> QED
      BY <1>0, <2>1, <2>2
  <1>2. PICK how \in {"colon", "lambda", "noname"}, c \in Seq(Instruction) :
          /\ done'.code = <<>> /\ done'.how = how /\ done'.found = <<>>
          /\ BottomCells(stack', Bottom(how)) /\ code' = c /\ Plainer(<<>>, c)
    <2>1. ASSUME NEW how \in {"colon", "lambda"}, Colon(how, <<>>)
          PROVE  \E c \in Seq(Instruction) :
                    /\ done'.code = <<>> /\ done'.how = how /\ done'.found = <<>>
                    /\ BottomCells(stack', Bottom(how)) /\ code' = c /\ Plainer(<<>>, c)
      <3>1. PICK b \in BOOLEAN : b = (locals = <<>> /\ (how = "noname" => localsCount = 0))
        OBVIOUS
      <3>2. done' = [None EXCEPT !.how = how, !.found = <<>>, !.clean = b]
        BY <2>1, <3>1 DEF Colon, Begin
      <3>3. done'.code = <<>> /\ done'.how = how /\ done'.found = <<>>
        BY <1>1, <3>2, DoneBegins
      <3>4. BottomCells(stack', Bottom(how))
        BY <2>1, ColonStack DEF BottomCells, Bottom
      <3>5. PICK z, c : z = <<>> /\ c = LocalParen(z, 0, 0) /\ c = code'
        BY <2>1 DEF Colon, ficl_init_locals
      <3>6. Plainer(z, c)
        <4>1. z \in Seq(Instruction) /\ 0 \in 0..Len(z)
          BY <3>5
        <4> QED
          BY <3>5, <4>1, PlainParen
      <3>7. c \in Seq(Instruction)
        BY <3>6 DEF Plainer, Kept
      <3> QED
        BY <3>3, <3>4, <3>5, <3>6, <3>7
    <2>2. CASE NoName(<<>>)
      <3>1. PICK how : how = "noname"
        OBVIOUS
      <3>2. PICK b \in BOOLEAN : b = (locals = <<>> /\ (how = "noname" => localsCount = 0))
        OBVIOUS
      <3>3. done' = [None EXCEPT !.how = how, !.found = <<>>, !.clean = b]
        BY <2>2, <3>1, <3>2 DEF NoName, Begin
      <3>4. done'.code = <<>> /\ done'.how = how /\ done'.found = <<>>
        BY <1>1, <3>1, <3>3, DoneBegins
      <3>5. BottomCells(stack', Bottom(how))
        <4>1. stack' = <<>> \o <<Xt, Tag("colon")>>
          BY <2>2 DEF NoName
        <4>2. PICK o : o = <<Xt, Tag("colon")>>
          OBVIOUS
        <4>3. o \in Seq(Cell)
          BY <4>2, CellsPushed
        <4>4. stack' = o
          BY <4>1, <4>2, <4>3
        <4> QED
          BY <3>1, <4>2, <4>4 DEF BottomCells, Bottom
      <3>6. PICK z : z = <<>> /\ z = code'
        BY <2>2 DEF NoName
      <3>7. z \in Seq(Instruction) /\ Plainer(z, z)
        BY <3>6 DEF Plainer, Kept
      <3> QED
        BY <3>1, <3>4, <3>5, <3>6, <3>7
    <2> QED
      BY <2>1, <2>2
  <1>3. Branchy(stack', c, Bottom(how))
    <2>1. PICK s, b, z : s = stack' /\ b = Bottom(how) /\ z = <<>>
      OBVIOUS
    <2>2. Branchy(s, z, b)
      BY <1>2, <2>1, FirstBranches
    <2>3. Plainer(z, c)
      BY <1>2, <2>1
    <2>4. Branchy(s, c, b)
      BY <2>2, <2>3, PlainerRight
    <2> QED
      BY <2>1, <2>4
  <1>4. BranchesResolved' /\ DoBodiesClosed'
    <2>1. TypeOK'
      BY <1>1 DEF FrameInv
    <2> QED
      BY <1>2, <2>1 DEF BranchesResolved, DoBodiesClosed, Accepted
  <1> QED
    BY <1>1, <1>2, <1>3, <1>4 DEF BranchInv

\* A ; accepts a definition whose branches are all right, and leaves the stack as it was.
LEMMA BranchSemicolon ==
    ASSUME BranchInv, ~wild, Semicolon
    PROVE  BranchInv'
  <1>1. FrameInv' /\ TypeOK' /\ InProgress /\ TypeOK /\ DoneType /\ state = "compile" /\ state' = "interpret"
    <2>1. FrameInv'
      BY FrameSemicolon DEF BranchInv
    <2> QED
      BY <2>1 DEF BranchInv, FrameInv, Semicolon
  <1>2. code \in Seq(Instruction)
    BY <1>1 DEF TypeOK, Code, Instruction
  <1>3. PICK d, left : d = Leaving(code, localsCount, "semi") /\ left = Below(1)
    OBVIOUS
  <1>4. Plainer(code, d) /\ d \in Seq(Instruction) /\ Len(code) < Len(d)
    BY <1>2, <1>3, PlainLeaving, LeavingKeeps
  <1>5. done' = [done EXCEPT !.code = d, !.left = left]
    BY <1>3 DEF Semicolon, Leaving, Unlink
  <1>6. done'.code = d /\ done'.left = left /\ done'.loose = done.loose /\ done'.how = done.how /\ done'.found = done.found
    BY <1>1, <1>5 DEF DoneType
  <1>7. ASSUME ~done.loose
        PROVE  /\ \A i \in DOMAIN d : IsBranch(d, i) => GoesRight(d, i)
               /\ \A x \in DOMAIN d : d[x].op = "do" =>
                    \A i \in DOMAIN d \ {x} :
                        IsBranch(d, i) => (i \in (x + 1)..(d[x].to - 1) <=> d[i].to \in (x + 1)..(d[x].to - 1))
               /\ left = done.found \o (IF done.how = "colon" THEN <<>> ELSE <<Xt>>)
    <2>1. PICK b : b = Bottom(done.how)
      OBVIOUS
    <2>2. done.found = <<>> /\ Branchy(stack, code, b)
      BY <1>1, <1>7, <2>1 DEF BranchInv
    <2>3. Waiting(code) = {} /\ left = IF b = 1 THEN <<>> ELSE <<Xt>>
      BY <1>3, <2>2, LastBranches DEF Semicolon, SemicolonTag
    <2>4. CodeRight(code)
      BY <2>2 DEF Branchy
    <2>5. left = done.found \o (IF done.how = "colon" THEN <<>> ELSE <<Xt>>)
      <3>1. <<>> \o <<>> = <<>>
        OBVIOUS
      <3>2. <<>> \o <<Xt>> = <<Xt>>
        <4>1. PICK o : o = <<Xt>> /\ o \in Seq(Cell)
          <5>1. PICK x \in Cell : x = Xt
            BY CellsPushed
          <5>2. PICK o : o = <<x>>
            OBVIOUS
          <5>3. o \in Seq(Cell)
            BY <5>2
          <5> QED
            BY <5>1, <5>2, <5>3
        <4>2. <<>> \o o = o
          BY <4>1
        <4> QED
          BY <4>1, <4>2
      <3>3. CASE done.how = "colon"
        <4>1. b = 1
          BY <2>1, <3>3 DEF Bottom
        <4> QED
          BY <2>2, <2>3, <3>1, <3>3, <4>1
      <3>4. CASE done.how # "colon"
        <4>1. b = 2
          BY <2>1, <3>4 DEF Bottom
        <4> QED
          BY <2>2, <2>3, <3>2, <3>4, <4>1
      <3> QED
        BY <3>3, <3>4
    <2> QED
      BY <1>2, <1>4, <2>3, <2>4, <2>5, AllResolved
  <1>8. BranchesResolved'
    <2>1. done'.code # <<>> /\ ~done'.loose =>
            /\ \A i \in DOMAIN done'.code : IsBranch(done'.code, i) => GoesRight(done'.code, i)
            /\ done'.left = done'.found \o (IF done'.how = "colon" THEN <<>> ELSE <<Xt>>)
      BY <1>6, <1>7
    <2> QED
      BY <1>1, <2>1 DEF BranchesResolved, Accepted
  <1>9. DoBodiesClosed'
    <2>1. done'.code # <<>> /\ ~done'.loose =>
            \A x \in DOMAIN done'.code : done'.code[x].op = "do" =>
               \A i \in DOMAIN done'.code \ {x} :
                  IsBranch(done'.code, i) =>
                     (i \in (x + 1)..(done'.code[x].to - 1) <=> done'.code[i].to \in (x + 1)..(done'.code[x].to - 1))
      BY <1>6, <1>7
    <2> QED
      BY <2>1 DEF DoBodiesClosed, Accepted
  <1> QED
    BY <1>1, <1>8, <1>9 DEF BranchInv

\* An error gives the definition up.
LEMMA BranchError ==
    ASSUME BranchInv, ~wild, NEW at, Error(at)
    PROVE  BranchInv'
  <1>1. FrameInv' /\ TypeOK'
    BY FrameError DEF BranchInv, FrameInv
  <1>2. done'.code = <<>> /\ state' = "interpret"
    BY NoneIs DEF Error
  <1> QED
    BY <1>1, <1>2 DEF BranchInv, BranchesResolved, DoBodiesClosed, Accepted

\* The compiler begins with nothing defined.
LEMMA BranchInit ==
    ASSUME Init
    PROVE  BranchInv
  <1>1. done.code = <<>> /\ state = "interpret"
    BY NoneIs DEF Init
  <1>2. FrameInv /\ TypeOK
    BY FrameInit DEF FrameInv
  <1> QED
    BY <1>1, <1>2, NothingAccepted DEF BranchInv

\* No step changes the invariant that sees none of its variables change.
LEMMA BranchStutter ==
    ASSUME BranchInv, UNCHANGED vars
    PROVE  BranchInv'
  <1>1. UNCHANGED <<state, opened, code, stack, localsCount, locals, localsFixup, wild, done>>
    BY DEF vars
  <1>2. FrameInv' /\ TypeOK'
    BY FrameStutter DEF BranchInv, FrameInv
  <1>3. BranchesResolved' /\ DoBodiesClosed'
    BY <1>1, <1>2 DEF BranchInv, BranchesResolved, DoBodiesClosed, Accepted
  <1> QED
    BY <1>1, <1>2, <1>3 DEF BranchInv

\* Every word, and every error, keeps the invariant.
LEMMA BranchStep ==
    ASSUME BranchInv, [Next]_vars
    PROVE  BranchInv'
  <1>1. CASE UNCHANGED vars
    BY <1>1, BranchStutter
  <1>2. CASE Next
    <2>1. ~wild /\ Step
      BY <1>2 DEF Next
    <2>2. CASE Colon("colon", <<>>) \/ Colon("lambda", <<>>) \/ NoName(<<>>)
      BY <2>1, <2>2, BranchBegin
    <2>3. CASE Semicolon
      BY <2>1, <2>3, BranchSemicolon
    <2>4. CASE \E at \in {"compile", "interpret"} : Error(at)
      BY <2>1, <2>4, BranchError
    <2>5. CASE StructureWord
      BY <2>1, <2>5, BranchStructure
    <2>6. CASE LocalWord
      BY <2>1, <2>6, BranchLocal
    <2> QED
      BY <2>1, <2>2, <2>3, <2>4, <2>5, <2>6 DEF Step, StructureWord, LocalWord
  <1> QED
    BY <1>1, <1>2

-----------------------------------------------------------------------------

\* The compiler keeps the types of its variables and, while it defines a word, the groups of cells on
\* the stack and the frame of the locals as InProgress says (ficl/primitives.c, src/proc.c).
THEOREM FrameInvariant == Spec => []FrameInv
  <1>1. Init => FrameInv
    BY FrameInit
  <1>2. FrameInv /\ [Next]_vars => FrameInv'
    BY FrameStep
  <1> QED
    BY <1>1, <1>2, PTL DEF Spec

\* A behaviour of the two halves is one of the compiler: what the dictionary does leaves it alone.
LEMMA HasBody == ForthSpec => Spec
  <1>1. ForthInit => Init
    BY DEF ForthInit
  <1>2. [ForthNext]_<<vars, dict, kind>> => [Next]_vars
    BY DEF ForthNext
  <1> QED
    BY <1>1, <1>2, PTL DEF ForthSpec, Spec

\* Type correctness: every address on the stack is one of the definition's, or the one it ends at.
THEOREM CompilerTypes == ForthSpec => []TypeOK
  <1>1. FrameInv => TypeOK
    BY DEF FrameInv
  <1> QED
    BY <1>1, HasBody, FrameInvariant, PTL

\* A definition that begins with no locals left over unlinks its frame wherever it is left, if and only
\* if it has linked one, and uses no local outside of it (ficl_locals and the words that end a definition).
THEOREM FramesAreMatched == ForthSpec => []FramesMatch
  <1>1. FrameInv => FramesMatch
    BY DEF FrameInv
  <1> QED
    BY <1>1, HasBody, FrameInvariant, PTL

\* The invariant of the branches and the cells of open structures (ficl/primitives.c).
THEOREM BranchInvariant == Spec => []BranchInv
  <1>1. Init => BranchInv
    BY BranchInit
  <1>2. BranchInv /\ [Next]_vars => BranchInv'
    BY BranchStep
  <1> QED
    BY <1>1, <1>2, PTL DEF Spec

\* Whatever order the structure words come in, a definition that ; accepts has every branch patched, each
\* to the place its structure gives it, and leaves the stack as it was (matchControlTag and
\* resolveForwardBranch, ficl/primitives.c), unless a while stood outside of begin.
THEOREM BranchesAreResolved == ForthSpec => []BranchesResolved
  <1>1. BranchInv => BranchesResolved
    BY DEF BranchInv
  <1> QED
    BY <1>1, HasBody, BranchInvariant, PTL

\* No branch of such a definition leads into the body of a do loop or out of it (do, loop and +loop).
THEOREM BodiesAreClosed == ForthSpec => []DoBodiesClosed
  <1>1. BranchInv => DoBodiesClosed
    BY DEF BranchInv
  <1> QED
    BY <1>1, HasBody, BranchInvariant, PTL

-----------------------------------------------------------------------------
(* Numbers. *)

\* Induction, for a set of naturals.
LEMMA Upward ==
    ASSUME NEW P \in SUBSET Nat, 0 \in P, \A n \in P : n + 1 \in P
    PROVE  P = Nat
  <1> SUFFICES ASSUME Nat \ P # {} PROVE FALSE
    OBVIOUS
  <1>1. PICK k \in Nat \ P : \A j \in Nat \ P : k <= j
    BY Least
  <1>2. k # 0 /\ k - 1 \in Nat
    BY <1>1
  <1>3. k - 1 \in P
    BY <1>1, <1>2
  <1>4. (k - 1) + 1 \in P
    BY <1>3
  <1> QED
    BY <1>1, <1>2, <1>4

-----------------------------------------------------------------------------
(* Chains, in any memory. *)

\* The walk along the links from a, n steps far.
Steps(ws, a, n, f) ==
    f = [k \in 0..n |-> IF k = 0 THEN a ELSE IF f[k - 1] = 0 THEN 0 ELSE ws[f[k - 1]].link]
Walk(ws, a) == CHOOSE f : Steps(ws, a, MaxMem, f)
Chain(ws, a) == {Walk(ws, a)[k] : k \in 0..MaxMem} \ {0}
\* Links go down.
Down(ws, a) == \A x \in Chain(ws, a) : ws[x].link \in Nat /\ ws[x].link < x

\* ChainFrom is the chain in the memory there is.
LEMMA ChainFromIs ==
    ASSUME NEW a
    PROVE  D!ChainFrom(a) = Chain(word, a)
  BY DEF D!ChainFrom, Chain, Walk, Steps

\* The recursion in ChainFrom has a solution.
LEMMA WalkIs ==
    ASSUME NEW ws, NEW a
    PROVE  /\ Walk(ws, a)[0] = a
           /\ \A k \in 1..MaxMem : Walk(ws, a)[k] =
                 IF Walk(ws, a)[k - 1] = 0 THEN 0 ELSE ws[Walk(ws, a)[k - 1]].link
  <1> DEFINE P == {n \in Nat : \E f : Steps(ws, a, n, f)}
  <1>1. 0 \in P
    <2> DEFINE f == [k \in 0..0 |-> a]
    <2>1. Steps(ws, a, 0, f)
      BY DEF Steps
    <2> QED
      BY <2>1
  <1>2. ASSUME NEW n \in P PROVE n + 1 \in P
    <2>1. PICK f : Steps(ws, a, n, f)
      BY <1>2
    <2> DEFINE g == [k \in 0..(n + 1) |-> IF k = n + 1 THEN IF f[n] = 0 THEN 0 ELSE ws[f[n]].link ELSE f[k]]
    <2>2. n \in Nat
      OBVIOUS
    <2>3. \A k \in 0..n : f[k] = IF k = 0 THEN a ELSE IF f[k - 1] = 0 THEN 0 ELSE ws[f[k - 1]].link
      BY <2>1 DEF Steps
    <2>4. ASSUME NEW k \in 0..(n + 1)
          PROVE  g[k] = IF k = 0 THEN a ELSE IF g[k - 1] = 0 THEN 0 ELSE ws[g[k - 1]].link
      <3>1. CASE k = n + 1
        <4>1. k # 0 /\ k - 1 = n /\ n \in 0..(n + 1) /\ n # n + 1
          BY <2>2, <3>1
        <4> QED
          BY <3>1, <4>1
      <3>2. CASE k # n + 1 /\ k # 0
        <4>1. k \in 0..n /\ k - 1 \in 0..(n + 1) /\ k - 1 # n + 1
          BY <2>2, <3>2
        <4> QED
          BY <2>3, <3>2, <4>1
      <3>3. CASE k # n + 1 /\ k = 0
        BY <2>2, <2>3, <3>3
      <3> QED
        BY <3>1, <3>2, <3>3
    <2>5. g = [k \in 0..(n + 1) |-> g[k]]
      OBVIOUS
    <2> HIDE DEF g
    <2>6. Steps(ws, a, n + 1, g)
      BY <2>4, <2>5 DEF Steps
    <2> QED
      BY <2>2, <2>6
  <1>3. MaxMem \in P
    <2> HIDE DEF P
    <2>1. P \in SUBSET Nat
      BY DEF P
    <2> QED
      BY <1>1, <1>2, <2>1, Upward, DictAssumption
  <1>4. \E f : Steps(ws, a, MaxMem, f)
    BY <1>3
  <1>5. Steps(ws, a, MaxMem, Walk(ws, a))
    BY <1>4 DEF Walk
  <1> DEFINE f == Walk(ws, a)
  <1>6. \A k \in 0..MaxMem : f[k] = IF k = 0 THEN a ELSE IF f[k - 1] = 0 THEN 0 ELSE ws[f[k - 1]].link
    BY <1>5 DEF Steps
  <1> HIDE DEF f
  <1>7. 0 \in 0..MaxMem /\ \A k \in 1..MaxMem : k \in 0..MaxMem /\ k # 0
    BY DictAssumption
  <1> QED
    BY <1>6, <1>7 DEF f

\* A chain is in each set that has its first word and, with a word, the next one.
LEMMA ChainLeast ==
    ASSUME NEW ws, NEW a, NEW S, a # 0 => a \in S,
           \A x \in S : ws[x].link # 0 => ws[x].link \in S
    PROVE  Chain(ws, a) \subseteq S
  <1> DEFINE f == Walk(ws, a)
             P == {n \in Nat : n <= MaxMem => f[n] = 0 \/ f[n] \in S}
  <1>1. /\ f[0] = a
        /\ \A k \in 1..MaxMem : f[k] = IF f[k - 1] = 0 THEN 0 ELSE ws[f[k - 1]].link
    BY WalkIs
  <1> HIDE DEF f
  <1>2. 0 \in P
    BY <1>1
  <1>3. ASSUME NEW n \in P PROVE n + 1 \in P
    <2>1. n \in Nat /\ n + 1 \in Nat /\ (n + 1 <= MaxMem => n <= MaxMem /\ n + 1 \in 1..MaxMem /\ (n + 1) - 1 = n)
      BY DictAssumption
    <2>2. ASSUME n + 1 <= MaxMem PROVE f[n + 1] = 0 \/ f[n + 1] \in S
      <3>1. f[n] = 0 \/ f[n] \in S
        BY <1>3, <2>1, <2>2
      <3>2. f[n + 1] = IF f[n] = 0 THEN 0 ELSE ws[f[n]].link
        BY <1>1, <2>1, <2>2
      <3> QED
        BY <3>1, <3>2
    <2> QED
      BY <2>1, <2>2
  <1>4. P = Nat
    <2>1. P \in SUBSET Nat
      OBVIOUS
    <2> HIDE DEF P
    <2> QED
      BY <1>2, <1>3, <2>1, Upward
  <1>5. \A k \in 0..MaxMem : f[k] = 0 \/ f[k] \in S
    BY <1>4
  <1> QED
    BY <1>5 DEF Chain, f

\* It has them itself, when links go down: memory is long enough to reach its end.
LEMMA ChainClosed ==
    ASSUME NEW ws, NEW a \in 0..MaxMem, Down(ws, a)
    PROVE  /\ a = 0 => Chain(ws, a) = {}
           /\ a # 0 => a \in Chain(ws, a)
           /\ \A x \in Chain(ws, a) : ws[x].link # 0 => ws[x].link \in Chain(ws, a)
           /\ \A x \in Chain(ws, a) : x \in 1..a
  <1> DEFINE f == Walk(ws, a)
             P == {n \in Nat : n <= MaxMem => f[n] = 0 \/ (f[n] \in 1..a /\ f[n] <= a - n)}
  <1>1. /\ f[0] = a
        /\ \A k \in 1..MaxMem : f[k] = IF f[k - 1] = 0 THEN 0 ELSE ws[f[k - 1]].link
    BY WalkIs
  <1>2. Chain(ws, a) = {f[k] : k \in 0..MaxMem} \ {0}
    BY DEF Chain
  <1> HIDE DEF f
  <1>3. MaxMem \in Nat /\ a \in Nat /\ a <= MaxMem
    BY DictAssumption
  <1>4. 0 \in P
    BY <1>1, <1>3
  <1>5. ASSUME NEW n \in P PROVE n + 1 \in P
    <2>1. n \in Nat /\ n + 1 \in Nat
      OBVIOUS
    <2>2. ASSUME n + 1 <= MaxMem PROVE f[n + 1] = 0 \/ (f[n + 1] \in 1..a /\ f[n + 1] <= a - (n + 1))
      <3>1. n <= MaxMem /\ n \in 0..MaxMem /\ n + 1 \in 1..MaxMem /\ (n + 1) - 1 = n
        BY <1>3, <2>1, <2>2
      <3>2. f[n + 1] = IF f[n] = 0 THEN 0 ELSE ws[f[n]].link
        BY <1>1, <3>1
      <3>3. CASE f[n] # 0
        <4>1. f[n] \in Chain(ws, a) /\ f[n] \in 1..a /\ f[n] <= a - n
          BY <1>2, <1>5, <3>1, <3>3
        <4>2. ws[f[n]].link \in Nat /\ ws[f[n]].link < f[n] /\ f[n + 1] = ws[f[n]].link
          BY <3>2, <3>3, <4>1 DEF Down
        <4> QED
          BY <1>3, <2>1, <4>1, <4>2
      <3> QED
        BY <3>2, <3>3
    <2> QED
      BY <2>1, <2>2
  <1>6. P = Nat
    <2>1. P \in SUBSET Nat
      OBVIOUS
    <2> HIDE DEF P
    <2> QED
      BY <1>4, <1>5, <2>1, Upward
  <1>7. \A k \in 0..MaxMem : f[k] = 0 \/ (f[k] \in 1..a /\ f[k] <= a - k)
    BY <1>3, <1>6
  <1>8. f[MaxMem] = 0
    BY <1>3, <1>7
  <1>9. \A x \in Chain(ws, a) : x \in 1..a
    BY <1>2, <1>7
  <1>10. a = 0 => Chain(ws, a) = {}
    BY <1>9
  <1>11. a # 0 => a \in Chain(ws, a)
    BY <1>1, <1>2, <1>3
  <1>12. ASSUME NEW x \in Chain(ws, a), ws[x].link # 0 PROVE ws[x].link \in Chain(ws, a)
    <2>1. PICK k \in 0..MaxMem : x = f[k] /\ f[k] # 0
      BY <1>2
    <2>2. k + 1 \in 1..MaxMem /\ k + 1 \in 0..MaxMem /\ (k + 1) - 1 = k
      BY <1>3, <1>8, <2>1
    <2>3. f[k + 1] = ws[x].link
      BY <1>1, <2>1, <2>2
    <2> QED
      BY <1>2, <1>12, <2>2, <2>3
  <1> QED
    BY <1>9, <1>10, <1>11, <1>12


\* Two memories with the same links along a chain have the same chain.
LEMMA ChainAgree ==
    ASSUME NEW ws, NEW vs, NEW a \in 0..MaxMem, Down(ws, a),
           \A x \in Chain(ws, a) : vs[x].link = ws[x].link
    PROVE  Chain(vs, a) = Chain(ws, a) /\ Down(vs, a)
  <1>1. Chain(vs, a) \subseteq Chain(ws, a)
    <2>1. \A x \in Chain(ws, a) : vs[x].link # 0 => vs[x].link \in Chain(ws, a)
      BY ChainClosed
    <2>2. a # 0 => a \in Chain(ws, a)
      BY ChainClosed
    <2> QED
      BY <2>1, <2>2, ChainLeast
  <1>2. Down(vs, a)
    BY <1>1 DEF Down
  <1>3. Chain(ws, a) \subseteq Chain(ws, a) \cap Chain(vs, a)
    <2> DEFINE S == Chain(ws, a) \cap Chain(vs, a)
    <2>1. a # 0 => a \in S
      BY <1>2, ChainClosed
    <2>2. \A x \in S : ws[x].link # 0 => ws[x].link \in S
      <3>1. \A x \in Chain(vs, a) : vs[x].link # 0 => vs[x].link \in Chain(vs, a)
        BY <1>2, ChainClosed
      <3>2. \A x \in Chain(ws, a) : ws[x].link # 0 => ws[x].link \in Chain(ws, a)
        BY ChainClosed
      <3> QED
        BY <3>1, <3>2
    <2> HIDE DEF S
    <2>3. Chain(ws, a) \subseteq S
      BY <2>1, <2>2, ChainLeast
    <2> QED
      BY <2>3 DEF S
  <1> QED
    BY <1>1, <1>2, <1>3

\* A word before a chain.
LEMMA ChainCons ==
    ASSUME NEW ws, NEW a \in 1..MaxMem, ws[a].link \in 0..MaxMem, ws[a].link < a, Down(ws, ws[a].link)
    PROVE  Chain(ws, a) = {a} \cup Chain(ws, ws[a].link) /\ Down(ws, a)
  <1> DEFINE b == ws[a].link
             S == {a} \cup Chain(ws, b)
  <1>1. b # 0 => b \in Chain(ws, b)
    BY ChainClosed
  <1>2. \A x \in Chain(ws, b) : ws[x].link # 0 => ws[x].link \in Chain(ws, b)
    BY ChainClosed
  <1>3. Chain(ws, a) \subseteq S
    <2>1. a \in S /\ \A x \in S : ws[x].link # 0 => ws[x].link \in S
      BY <1>1, <1>2
    <2> HIDE DEF S
    <2> QED
      BY <2>1, ChainLeast
  <1>4. Down(ws, a)
    <2>1. \A x \in Chain(ws, b) : ws[x].link \in Nat /\ ws[x].link < x
      BY DEF Down
    <2>2. b \in Nat /\ b < a
      OBVIOUS
    <2>3. \A x \in Chain(ws, a) : ws[x].link \in Nat /\ ws[x].link < x
      BY <1>3, <2>1, <2>2
    <2> QED
      BY <2>3 DEF Down
  <1>5. a \in 0..MaxMem /\ a # 0
    OBVIOUS
  <1>6. a \in Chain(ws, a) /\ \A x \in Chain(ws, a) : ws[x].link # 0 => ws[x].link \in Chain(ws, a)
    BY <1>4, <1>5, ChainClosed
  <1>7. Chain(ws, b) \subseteq Chain(ws, a)
    <2>1. b # 0 => b \in Chain(ws, a)
      BY <1>6
    <2> QED
      BY <1>6, <2>1, ChainLeast
  <1> QED
    BY <1>3, <1>4, <1>6, <1>7

\* The chain from a word of a chain on is part of it.
LEMMA ChainRest ==
    ASSUME NEW ws, NEW a \in 0..MaxMem, Down(ws, a), NEW m \in Chain(ws, a)
    PROVE  Chain(ws, m) \subseteq Chain(ws, a) /\ Down(ws, m) /\ m \in 1..MaxMem
  <1>1. m \in 1..a /\ \A x \in Chain(ws, a) : ws[x].link # 0 => ws[x].link \in Chain(ws, a)
    BY ChainClosed
  <1>2. Chain(ws, m) \subseteq Chain(ws, a)
    BY <1>1, ChainLeast
  <1>3. m \in 1..MaxMem
    BY <1>1, DictAssumption
  <1> QED
    BY <1>2, <1>3 DEF Down

\* The words of a chain below an address are the chain from the last of them on.
LEMMA ChainCut ==
    ASSUME NEW ws, NEW a \in 0..MaxMem, Down(ws, a), NEW n \in Nat,
           NEW m \in Chain(ws, a), m < n, \A x \in Chain(ws, a) : x < n => x <= m
    PROVE  Chain(ws, m) = {x \in Chain(ws, a) : x < n}
  <1>1. Chain(ws, m) \subseteq Chain(ws, a) /\ Down(ws, m) /\ m \in 1..MaxMem /\ m \in 0..MaxMem
    BY ChainRest, DictAssumption
  <1>2. /\ m \in Chain(ws, m) /\ \A x \in Chain(ws, m) : x \in 1..m
        /\ \A x \in Chain(ws, m) : ws[x].link # 0 => ws[x].link \in Chain(ws, m)
    BY <1>1, ChainClosed
  <1>3. \A x \in Chain(ws, m) : x < n
    BY <1>1, <1>2
  <1> DEFINE S == {x \in Chain(ws, a) : m \in Chain(ws, x) \/ x \in Chain(ws, m)}
  <1>4. a # 0 => a \in S
    BY ChainClosed
  <1>5. ASSUME NEW x \in S, ws[x].link # 0 PROVE ws[x].link \in S
    <2>1. /\ x \in Chain(ws, a) /\ x \in 1..MaxMem /\ Down(ws, x) /\ Chain(ws, x) \subseteq Chain(ws, a)
          /\ ws[x].link \in Chain(ws, a)
      BY <1>5, ChainRest, ChainClosed
    <2>2. ws[x].link \in Nat /\ ws[x].link < x /\ ws[x].link \in 0..MaxMem /\ Down(ws, ws[x].link)
      BY <2>1, ChainRest, DictAssumption DEF Down
    <2>3. Chain(ws, x) = {x} \cup Chain(ws, ws[x].link)
      BY <2>1, <2>2, ChainCons
    <2>4. CASE x \in Chain(ws, m)
      BY <1>2, <1>5, <2>1, <2>4
    <2>5. CASE m \in Chain(ws, x)
      <3>1. m = x \/ m \in Chain(ws, ws[x].link)
        BY <2>3, <2>5
      <3> QED
        BY <1>2, <1>5, <2>1, <2>4, <3>1
    <2> QED
      BY <1>5, <2>4, <2>5
  <1>6. Chain(ws, a) \subseteq S
    <2> HIDE DEF S
    <2> QED
      BY <1>4, <1>5, ChainLeast
  <1>7. ASSUME NEW x \in Chain(ws, a), x < n PROVE x \in Chain(ws, m)
    <2>1. x <= m /\ x \in Nat
      BY <1>7, ChainClosed
    <2>2. CASE m \in Chain(ws, x)
      <3>1. x \in 0..MaxMem /\ Down(ws, x)
        BY ChainRest, DictAssumption
      <3>2. m \in 1..x
        BY <2>2, <3>1, ChainClosed
      <3>3. m = x
        BY <2>1, <3>2
      <3> QED
        BY <1>2, <3>3
    <2> QED
      BY <1>6, <2>2
  <1> QED
    BY <1>1, <1>3, <1>7

-----------------------------------------------------------------------------
(* The words of a list, and the inductive invariant. *)

Words(w) == UNION {Chain(word, lists[w].table[b]) : b \in Bucket}
Linked == UNION {Words(w) : w \in DOMAIN lists}

\* What list W has in bucket B: complete words of that bucket, behind the list's own
\* address or defined while the list was made, and none newer than smudge.
ChainSound(w, b) ==
    /\ Down(word, lists[w].table[b])
    /\ \A a \in Chain(word, lists[w].table[b]) :
          /\ a < here_ /\ a <= smudge
          /\ ~word[a].smudged
          /\ word[a].name \in Name /\ BucketOf[word[a].name] = b

\* Word lists, the search order and inheritance name lists that are there.
ListsSound ==
    /\ Forth \in DOMAIN lists /\ lists[Forth].at = 0
    /\ current \in DOMAIN lists
    /\ \A i \in DOMAIN order : order[i] \in DOMAIN lists
    /\ \A w \in DOMAIN lists : lists[w].at < here_ /\ lists[w].parent \in DOMAIN lists \cup {NoWid}

\* No word is between a list and a word of it that is older than the list.
ListsBetween ==
    \A w \in DOMAIN lists : \A a \in Words(w), x \in Linked : a < x => lists[w].at < x

\* The definition in progress is hidden; lists made inside of it are empty as long as it is smudge.
DictInProgress ==
    mode = "compile" =>
        /\ begun \in 1..(here_ - 1) /\ smudge \in begun..(here_ - 1)
        /\ word[begun].smudged
        /\ smudge = begun => \A w \in DOMAIN lists : lists[w].at # begun /\ (lists[w].at > begun => Words(w) = {})

Sound ==
    /\ \A w \in DOMAIN lists, b \in Bucket : ChainSound(w, b)
    /\ ListsSound /\ ListsBetween /\ DictInProgress
    /\ created # 0 => smudge # 0

DictInv == D!TypeOK /\ (broken = "no" => Sound)


\* The words of the abstract dictionary: those of the refinement.
Defs == UNION {{[at |-> a, name |-> word[a].name, wid |-> w] : a \in Words(w)} : w \in DOMAIN lists}

-----------------------------------------------------------------------------
(* What the abstract dictionary is. *)

\* A step that changes no word is one on word lists and the search order.
LEMMA ArrangeIs ==
    ASSUME Defs' = Defs
    PROVE  D!Names!Arrange
  BY DEF D!Names!Arrange, Defs, Words, D!ChainFrom, Chain, Walk, Steps

\* One more word is a definition, one that is newer than all others.
LEMMA DefineIs ==
    ASSUME NEW a, NEW n, Defs' = Defs \cup {[at |-> a, name |-> n, wid |-> current]},
           \A x \in Linked : x < a,
           UNCHANGED order,
           [w \in Wid |-> IF w \in DOMAIN lists THEN lists[w].parent ELSE NoWid]'
                = [w \in Wid |-> IF w \in DOMAIN lists THEN lists[w].parent ELSE NoWid]
    PROVE  D!Names!Next
  <1>1. PICK d : d = [at |-> a, name |-> n, wid |-> current]
    OBVIOUS
  <1>2. \A e \in Defs : e.at < d.at
    BY <1>1 DEF Defs, Linked
  <1>3. d \in Defs' /\ Defs' = Defs \cup {d}
    BY <1>1
  <1>4. D!Names!Define(d)
    BY <1>2, <1>3 DEF D!Names!Define, Defs, Words, D!ChainFrom, Chain, Walk, Steps
  <1>5. d \in (UNION {{[at |-> x, name |-> word[x].name, wid |-> w] :
                      x \in UNION {D!ChainFrom(lists[w].table[b]) : b \in Bucket}} : w \in DOMAIN lists})'
    BY <1>3 DEF Defs, Words, D!ChainFrom, Chain, Walk, Steps
  <1> QED
    BY <1>4, <1>5, Zenon DEF D!Names!Next

\* Fewer are a forget.
LEMMA ForgetIs ==
    ASSUME NEW n \in Name, D!Names!Meaning(n) # 0, Defs' = {d \in Defs : d.at < D!Names!Meaning(n)}, UNCHANGED order
    PROVE  D!Names!Next
  <1>1. D!Names!Forget(n)
    BY DEF D!Names!Forget, Defs, Words, D!ChainFrom, Chain, Walk, Steps
  <1> QED
    BY <1>1 DEF D!Names!Next


-----------------------------------------------------------------------------
(* What the steps have in common. *)

\* What the type says of words and word lists.
LEMMA TypeFacts ==
    ASSUME D!TypeOK
    PROVE  /\ here_ \in 1..(MaxMem + 1) /\ smudge \in 0..MaxMem /\ mode \in {"interpret", "compile"}
           /\ \A a \in D!Memory : /\ word[a].name \in Name \cup {Nameless} /\ word[a].link \in 0..MaxMem
                                  /\ word[a].smudged \in BOOLEAN /\ word[a].does \in BOOLEAN
           /\ \A w \in DOMAIN lists : /\ w \in Wid /\ lists[w].at \in 0..MaxMem
                                      /\ lists[w].parent \in Wid \cup {NoWid}
                                      /\ DOMAIN lists[w].table = Bucket
                                      /\ \A b \in Bucket : lists[w].table[b] \in 0..MaxMem
  BY DEF D!TypeOK, D!Memory

\* The words of a list are in memory, and the first of a bucket is one of them.
LEMMA WordsIn ==
    ASSUME D!TypeOK, \A w \in DOMAIN lists, b \in Bucket : ChainSound(w, b),
           NEW w \in DOMAIN lists
    PROVE  /\ \A b \in Bucket : Chain(word, lists[w].table[b]) \subseteq Words(w)
           /\ Words(w) \subseteq Linked
           /\ Words(w) \subseteq D!Memory
           /\ \A b \in Bucket : lists[w].table[b] # 0 => lists[w].table[b] \in Words(w)
           /\ \A x \in Words(w) : /\ x < here_ /\ x <= smudge /\ ~word[x].smudged
                                  /\ word[x].name \in Name /\ BucketOf[word[x].name] \in Bucket
                                  /\ x \in Chain(word, lists[w].table[BucketOf[word[x].name]])
  <1>1. \A b \in Bucket : /\ lists[w].table[b] \in 0..MaxMem
                          /\ lists[w].table[b] # 0 => lists[w].table[b] \in Chain(word, lists[w].table[b])
                          /\ \A x \in Chain(word, lists[w].table[b]) : x \in 1..lists[w].table[b]
    BY TypeFacts, ChainClosed DEF ChainSound
  <1>2. Words(w) \subseteq D!Memory
    BY <1>1, DictAssumption DEF Words, D!Memory
  <1> QED
    BY <1>1, <1>2 DEF Words, Linked, ChainSound

\* A bucket without words.
LEMMA ChainEmpty ==
    ASSUME NEW ws
    PROVE  Chain(ws, 0) = {} /\ Down(ws, 0)
  <1>1. PICK S : S = {}
    OBVIOUS
  <1>2. Chain(ws, 0) \subseteq S
    BY <1>1, ChainLeast
  <1> QED
    BY <1>1, <1>2 DEF Down

SameWord(x) == word'[x].link = word[x].link /\ word'[x].name = word[x].name /\ word'[x].smudged = word[x].smudged

\* A step that leaves the words alone that are linked, and gives new lists no words.
LEMMA QuietKeeps ==
    ASSUME D!TypeOK, \A w \in DOMAIN lists, b \in Bucket : ChainSound(w, b), ListsBetween,
           \A x \in Linked : SameWord(x) /\ x < here_' /\ x <= smudge',
           DOMAIN lists \subseteq DOMAIN lists',
           \A w \in DOMAIN lists : lists'[w].at = lists[w].at /\ lists'[w].table = lists[w].table,
           \A w \in DOMAIN lists' \ DOMAIN lists, b \in Bucket : lists'[w].table[b] = 0
    PROVE  /\ \A w \in DOMAIN lists', b \in Bucket : ChainSound(w, b)'
           /\ \A w \in DOMAIN lists : Words(w)' = Words(w)
           /\ \A w \in DOMAIN lists' \ DOMAIN lists : Words(w)' = {}
           /\ Linked' = Linked
           /\ ListsBetween'
           /\ Defs' = Defs
  <1>1. ASSUME NEW w \in DOMAIN lists, NEW b \in Bucket
        PROVE  /\ Chain(word', lists'[w].table[b]) = Chain(word, lists[w].table[b])
               /\ Down(word', lists'[w].table[b]) /\ ChainSound(w, b)'
    <2>1. /\ lists[w].table[b] \in 0..MaxMem /\ Down(word, lists[w].table[b])
          /\ lists'[w].table[b] = lists[w].table[b]
          /\ Chain(word, lists[w].table[b]) \subseteq Linked
      BY TypeFacts, WordsIn DEF ChainSound
    <2>2. \A x \in Chain(word, lists[w].table[b]) : word'[x].link = word[x].link
      BY <2>1 DEF SameWord
    <2>3. /\ Chain(word', lists'[w].table[b]) = Chain(word, lists[w].table[b])
          /\ Down(word', lists'[w].table[b])
      BY <2>1, <2>2, ChainAgree
    <2>4. \A x \in Chain(word, lists[w].table[b]) :
             /\ ~word'[x].smudged /\ word'[x].name \in Name /\ BucketOf[word'[x].name] = b
             /\ x < here_' /\ x <= smudge'
      BY <2>1 DEF ChainSound, SameWord
    <2> QED
      BY <2>3, <2>4 DEF ChainSound
  <1>2. ASSUME NEW w \in DOMAIN lists' \ DOMAIN lists, NEW b \in Bucket
        PROVE  Chain(word', lists'[w].table[b]) = {} /\ ChainSound(w, b)'
    <2>1. lists'[w].table[b] = 0
      OBVIOUS
    <2> QED
      BY <2>1, ChainEmpty DEF ChainSound
  <1>3. \A w \in DOMAIN lists', b \in Bucket : ChainSound(w, b)'
    BY <1>1, <1>2
  <1>4. \A w \in DOMAIN lists : Words(w)' = Words(w)
    BY <1>1 DEF Words
  <1>5. \A w \in DOMAIN lists' \ DOMAIN lists : Words(w)' = {}
    BY <1>2 DEF Words
  <1>6. Linked' = Linked
    BY <1>4, <1>5 DEF Linked
  <1>7. ListsBetween'
    <2> SUFFICES ASSUME NEW w \in DOMAIN lists', NEW a \in Words(w)', NEW x \in Linked', a < x
                 PROVE  lists'[w].at < x
      BY DEF ListsBetween
    <2>1. w \in DOMAIN lists
      BY <1>5
    <2> QED
      BY <1>4, <1>6, <2>1 DEF ListsBetween
  <1>8. Defs' = Defs
    <2>1. \A w \in DOMAIN lists : \A x \in Words(w) : word'[x].name = word[x].name
      BY WordsIn DEF SameWord
    <2>2. Defs' \subseteq Defs
      BY <1>4, <1>5, <2>1 DEF Defs
    <2>3. Defs \subseteq Defs'
      BY <1>4, <2>1 DEF Defs
    <2> QED
      BY <2>2, <2>3
  <1> QED
    BY <1>3, <1>4, <1>5, <1>6, <1>7, <1>8

\* ficlDictionaryUnsmudge links word A, the newest, into the compilation word list.
LEMMA LinkKeeps ==
    ASSUME D!TypeOK, \A w \in DOMAIN lists, b \in Bucket : ChainSound(w, b), ListsBetween,
           current \in DOMAIN lists,
           NEW a \in D!Memory, NEW n \in Name, NEW h, h = lists[current].table[BucketOf[n]],
           \A x \in Linked : x < a,
           \A w \in DOMAIN lists : Words(w) # {} => lists[w].at < a,
           \A x \in Linked : SameWord(x),
           word'[a].link = h, word'[a].name = n, ~word'[a].smudged,
           here_' >= here_, here_' \in Nat, a < here_', smudge' = a,
           DOMAIN lists' = DOMAIN lists,
           \A w \in DOMAIN lists : lists'[w].at = lists[w].at,
           \A w \in DOMAIN lists, b \in Bucket : lists'[w].table[b] =
                IF w = current /\ b = BucketOf[n] THEN a ELSE lists[w].table[b]
    PROVE  /\ \A w \in DOMAIN lists', b \in Bucket : ChainSound(w, b)'
           /\ ListsBetween'
           /\ Defs' = Defs \cup {[at |-> a, name |-> n, wid |-> current]}
  <1>1. /\ BucketOf[n] \in Bucket /\ h \in 0..MaxMem /\ a \in 1..MaxMem /\ h < a
        /\ Down(word, h) /\ Chain(word, h) \subseteq Linked
    BY TypeFacts, WordsIn, DictAssumption DEF D!Memory, ChainSound
  <1>2. ASSUME NEW w \in DOMAIN lists, NEW b \in Bucket
        PROVE  /\ Chain(word', lists[w].table[b]) = Chain(word, lists[w].table[b])
               /\ Down(word', lists[w].table[b])
    <2>1. /\ lists[w].table[b] \in 0..MaxMem /\ Down(word, lists[w].table[b])
          /\ Chain(word, lists[w].table[b]) \subseteq Linked
      BY TypeFacts, WordsIn DEF ChainSound
    <2>2. \A x \in Chain(word, lists[w].table[b]) : word'[x].link = word[x].link
      BY <2>1 DEF SameWord
    <2> QED
      BY <2>1, <2>2, ChainAgree
  <1>3. Chain(word', a) = {a} \cup Chain(word, h) /\ Down(word', a)
    <2>1. Chain(word', h) = Chain(word, h) /\ Down(word', h)
      BY <1>1, <1>2
    <2> QED
      BY <1>1, <2>1, ChainCons
  <1>4. \A w \in DOMAIN lists, b \in Bucket : Chain(word', lists'[w].table[b]) =
            IF w = current /\ b = BucketOf[n] THEN {a} \cup Chain(word, lists[w].table[b])
            ELSE Chain(word, lists[w].table[b])
    <2> TAKE w \in DOMAIN lists, b \in Bucket
    <2>1. CASE w = current /\ b = BucketOf[n]
      BY <1>3, <2>1
    <2>2. CASE ~(w = current /\ b = BucketOf[n])
      <3>1. lists'[w].table[b] = lists[w].table[b]
        BY <2>2
      <3> QED
        BY <1>2, <2>2, <3>1
    <2> QED
      BY <2>1, <2>2
  <1>5. ASSUME NEW w \in DOMAIN lists, NEW b \in Bucket PROVE ChainSound(w, b)'
    <2>1. Down(word', lists'[w].table[b])
      BY <1>2, <1>3
    <2>2. Chain(word, lists[w].table[b]) \subseteq Linked /\ ChainSound(w, b)
      BY WordsIn
    <2>3. \A x \in Chain(word, lists[w].table[b]) :
             /\ ~word'[x].smudged /\ word'[x].name \in Name /\ BucketOf[word'[x].name] = b
             /\ x < here_' /\ x <= smudge'
      <3> TAKE x \in Chain(word, lists[w].table[b])
      <3>1. x \in Linked /\ x < a /\ x \in Nat /\ SameWord(x)
        BY <2>2, WordsIn DEF D!Memory, Linked
      <3>2. ~word[x].smudged /\ word[x].name \in Name /\ BucketOf[word[x].name] = b
        BY <2>2 DEF ChainSound
      <3>3. x < here_' /\ x <= smudge'
        BY <1>1, <3>1
      <3> QED
        BY <3>1, <3>2, <3>3 DEF SameWord
    <2>4. a < here_' /\ a <= smudge' /\ ~word'[a].smudged /\ word'[a].name = n
      BY <1>1
    <2>5. Chain(word', lists'[w].table[b]) \subseteq {a} \cup Chain(word, lists[w].table[b])
          /\ (a \in Chain(word', lists'[w].table[b]) => a \in Chain(word, lists[w].table[b]) \/ b = BucketOf[n])
      BY <1>4
    <2> QED
      BY <2>1, <2>3, <2>4, <2>5 DEF ChainSound
  <1>6. \A w \in DOMAIN lists : Words(w)' = IF w = current THEN {a} \cup Words(w) ELSE Words(w)
    <2> TAKE w \in DOMAIN lists
    <2>1. /\ \A x : x \in Words(w)' <=> \E b \in Bucket : x \in Chain(word', lists'[w].table[b])
          /\ \A x : x \in Words(w) <=> \E b \in Bucket : x \in Chain(word, lists[w].table[b])
      BY DEF Words
    <2>2. ASSUME w = current PROVE Words(w)' = {a} \cup Words(w)
      <3>1. \A b \in Bucket : Chain(word', lists'[w].table[b]) =
               IF b = BucketOf[n] THEN {a} \cup Chain(word, lists[w].table[b]) ELSE Chain(word, lists[w].table[b])
        BY <1>4, <2>2
      <3>2. Words(w)' \subseteq {a} \cup Words(w)
        <4> SUFFICES ASSUME NEW x \in Words(w)', x # a PROVE x \in Words(w)
          OBVIOUS
        <4>1. PICK b \in Bucket : x \in Chain(word', lists'[w].table[b])
          BY <2>1
        <4>2. x \in Chain(word, lists[w].table[b])
          BY <3>1, <4>1
        <4> QED
          BY <2>1, <4>2
      <3>3. a \in Words(w)'
        BY <1>1, <2>1, <3>1
      <3>4. Words(w) \subseteq Words(w)'
        BY <2>1, <3>1
      <3> QED
        BY <3>2, <3>3, <3>4
    <2>3. ASSUME w # current PROVE Words(w)' = Words(w)
      <3>1. \A b \in Bucket : Chain(word', lists'[w].table[b]) = Chain(word, lists[w].table[b])
        BY <1>4, <2>3
      <3> QED
        BY <2>1, <2>3, <3>1 DEF Words
    <2> QED
      BY <2>2, <2>3
  <1>7. Linked' = {a} \cup Linked
    BY <1>6 DEF Linked
  <1>8. ListsBetween'
    <2> SUFFICES ASSUME NEW w \in DOMAIN lists, NEW x \in Words(w)', NEW y \in Linked', x < y
                 PROVE  lists[w].at < y
      BY DEF ListsBetween
    <2>1. x \in {a} \cup Words(w) /\ y \in {a} \cup Linked /\ Words(w) \subseteq Linked
      BY <1>6, <1>7, WordsIn
    <2>2. x \in Words(w)
      <3>1. \A z \in Linked : z \in D!Memory /\ z < a
        BY WordsIn DEF Linked
      <3>2. a \in Nat /\ \A z \in {a} \cup Linked : z \in Nat /\ (z = a \/ z < a)
        BY <1>1, <3>1 DEF D!Memory
      <3>3. x # a
        BY <2>1, <3>2
      <3> QED
        BY <2>1, <3>3
    <2> QED
      BY <2>1, <2>2 DEF ListsBetween
  <1>9. Defs' = Defs \cup {[at |-> a, name |-> n, wid |-> current]}
    <2>1. \A w \in DOMAIN lists : \A x \in Words(w) : word'[x].name = word[x].name
      BY WordsIn DEF SameWord
    <2>2. Defs' \subseteq Defs \cup {[at |-> a, name |-> n, wid |-> current]}
      BY <1>6, <2>1 DEF Defs
    <2>3. Defs \cup {[at |-> a, name |-> n, wid |-> current]} \subseteq Defs'
      BY <1>6, <2>1 DEF Defs
    <2> QED
      BY <2>2, <2>3
  <1> QED
    BY <1>5, <1>8, <1>9

-----------------------------------------------------------------------------
(* The steps that leave the words alone. *)

\* Sound, from what QuietKeeps and LinkKeeps give and the rest.
LEMMA SoundFrom ==
    ASSUME \A w \in DOMAIN lists, b \in Bucket : ChainSound(w, b), ListsSound, ListsBetween, DictInProgress,
           created # 0 => smudge # 0
    PROVE  Sound
  BY DEF Sound

\* The search order, the compilation word list, an error and quit.
LEMMA StillKeeps ==
    ASSUME D!TypeOK, Sound, UNCHANGED <<here_, word, lists, smudge>>,
           order' \in Seq(Wid), Len(order') <= MAX_WORDLISTS,
           \A i \in DOMAIN order' : order'[i] \in DOMAIN lists,
           current' \in DOMAIN lists,
           UNCHANGED <<mode, begun>> \/ mode' = "interpret",
           created' \in {0, created},
           broken' \in {"no", "overflow"}
    PROVE  D!TypeOK' /\ Sound' /\ D!NamesStep
  <1>1. D!TypeOK'
    BY DEF D!TypeOK
  <1>2. Defs' = Defs
    BY DEF Defs, Words
  <1>3. D!NamesStep
    BY <1>2, ArrangeIs DEF D!NamesStep, D!Names!Next
  <1>4. \A w \in DOMAIN lists', b \in Bucket : ChainSound(w, b)'
    BY DEF Sound, ChainSound
  <1>5. ListsSound'
    BY DEF Sound, ListsSound
  <1>6. ListsBetween'
    BY DEF Sound, ListsBetween, Words, Linked
  <1>7. DictInProgress'
    BY DEF Sound, DictInProgress, Words
  <1>8. Sound'
    BY <1>4, <1>5, <1>6, <1>7 DEF Sound
  <1> QED
    BY <1>1, <1>3, <1>8

\* Word lists and the search order (search.c), an error and quit.
LEMMA ArrangeKeeps ==
    ASSUME D!TypeOK, Sound, broken = "no",
           \/ \E w \in Wid : D!SetCurrent(w) \/ D!SearchPush(w)
           \/ \E s \in D!Orders : D!SetOrder(s)
           \/ D!SetOrderMinimum \/ D!Definitions \/ D!SearchPop \/ D!Error \/ D!Quit
    PROVE  D!TypeOK' /\ (broken' = "no" => Sound') /\ D!NamesStep
  <1> USE DEF D!Arranges
  <1>1. /\ order \in Seq(Wid) /\ Len(order) <= MAX_WORDLISTS /\ Len(order) \in Nat
        /\ MAX_WORDLISTS \in Nat \ {0} /\ DOMAIN order = 1..Len(order)
        /\ \A i \in DOMAIN order : order[i] \in DOMAIN lists
        /\ current \in DOMAIN lists /\ Forth \in DOMAIN lists /\ DOMAIN lists \subseteq Wid
    BY DictAssumption DEF D!TypeOK, Sound, ListsSound
  <1>2. CASE \E w \in Wid : D!SetCurrent(w)
    <2>1. /\ UNCHANGED <<here_, word, lists, smudge, order, mode, begun, created, broken>>
          /\ current' \in DOMAIN lists
      BY <1>2 DEF D!SetCurrent
    <2> QED
      BY <1>1, <2>1, StillKeeps
  <1>3. ASSUME NEW w \in Wid, D!SearchPush(w) PROVE D!TypeOK' /\ (broken' = "no" => Sound') /\ D!NamesStep
    <2>1. /\ UNCHANGED <<here_, word, lists, smudge, mode, begun, created, current>>
          /\ w \in DOMAIN lists /\ broken' \in {"no", "overflow"}
          /\ order' = order \/ (Len(order) < MAX_WORDLISTS /\ order' = Append(order, w))
      BY <1>3 DEF D!SearchPush
    <2>2. /\ order' \in Seq(Wid) /\ Len(order') <= MAX_WORDLISTS
          /\ \A i \in DOMAIN order' : order'[i] \in DOMAIN lists
      BY <1>1, <2>1
    <2> QED
      BY <1>1, <2>1, <2>2, StillKeeps
  <1>4. ASSUME NEW s \in D!Orders, D!SetOrder(s) PROVE D!TypeOK' /\ (broken' = "no" => Sound') /\ D!NamesStep
    <2>1. /\ UNCHANGED <<here_, word, lists, smudge, mode, begun, created, current, broken>>
          /\ order' = s /\ Len(s) <= MAX_WORDLISTS /\ \A i \in DOMAIN s : s[i] \in DOMAIN lists
      BY <1>4 DEF D!SetOrder, D!OrderFits
    <2>2. s \in Seq(Wid)
      <3>1. <<>> \in Seq(Wid) /\ Forth \in Wid
        BY DictAssumption
      <3>2. \A v \in Wid : <<v>> \in Seq(Wid)
        OBVIOUS
      <3>3. \A v, u \in Wid : <<v, u>> \in Seq(Wid)
        OBVIOUS
      <3>4. \A v \in Wid : <<Forth, v, Forth>> \in Seq(Wid)
        BY <3>1
      <3>5. \/ s = <<>> \/ \E v \in Wid : s = <<v>> \/ s = <<Forth, v, Forth>>
            \/ \E v, u \in Wid : s = <<v, u>>
        BY DEF D!Orders
      <3> QED
        BY <3>1, <3>2, <3>3, <3>4, <3>5
    <2> QED
      BY <1>1, <2>1, <2>2, StillKeeps
  <1>5. CASE D!SetOrderMinimum
    <2>1. /\ UNCHANGED <<here_, word, lists, smudge, mode, begun, created, broken>>
          /\ order' = <<Forth>> /\ current' = Forth
      BY <1>5 DEF D!SetOrderMinimum
    <2> QED
      BY <1>1, <2>1, StillKeeps
  <1>6. CASE D!Definitions
    <2>1. /\ UNCHANGED <<here_, word, lists, smudge, order, mode, begun, created, broken>>
          /\ order # <<>> /\ current' = order[Len(order)]
      BY <1>6 DEF D!Definitions
    <2>2. Len(order) \in DOMAIN order
      BY <1>1, <2>1
    <2> QED
      BY <1>1, <2>1, <2>2, StillKeeps
  <1>7. CASE D!SearchPop
    <2>1. /\ UNCHANGED <<here_, word, lists, smudge, current, mode, begun, created, broken>>
          /\ order # <<>> /\ order' = SubSeq(order, 1, Len(order) - 1)
      BY <1>7 DEF D!SearchPop
    <2>2. /\ order' \in Seq(Wid) /\ Len(order') <= MAX_WORDLISTS
          /\ \A i \in DOMAIN order' : order'[i] \in DOMAIN lists
      BY <1>1, <2>1
    <2> QED
      BY <1>1, <2>1, <2>2, StillKeeps
  <1>8. CASE D!Error \/ D!Quit
    <2>1. /\ UNCHANGED <<here_, word, lists, smudge, broken>> /\ mode' = "interpret" /\ created' = 0
          /\ \/ order' = <<Forth>> /\ current' = Forth
             \/ UNCHANGED <<order, current>>
      BY <1>8 DEF D!Error, D!Quit, D!Leave
    <2>2. /\ order' \in Seq(Wid) /\ Len(order') <= MAX_WORDLISTS
          /\ \A i \in DOMAIN order' : order'[i] \in DOMAIN lists
          /\ current' \in DOMAIN lists
      <3>1. PICK o : o = <<Forth>>
        OBVIOUS
      <3>2. o \in Seq(Wid) /\ Len(o) = 1 /\ DOMAIN o = {1} /\ o[1] = Forth
        BY <1>1, <3>1
      <3>3. (order' = o /\ current' = Forth) \/ (order' = order /\ current' = current)
        BY <2>1, <3>1
      <3>4. CASE order' = o /\ current' = Forth
        <4>1. Len(o) <= MAX_WORDLISTS
          BY <1>1, <3>2
        <4> QED
          BY <1>1, <3>2, <3>4, <4>1
      <3>5. CASE order' = order /\ current' = current
        BY <1>1, <3>5
      <3> QED
        BY <3>3, <3>4, <3>5
    <2> QED
      BY <2>1, <2>2, StillKeeps
  <1> QED
    BY <1>2, <1>3, <1>4, <1>5, <1>6, <1>7, <1>8

\* wid-set-super links lists that are there.
LEMMA SetParentKeeps ==
    ASSUME D!TypeOK, Sound, broken = "no", NEW p \in Wid, NEW c \in Wid, D!SetParent(p, c)
    PROVE  D!TypeOK' /\ Sound' /\ D!NamesStep
  <1>1. /\ UNCHANGED <<here_, word, smudge, mode, begun, created, broken, order, current>>
        /\ p \in DOMAIN lists /\ c \in DOMAIN lists /\ lists' = [lists EXCEPT ![c].parent = p]
    BY DEF D!SetParent, D!Arranges
  <1>2. DOMAIN lists' = DOMAIN lists
    BY <1>1
  <1>3. ASSUME NEW w \in DOMAIN lists
        PROVE  /\ lists[w] \in [at : 0..MaxMem, table : [Bucket -> 0..MaxMem], parent : Wid \cup {NoWid}]
               /\ lists'[w] \in [at : 0..MaxMem, table : [Bucket -> 0..MaxMem], parent : Wid \cup {NoWid}]
               /\ lists'[w].at = lists[w].at /\ lists'[w].table = lists[w].table
               /\ lists'[w].parent = IF w = c THEN p ELSE lists[w].parent
    <2>1. lists[w] \in [at : 0..MaxMem, table : [Bucket -> 0..MaxMem], parent : Wid \cup {NoWid}]
      BY DEF D!TypeOK
    <2>2. lists'[w] = IF w = c THEN [lists[w] EXCEPT !.parent = p] ELSE lists[w]
      BY <1>1
    <2> QED
      BY <2>1, <2>2
  <1>4. D!TypeOK'
    BY <1>1, <1>2, <1>3 DEF D!TypeOK
  <1>5. \A x \in Linked : SameWord(x) /\ x < here_' /\ x <= smudge'
    BY <1>1, WordsIn DEF Sound, Linked, SameWord
  <1>6. /\ \A w \in DOMAIN lists', b \in Bucket : ChainSound(w, b)'
        /\ \A w \in DOMAIN lists : Words(w)' = Words(w)
        /\ ListsBetween'
        /\ Defs' = Defs
    BY <1>2, <1>3, <1>5, QuietKeeps DEF Sound
  <1>7. ListsSound'
    BY <1>1, <1>2, <1>3 DEF Sound, ListsSound
  <1>8. DictInProgress'
    BY <1>1, <1>2, <1>3, <1>6 DEF Sound, DictInProgress
  <1>9. created' # 0 => smudge' # 0
    BY <1>1 DEF Sound
  <1>10. Sound'
    BY <1>6, <1>7, <1>8, <1>9 DEF Sound
  <1>11. D!NamesStep
    BY <1>6, ArrangeIs DEF D!NamesStep, D!Names!Next
  <1> QED
    BY <1>4, <1>10, <1>11

\* A new word list is empty, and newer than every word.
LEMMA MakeWordlistKeeps ==
    ASSUME D!TypeOK, Sound, broken = "no", NEW v \in Wid, D!MakeWordlist(v)
    PROVE  D!TypeOK' /\ Sound' /\ D!NamesStep
  <1>1. /\ UNCHANGED <<word, order, current, smudge, mode, begun, created, broken>>
        /\ here_ \in D!Memory /\ v \in Wid \ DOMAIN lists /\ here_' = here_ + 1
        /\ lists' = [x \in DOMAIN lists \cup {v} |->
                   IF x = v THEN [at |-> here_, table |-> D!ficlHashReset, parent |-> NoWid] ELSE lists[x]]
    BY DEF D!MakeWordlist
  <1>2. DOMAIN lists' = DOMAIN lists \cup {v} /\ DOMAIN lists' \ DOMAIN lists = {v}
    BY <1>1
  <1>3. /\ \A w \in DOMAIN lists : lists'[w] = lists[w]
        /\ lists'[v] = [at |-> here_, table |-> D!ficlHashReset, parent |-> NoWid]
    BY <1>1
  <1>4. MaxMem \in Nat /\ here_ \in 1..MaxMem /\ here_ + 1 \in 1..(MaxMem + 1) /\ here_ < here_ + 1
    BY <1>1, DictAssumption DEF D!Memory
  <1>5. /\ lists'[v] \in [at : 0..MaxMem, table : [Bucket -> 0..MaxMem], parent : Wid \cup {NoWid}]
        /\ \A b \in Bucket : lists'[v].table[b] = 0
    BY <1>3, <1>4 DEF D!ficlHashReset
  <1>6. D!TypeOK'
    BY <1>1, <1>2, <1>3, <1>4, <1>5 DEF D!TypeOK
  <1>7. \A x \in Linked : x \in 1..MaxMem /\ SameWord(x) /\ x < here_' /\ x <= smudge' /\ x < here_
    BY <1>1, <1>4, WordsIn DEF Sound, Linked, SameWord, D!Memory
  <1>8. /\ \A w \in DOMAIN lists', b \in Bucket : ChainSound(w, b)'
        /\ \A w \in DOMAIN lists : Words(w)' = Words(w)
        /\ \A w \in DOMAIN lists' \ DOMAIN lists : Words(w)' = {}
        /\ ListsBetween'
        /\ Defs' = Defs
    BY <1>2, <1>3, <1>5, <1>7, QuietKeeps DEF Sound
  <1>9. ListsSound'
    <2>1. \A w \in DOMAIN lists : lists'[w].at < here_' /\ lists'[w].parent \in DOMAIN lists' \cup {NoWid}
      <3> TAKE w \in DOMAIN lists
      <3>1. lists[w].at \in 0..MaxMem /\ lists[w].at < here_ /\ lists[w].parent \in DOMAIN lists \cup {NoWid}
        BY TypeFacts DEF Sound, ListsSound
      <3> QED
        BY <1>1, <1>2, <1>3, <1>4, <3>1
    <2>2. lists'[v].at < here_' /\ lists'[v].parent = NoWid
      BY <1>1, <1>3, <1>4
    <2> QED
      BY <1>1, <1>2, <1>3, <2>1, <2>2 DEF Sound, ListsSound
  <1>10. DictInProgress'
    <2> SUFFICES ASSUME mode' = "compile"
                 PROVE  /\ begun' \in 1..(here_' - 1) /\ smudge' \in begun'..(here_' - 1)
                        /\ word'[begun'].smudged
                        /\ smudge' = begun' => \A w \in DOMAIN lists' :
                              lists'[w].at # begun' /\ (lists'[w].at > begun' => Words(w)' = {})
      BY DEF DictInProgress
    <2>1. /\ begun \in 1..(here_ - 1) /\ smudge \in begun..(here_ - 1) /\ word[begun].smudged
          /\ smudge = begun => \A w \in DOMAIN lists : lists[w].at # begun /\ (lists[w].at > begun => Words(w) = {})
      BY <1>1 DEF Sound, DictInProgress
    <2>2. begun' \in 1..(here_' - 1) /\ smudge' \in begun'..(here_' - 1) /\ word'[begun'].smudged
      BY <1>1, <1>4, <2>1
    <2>3. lists'[v].at # begun /\ Words(v)' = {}
      BY <1>2, <1>3, <1>4, <1>8, <2>1
    <2> QED
      BY <1>1, <1>2, <1>3, <1>8, <2>1, <2>2, <2>3
  <1>11. created' # 0 => smudge' # 0
    BY <1>1 DEF Sound
  <1>12. Sound'
    BY <1>8, <1>9, <1>10, <1>11 DEF Sound
  <1>13. D!NamesStep
    BY <1>8, ArrangeIs DEF D!NamesStep, D!Names!Next
  <1> QED
    BY <1>6, <1>12, <1>13

\* does> changes how the word behaves that is linked already.
LEMMA DoesKeeps ==
    ASSUME D!TypeOK, Sound, broken = "no", D!Does
    PROVE  D!TypeOK' /\ Sound' /\ D!NamesStep
  <1>1. /\ UNCHANGED <<here_, lists, order, current, smudge, mode, begun, broken>>
        /\ mode = "interpret" /\ created # 0 /\ created' = 0
        /\ word' = [word EXCEPT ![smudge].does = TRUE]
    BY DEF D!Does
  <1>2. \A a \in D!Memory : /\ word[a] \in [name : Name \cup {Nameless}, link : 0..MaxMem,
                                             smudged : BOOLEAN, does : BOOLEAN]
                            /\ word'[a] = IF a = smudge THEN [word[a] EXCEPT !.does = TRUE] ELSE word[a]
    BY <1>1 DEF D!TypeOK
  <1>3. \A a \in D!Memory : /\ word'[a] \in [name : Name \cup {Nameless}, link : 0..MaxMem,
                                              smudged : BOOLEAN, does : BOOLEAN]
                            /\ SameWord(a)
    BY <1>2 DEF SameWord
  <1>4. word' \in [D!Memory -> [name : Name \cup {Nameless}, link : 0..MaxMem, smudged : BOOLEAN, does : BOOLEAN]]
    BY <1>1, <1>3 DEF D!TypeOK
  <1>5. D!TypeOK'
    BY <1>1, <1>4 DEF D!TypeOK
  <1>6. \A x \in Linked : SameWord(x) /\ x < here_' /\ x <= smudge'
    BY <1>1, <1>3, WordsIn DEF Sound, Linked
  <1>7. /\ \A w \in DOMAIN lists', b \in Bucket : ChainSound(w, b)'
        /\ ListsBetween'
        /\ Defs' = Defs
    BY <1>1, <1>6, QuietKeeps DEF Sound
  <1>8. ListsSound' /\ DictInProgress'
    BY <1>1 DEF Sound, ListsSound, DictInProgress
  <1>9. Sound'
    BY <1>1, <1>7, <1>8 DEF Sound
  <1>10. D!NamesStep
    BY <1>7, ArrangeIs DEF D!NamesStep, D!Names!Next
  <1> QED
    BY <1>5, <1>9, <1>10

-----------------------------------------------------------------------------
(* Definitions. *)

Header == [name : Name \cup {Nameless}, link : 0..MaxMem, smudged : BOOLEAN, does : BOOLEAN]
WordList == [at : 0..MaxMem, table : [Bucket -> 0..MaxMem], parent : Wid \cup {NoWid}]

\* ficlDictionaryAppendWord writes one hidden word.
LEMMA DictAppendedIs ==
    ASSUME D!TypeOK, here_ \in D!Memory, NEW n \in Name \cup {Nameless}
    PROVE  /\ D!Appended(n) \in [D!Memory -> Header]
           /\ D!Appended(n)[here_].name = n /\ D!Appended(n)[here_].smudged
           /\ \A x \in D!Memory \ {here_} : D!Appended(n)[x] = word[x]
  <1>1. word \in [D!Memory -> Header]
    BY DEF D!TypeOK, Header
  <1>2. PICK h : h = [D!Blank EXCEPT !.name = n, !.smudged = TRUE]
    OBVIOUS
  <1>3. h = [name |-> n, link |-> 0, smudged |-> TRUE, does |-> FALSE]
    BY <1>2 DEF D!Blank
  <1>4. h \in Header /\ h.name = n /\ h.smudged
    BY <1>3, DictAssumption DEF Header
  <1>5. D!Appended(n) = [word EXCEPT ![here_] = h]
    BY <1>2 DEF D!Appended
  <1> QED
    BY <1>1, <1>4, <1>5

\* ficlDictionaryUnsmudge shows word A, and unless it has no name links it into
\* the bucket of its name.
LEMMA UnsmudgeIs ==
    ASSUME D!TypeOK, current \in DOMAIN lists, NEW ws \in [D!Memory -> Header], NEW a \in D!Memory,
           D!ficlDictionaryUnsmudge(ws, a)
    PROVE  /\ word' \in [D!Memory -> Header]
           /\ word'[a].name = ws[a].name /\ ~word'[a].smudged
           /\ \A x \in D!Memory \ {a} : word'[x] = ws[x]
           /\ DOMAIN lists' = DOMAIN lists
           /\ \A w \in DOMAIN lists : /\ lists[w] \in WordList /\ lists'[w] \in WordList
                                      /\ lists'[w].at = lists[w].at /\ lists'[w].parent = lists[w].parent
           /\ ws[a].name = Nameless => lists' = lists
           /\ ws[a].name # Nameless =>
                 /\ ws[a].name \in Name /\ BucketOf[ws[a].name] \in Bucket
                 /\ word'[a].link = lists[current].table[BucketOf[ws[a].name]]
                 /\ \A w \in DOMAIN lists, b \in Bucket : lists'[w].table[b] =
                       IF w = current /\ b = BucketOf[ws[a].name] THEN a ELSE lists[w].table[b]
  <1>1. /\ ws[a] \in Header /\ a \in 0..MaxMem
        /\ \A w \in DOMAIN lists : lists[w] \in WordList
    BY DictAssumption DEF D!TypeOK, D!Memory, WordList
  <1>2. CASE ws[a].name = Nameless
    <2>1. word' = [ws EXCEPT ![a].smudged = FALSE] /\ lists' = lists
      BY <1>2 DEF D!ficlDictionaryUnsmudge
    <2>2. PICK h : h = [ws[a] EXCEPT !.smudged = FALSE]
      OBVIOUS
    <2>3. h \in Header /\ h.name = ws[a].name /\ ~h.smudged
      BY <1>1, <2>2 DEF Header
    <2>4. word' = [ws EXCEPT ![a] = h]
      BY <2>1, <2>2
    <2>5. /\ word' \in [D!Memory -> Header] /\ word'[a] = h
          /\ \A x \in D!Memory \ {a} : word'[x] = ws[x]
      BY <2>3, <2>4
    <2> QED
      BY <1>1, <1>2, <2>1, <2>3, <2>5
  <1>3. CASE ws[a].name # Nameless
    <2>1. PICK n : n = ws[a].name
      OBVIOUS
    <2>2. n \in Name /\ BucketOf[n] \in Bucket /\ n # Nameless
      BY <1>1, <1>3, <2>1, DictAssumption DEF Header
    <2>3. PICK k : k = lists[current].table[BucketOf[n]]
      OBVIOUS
    <2>4. k \in 0..MaxMem
      BY <1>1, <2>2, <2>3 DEF WordList
    <2>5. PICK h : h = [[ws[a] EXCEPT !.smudged = FALSE] EXCEPT !.link = k]
      OBVIOUS
    <2>6. h \in Header /\ h.name = n /\ ~h.smudged /\ h.link = k
      BY <1>1, <2>1, <2>4, <2>5 DEF Header
    <2>7. word' = [ws EXCEPT ![a] = h]
      BY <1>3, <2>1, <2>3, <2>5 DEF D!ficlDictionaryUnsmudge, D!Linked
    <2>8. /\ word' \in [D!Memory -> Header] /\ word'[a] = h
          /\ \A x \in D!Memory \ {a} : word'[x] = ws[x]
      BY <2>6, <2>7
    <2>9. lists' = [lists EXCEPT ![current].table[BucketOf[n]] = a]
      BY <1>3, <2>1 DEF D!ficlDictionaryUnsmudge
    <2>10. ASSUME NEW w \in DOMAIN lists
           PROVE  /\ lists'[w] \in WordList
                  /\ lists'[w].at = lists[w].at /\ lists'[w].parent = lists[w].parent
                  /\ \A b \in Bucket : lists'[w].table[b] =
                       IF w = current /\ b = BucketOf[n] THEN a ELSE lists[w].table[b]
      <3>1. lists[w] \in WordList /\ lists[w].table \in [Bucket -> 0..MaxMem]
        BY <1>1 DEF WordList
      <3>2. CASE w # current
        <4>1. lists'[w] = lists[w]
          BY <2>9, <3>2
        <4> QED
          BY <3>1, <3>2, <4>1
      <3>3. CASE w = current
        <4>1. PICK t : t = [lists[w].table EXCEPT ![BucketOf[n]] = a]
          OBVIOUS
        <4>2. /\ t \in [Bucket -> 0..MaxMem]
              /\ \A b \in Bucket : t[b] = IF b = BucketOf[n] THEN a ELSE lists[w].table[b]
          BY <1>1, <2>2, <3>1, <4>1
        <4>3. lists'[w] = [lists[w] EXCEPT !.table = t]
          BY <2>9, <3>3, <4>1
        <4> QED
          BY <3>1, <3>3, <4>2, <4>3 DEF WordList
      <3> QED
        BY <3>2, <3>3
    <2>11. DOMAIN lists' = DOMAIN lists
      BY <2>9
    <2> QED
      BY <1>1, <1>3, <2>1, <2>2, <2>3, <2>6, <2>8, <2>10, <2>11
  <1> QED
    BY <1>2, <1>3

\* A definition that begins is hidden, and newer than all words and lists.
LEMMA ColonKeeps ==
    ASSUME D!TypeOK, Sound, broken = "no", NEW n \in Name \cup {Nameless}, D!Colon(n)
    PROVE  D!TypeOK' /\ Sound' /\ D!NamesStep
  <1>1. /\ here_ \in D!Memory /\ smudge' = here_ /\ here_' = here_ + 1
        /\ UNCHANGED <<order, current, broken, lists>>
        /\ mode' = "compile" /\ begun' = here_ /\ created' = 0
        /\ word' = D!Appended(n)
    BY DEF D!Colon, D!AppendWord
  <1>2. MaxMem \in Nat /\ here_ \in 1..MaxMem /\ here_ + 1 \in 1..(MaxMem + 1) /\ here_ < here_ + 1
    BY <1>1, DictAssumption DEF D!Memory
  <1>3. /\ word' \in [D!Memory -> Header] /\ word'[here_].smudged
        /\ \A x \in D!Memory \ {here_} : word'[x] = word[x]
    BY <1>1, DictAppendedIs
  <1>4. D!TypeOK'
    BY <1>1, <1>2, <1>3 DEF D!TypeOK, Header
  <1>5. \A x \in Linked : SameWord(x) /\ x < here_' /\ x <= smudge'
    <2> TAKE x \in Linked
    <2>1. x \in 1..MaxMem /\ x < here_
      BY WordsIn DEF Sound, Linked, D!Memory
    <2>2. word'[x] = word[x]
      BY <1>2, <1>3, <2>1 DEF D!Memory
    <2> QED
      BY <1>1, <1>2, <2>1, <2>2 DEF SameWord
  <1>6. /\ \A w \in DOMAIN lists', b \in Bucket : ChainSound(w, b)'
        /\ ListsBetween'
        /\ Defs' = Defs
    BY <1>1, <1>5, QuietKeeps DEF Sound
  <1>7. \A w \in DOMAIN lists : lists[w].at \in Nat /\ lists[w].at < here_
    BY TypeFacts DEF Sound, ListsSound
  <1>8. ListsSound'
    <2>1. \A w \in DOMAIN lists' : lists'[w].at < here_'
      BY <1>1, <1>2, <1>7
    <2> QED
      BY <1>1, <2>1 DEF Sound, ListsSound
  <1>9. DictInProgress'
    <2>1. begun' \in 1..(here_' - 1) /\ smudge' \in begun'..(here_' - 1) /\ word'[begun'].smudged
      BY <1>1, <1>2, <1>3
    <2>2. \A w \in DOMAIN lists' : lists'[w].at # begun' /\ ~(lists'[w].at > begun')
      BY <1>1, <1>2, <1>7
    <2> QED
      BY <2>1, <2>2 DEF DictInProgress
  <1>10. Sound'
    BY <1>1, <1>6, <1>8, <1>9 DEF Sound
  <1>11. D!NamesStep
    BY <1>6, ArrangeIs DEF D!NamesStep, D!Names!Next
  <1> QED
    BY <1>4, <1>10, <1>11

\* A word made in one step is complete, and newer than all words and lists; a
\* definition in progress stays hidden.
LEMMA MadeKeeps ==
    ASSUME D!TypeOK, Sound, broken = "no", NEW n \in Name,
           D!AppendWord(n), D!ficlDictionaryUnsmudge(D!Appended(n), here_),
           UNCHANGED <<mode, begun>>
    PROVE  D!TypeOK' /\ Sound' /\ D!NamesStep
  <1>1. /\ here_ \in D!Memory /\ smudge' = here_ /\ here_' = here_ + 1
        /\ UNCHANGED <<order, current, broken, mode, begun>>
    BY DEF D!AppendWord
  <1>2. MaxMem \in Nat /\ here_ \in 1..MaxMem /\ here_ + 1 \in 1..(MaxMem + 1) /\ here_ < here_ + 1
    BY <1>1, DictAssumption DEF D!Memory
  <1>3. PICK ws \in [D!Memory -> Header] : /\ ws = D!Appended(n) /\ ws[here_].name = n
                                           /\ \A x \in D!Memory \ {here_} : ws[x] = word[x]
    BY <1>1, DictAppendedIs
  <1>4. current \in DOMAIN lists /\ n # Nameless
    BY DictAssumption DEF Sound, ListsSound
  <1>5. D!ficlDictionaryUnsmudge(ws, here_)
    BY <1>3
  <1>6. /\ word' \in [D!Memory -> Header]
        /\ word'[here_].name = n /\ ~word'[here_].smudged
        /\ \A x \in D!Memory \ {here_} : word'[x] = word[x]
        /\ DOMAIN lists' = DOMAIN lists
        /\ \A w \in DOMAIN lists : /\ lists[w] \in WordList /\ lists'[w] \in WordList
                                   /\ lists'[w].at = lists[w].at /\ lists'[w].parent = lists[w].parent
        /\ BucketOf[n] \in Bucket
        /\ word'[here_].link = lists[current].table[BucketOf[n]]
        /\ \A w \in DOMAIN lists, b \in Bucket : lists'[w].table[b] =
              IF w = current /\ b = BucketOf[n] THEN here_ ELSE lists[w].table[b]
    BY <1>1, <1>3, <1>4, <1>5, UnsmudgeIs
  <1>7. D!TypeOK'
    BY <1>1, <1>2, <1>6 DEF D!TypeOK, Header, WordList
  <1>8. \A x \in Linked : x < here_ /\ SameWord(x)
    <2> TAKE x \in Linked
    <2>1. x \in 1..MaxMem /\ x < here_
      BY WordsIn DEF Sound, Linked, D!Memory
    <2>2. word'[x] = word[x]
      BY <1>2, <1>6, <2>1 DEF D!Memory
    <2> QED
      BY <2>1, <2>2 DEF SameWord
  <1>9. \A w \in DOMAIN lists : lists[w].at \in Nat /\ lists[w].at < here_
    BY TypeFacts DEF Sound, ListsSound
  <1>10. /\ \A w \in DOMAIN lists', b \in Bucket : ChainSound(w, b)'
         /\ ListsBetween'
         /\ Defs' = Defs \cup {[at |-> here_, name |-> n, wid |-> current]}
    <2>1. here_' >= here_ /\ here_' \in Nat /\ here_ < here_'
      BY <1>1, <1>2
    <2> QED
      BY <1>1, <1>4, <1>6, <1>8, <1>9, <2>1, LinkKeeps DEF Sound
  <1>11. ListsSound'
    <2>1. \A w \in DOMAIN lists' : lists'[w].at < here_' /\ lists'[w].parent \in DOMAIN lists' \cup {NoWid}
      BY <1>1, <1>2, <1>6, <1>9 DEF Sound, ListsSound
    <2> QED
      BY <1>1, <1>6, <2>1 DEF Sound, ListsSound
  <1>12. DictInProgress'
    <2> SUFFICES ASSUME mode' = "compile"
                 PROVE  /\ begun' \in 1..(here_' - 1) /\ smudge' \in begun'..(here_' - 1)
                        /\ word'[begun'].smudged /\ smudge' # begun'
      BY DEF DictInProgress
    <2>1. begun \in 1..(here_ - 1) /\ word[begun].smudged
      BY <1>1 DEF Sound, DictInProgress
    <2>2. begun \in D!Memory \ {here_} /\ begun # here_
      BY <1>2, <2>1 DEF D!Memory
    <2>3. word'[begun].smudged
      BY <1>6, <2>1, <2>2
    <2> QED
      BY <1>1, <1>2, <2>1, <2>2, <2>3
  <1>13. smudge' # 0
    BY <1>1, <1>2
  <1>14. Sound'
    BY <1>10, <1>11, <1>12, <1>13 DEF Sound
  <1>15. D!Names!Next
    <2>1. [w \in Wid |-> IF w \in DOMAIN lists THEN lists[w].parent ELSE NoWid]'
            = [w \in Wid |-> IF w \in DOMAIN lists THEN lists[w].parent ELSE NoWid]
      BY <1>6
    <2> QED
      BY <1>1, <1>8, <1>10, <2>1, DefineIs
  <1> QED
    BY <1>7, <1>14, <1>15 DEF D!NamesStep

\* ; shows the definition that has begun, and links it unless it has no name.
LEMMA SemicolonKeeps ==
    ASSUME D!TypeOK, Sound, broken = "no", D!Semicolon
    PROVE  D!TypeOK' /\ (broken' = "no" => Sound') /\ D!NamesStep
  <1>1. /\ mode = "compile" /\ mode' = "interpret" /\ begun' = 0
        /\ D!ficlDictionaryUnsmudge(word, smudge)
        /\ broken' = IF smudge = begun THEN "no" ELSE "relinked"
        /\ UNCHANGED <<here_, order, current, smudge, created>>
    BY DEF D!Semicolon
  <1>2. /\ begun \in 1..(here_ - 1) /\ smudge \in begun..(here_ - 1) /\ word[begun].smudged
        /\ smudge = begun => \A w \in DOMAIN lists : lists[w].at # begun /\ (lists[w].at > begun => Words(w) = {})
    BY <1>1 DEF Sound, DictInProgress
  <1>3. MaxMem \in Nat /\ here_ \in 1..(MaxMem + 1) /\ smudge \in 1..MaxMem
    BY <1>2, TypeFacts, DictAssumption
  <1>4. smudge \in D!Memory /\ word \in [D!Memory -> Header] /\ current \in DOMAIN lists
    BY <1>3 DEF D!Memory, D!TypeOK, Header, Sound, ListsSound
  <1>5. PICK n : n = word[smudge].name
    OBVIOUS
  <1>6. /\ word' \in [D!Memory -> Header]
        /\ word'[smudge].name = n /\ ~word'[smudge].smudged
        /\ \A x \in D!Memory \ {smudge} : word'[x] = word[x]
        /\ DOMAIN lists' = DOMAIN lists
        /\ \A w \in DOMAIN lists : /\ lists[w] \in WordList /\ lists'[w] \in WordList
                                   /\ lists'[w].at = lists[w].at /\ lists'[w].parent = lists[w].parent
        /\ n = Nameless => lists' = lists
        /\ n # Nameless =>
             /\ n \in Name /\ BucketOf[n] \in Bucket
             /\ word'[smudge].link = lists[current].table[BucketOf[n]]
             /\ \A w \in DOMAIN lists, b \in Bucket : lists'[w].table[b] =
                  IF w = current /\ b = BucketOf[n] THEN smudge ELSE lists[w].table[b]
    BY <1>1, <1>4, <1>5, UnsmudgeIs
  <1>7. D!TypeOK'
    BY <1>1, <1>6 DEF D!TypeOK, Header, WordList
  <1>8. ASSUME smudge = begun PROVE Sound' /\ D!NamesStep
    <2>1. \A x \in Linked : x \in 1..MaxMem /\ x < here_ /\ x < smudge /\ SameWord(x)
      <3> TAKE x \in Linked
      <3>1. x \in 1..MaxMem /\ x < here_ /\ x <= smudge /\ ~word[x].smudged
        BY WordsIn DEF Sound, Linked, D!Memory
      <3>2. x # smudge
        BY <1>2, <1>8, <3>1
      <3>3. word'[x] = word[x]
        BY <1>6, <3>1, <3>2 DEF D!Memory
      <3> QED
        BY <1>3, <3>1, <3>2, <3>3 DEF SameWord
    <2>2. \A w \in DOMAIN lists : Words(w) # {} => lists[w].at < smudge
      <3> TAKE w \in DOMAIN lists
      <3>1. lists[w].at \in Nat /\ lists[w].at # smudge /\ (lists[w].at > smudge => Words(w) = {})
        BY <1>2, <1>8, TypeFacts
      <3> QED
        BY <1>3, <3>1
    <2>3. ListsSound'
      BY <1>1, <1>6 DEF Sound, ListsSound
    <2>4. DictInProgress' /\ (created' # 0 => smudge' # 0)
      BY <1>1 DEF Sound, DictInProgress
    <2>5. CASE n = Nameless
      <3>1. \A x \in Linked : SameWord(x) /\ x < here_' /\ x <= smudge'
        BY <1>1, <1>3, <2>1
      <3>2. /\ \A w \in DOMAIN lists', b \in Bucket : ChainSound(w, b)'
            /\ ListsBetween'
            /\ Defs' = Defs
        BY <1>6, <2>5, <3>1, QuietKeeps DEF Sound
      <3>3. Sound'
        BY <2>3, <2>4, <3>2 DEF Sound
      <3>4. D!NamesStep
        BY <3>2, ArrangeIs DEF D!NamesStep, D!Names!Next
      <3> QED
        BY <3>3, <3>4
    <2>6. CASE n # Nameless
      <3>1. /\ \A w \in DOMAIN lists', b \in Bucket : ChainSound(w, b)'
            /\ ListsBetween'
            /\ Defs' = Defs \cup {[at |-> smudge, name |-> n, wid |-> current]}
        <4>1. here_' >= here_ /\ here_' \in Nat /\ smudge < here_'
          BY <1>1, <1>2, <1>3
        <4> QED
          BY <1>1, <1>4, <1>6, <2>1, <2>2, <2>6, <4>1, LinkKeeps DEF Sound
      <3>2. Sound'
        BY <2>3, <2>4, <3>1 DEF Sound
      <3>3. [w \in Wid |-> IF w \in DOMAIN lists THEN lists[w].parent ELSE NoWid]'
              = [w \in Wid |-> IF w \in DOMAIN lists THEN lists[w].parent ELSE NoWid]
        BY <1>6
      <3>4. D!Names!Next
        BY <1>1, <2>1, <3>1, <3>3, DefineIs
      <3> QED
        BY <3>2, <3>4 DEF D!NamesStep
    <2> QED
      BY <2>5, <2>6
  <1> QED
    BY <1>1, <1>7, <1>8 DEF D!NamesStep

-----------------------------------------------------------------------------
(* Lookup. *)

\* What a list has of a name is the same in both.
LEMMA OwnIs ==
    ASSUME D!TypeOK, Sound, NEW w \in DOMAIN lists, NEW n \in Name
    PROVE  D!InList(w, n) = D!Names!Own(w, n)
  <1> DEFINE as == Chain(word, lists[w].table[BucketOf[n]])
             hits == {a \in as : word[a].name = n}
             ds == {d \in Defs : d.wid = w /\ d.name = n}
  <1>1. BucketOf[n] \in Bucket
    BY DictAssumption
  <1>2. \A a : a \in hits <=> a \in Words(w) /\ word[a].name = n
    BY <1>1, WordsIn DEF Sound
  <1>3. \A d : d \in ds <=> \E a \in hits : d = [at |-> a, name |-> n, wid |-> w]
    BY <1>2 DEF Defs
  <1>4. hits \in SUBSET D!Memory
    BY <1>2, WordsIn DEF Sound
  <1>5. D!InList(w, n) = IF hits = {} THEN 0 ELSE CHOOSE a \in hits : \A b \in hits : b <= a
    <2>1. D!ChainFrom(lists[w].table[BucketOf[n]]) = as
      BY ChainFromIs
    <2> HIDE DEF as
    <2>2. D!InList(w, n) = D!FirstIn(as, n)
      BY <2>1 DEF D!InList
    <2>3. D!FirstIn(as, n) = IF hits = {} THEN 0 ELSE CHOOSE a \in hits : \A b \in hits : b <= a
      BY DEF D!FirstIn
    <2> QED
      BY <2>2, <2>3
  <1>6. D!Names!Own(w, n) = IF ds = {} THEN 0 ELSE (CHOOSE d \in ds : \A e \in ds : e.at <= d.at).at
    BY DEF D!Names!Own, D!Names!Latest, Defs, Words, D!ChainFrom, Chain, Walk, Steps
  <1> HIDE DEF as, hits, ds
  <1>7. CASE hits = {}
    <2>1. ds = {}
      BY <1>3, <1>7
    <2> QED
      BY <1>5, <1>6, <1>7, <2>1
  <1>8. CASE hits # {}
    <2>1. PICK m \in hits : \A b \in hits : b <= m
      BY <1>4, <1>8, Greatest, DictAssumption DEF D!Memory
    <2>2. \A a \in hits : (\A b \in hits : b <= a) => a = m
      BY <1>4, <2>1 DEF D!Memory
    <2>3. (CHOOSE a \in hits : \A b \in hits : b <= a) = m
      BY <2>1, <2>2
    <2>4. PICK d : d = [at |-> m, name |-> n, wid |-> w]
      OBVIOUS
    <2>5. d \in ds /\ \A e \in ds : e.at <= d.at
      BY <1>3, <2>1, <2>4
    <2>6. \A e \in ds : (\A c \in ds : c.at <= e.at) => e.at = m
      <3> TAKE e \in ds
      <3> HAVE \A c \in ds : c.at <= e.at
      <3>1. PICK a \in hits : e = [at |-> a, name |-> n, wid |-> w]
        BY <1>3
      <3>2. d.at <= e.at /\ e.at <= d.at
        BY <2>5
      <3> QED
        BY <1>4, <2>1, <2>4, <3>1, <3>2 DEF D!Memory
    <2>7. (CHOOSE e \in ds : \A c \in ds : c.at <= e.at).at = m
      BY <2>5, <2>6
    <2>8. ds # {}
      BY <2>5
    <2> QED
      BY <1>5, <1>6, <1>8, <2>3, <2>7, <2>8
  <1> QED
    BY <1>7, <1>8

\* A word that is found is one of that list.
LEMMA OwnIn ==
    ASSUME D!TypeOK, Sound, NEW w \in DOMAIN lists, NEW n \in Name, D!InList(w, n) # 0
    PROVE  D!InList(w, n) \in Words(w)
  <1> DEFINE as == Chain(word, lists[w].table[BucketOf[n]])
             hits == {a \in as : word[a].name = n}
  <1>1. hits \subseteq Words(w) /\ hits \in SUBSET (1..MaxMem)
    BY WordsIn, DictAssumption DEF Sound, D!Memory
  <1>2. D!InList(w, n) = IF hits = {} THEN 0 ELSE CHOOSE a \in hits : \A b \in hits : b <= a
    <2>1. D!ChainFrom(lists[w].table[BucketOf[n]]) = as
      BY ChainFromIs
    <2> HIDE DEF as
    <2>2. D!InList(w, n) = D!FirstIn(as, n)
      BY <2>1 DEF D!InList
    <2>3. D!FirstIn(as, n) = IF hits = {} THEN 0 ELSE CHOOSE a \in hits : \A b \in hits : b <= a
      BY DEF D!FirstIn
    <2> QED
      BY <2>2, <2>3
  <1> HIDE DEF hits
  <1>3. \E k \in hits : \A b \in hits : b <= k
    BY <1>1, <1>2, Greatest, DictAssumption
  <1> QED
    BY <1>1, <1>2, <1>3

\* So is a word found by inheritance, of a list that is there.
LEMMA HashLookupIs ==
    ASSUME D!TypeOK, Sound, NEW w \in DOMAIN lists, NEW n \in Name
    PROVE  /\ D!ficlHashLookup(w, n) = D!Names!In(w, n)
           /\ D!ficlHashLookup(w, n) # 0 => D!ficlHashLookup(w, n) \in Linked
  <1>1. lists[w].parent \in DOMAIN lists \cup {NoWid} /\ w \in Wid
    BY TypeFacts DEF Sound, ListsSound
  <1>2. D!Names!In(w, n) =
          IF D!Names!Own(w, n) # 0 \/ lists[w].parent = NoWid THEN D!Names!Own(w, n)
          ELSE D!Names!Own(lists[w].parent, n)
    BY <1>1 DEF D!Names!In, D!Names!Own
  <1>3. CASE D!InList(w, n) # 0 \/ lists[w].parent = NoWid
    <2>1. D!ficlHashLookup(w, n) = D!InList(w, n)
      BY <1>3 DEF D!ficlHashLookup
    <2>2. D!InList(w, n) # 0 => D!InList(w, n) \in Linked
      BY OwnIn DEF Linked
    <2> QED
      BY <1>2, <1>3, <2>1, <2>2, OwnIs
  <1>4. CASE ~(D!InList(w, n) # 0 \/ lists[w].parent = NoWid)
    <2>1. D!ficlHashLookup(w, n) = D!InList(lists[w].parent, n) /\ lists[w].parent \in DOMAIN lists
      BY <1>1, <1>4 DEF D!ficlHashLookup
    <2>2. D!InList(lists[w].parent, n) # 0 => D!InList(lists[w].parent, n) \in Linked
      BY <2>1, OwnIn DEF Linked
    <2>3. D!InList(lists[w].parent, n) = D!Names!Own(lists[w].parent, n)
      BY <2>1, OwnIs
    <2> QED
      BY <1>2, <1>4, <2>1, <2>2, <2>3, OwnIs
  <1> QED
    BY <1>3, <1>4

\* ficlDictionaryLookup goes through the search order from its end.
LEMMA LookupIs ==
    ASSUME D!TypeOK, Sound, NEW n \in Name
    PROVE  /\ D!ficlDictionaryLookup(n) = D!Names!Meaning(n)
           /\ D!ficlDictionaryLookup(n) # 0 => D!ficlDictionaryLookup(n) \in Linked
  <1> DEFINE hits == {i \in DOMAIN order : D!ficlHashLookup(order[i], n) # 0}
  <1>1. \A i \in DOMAIN order : /\ order[i] \in DOMAIN lists
                                /\ D!ficlHashLookup(order[i], n) = D!Names!In(order[i], n)
                                /\ D!ficlHashLookup(order[i], n) # 0 => D!ficlHashLookup(order[i], n) \in Linked
    BY HashLookupIs DEF Sound, ListsSound
  <1>2. Len(order) \in Nat /\ DOMAIN order = 1..Len(order)
    BY DEF D!TypeOK
  <1>3. hits \in SUBSET (1..Len(order)) /\ \A i \in hits : i \in DOMAIN order /\ D!ficlHashLookup(order[i], n) # 0
    BY <1>2
  <1> DEFINE ns == {i \in DOMAIN order : D!Names!In(order[i], n) # 0}
  <1>4. ns = hits
    BY <1>1
  <1>5. D!Names!Meaning(n) =
          IF hits = {} THEN 0 ELSE D!Names!In(order[CHOOSE i \in hits : \A j \in hits : j <= i], n)
    <2>1. D!Names!Meaning(n) =
            IF ns = {} THEN 0 ELSE D!Names!In(order[CHOOSE i \in ns : \A j \in ns : j <= i], n)
      BY DEF D!Names!Meaning
    <2> HIDE DEF ns, hits
    <2> QED
      BY <1>4, <2>1
  <1>6. D!ficlDictionaryLookup(n) =
          IF hits = {} THEN 0 ELSE D!ficlHashLookup(order[CHOOSE i \in hits : \A j \in hits : j <= i], n)
    BY DEF D!ficlDictionaryLookup, D!LookupOrder
  <1> HIDE DEF hits, ns
  <1>7. hits # {} => (CHOOSE i \in hits : \A j \in hits : j <= i) \in hits
    BY <1>2, <1>3, Greatest
  <1> QED
    BY <1>1, <1>3, <1>5, <1>6, <1>7

-----------------------------------------------------------------------------
(* forget. *)

\* The words from a chain's table on are in memory, whatever the chain.
LEMMA ChainInMemory ==
    ASSUME D!TypeOK, NEW a \in 0..MaxMem
    PROVE  Chain(word, a) \subseteq D!Memory
  <1>1. a # 0 => a \in D!Memory
    BY DictAssumption DEF D!Memory
  <1>2. \A x \in D!Memory : word[x].link # 0 => word[x].link \in D!Memory
    BY TypeFacts, DictAssumption DEF D!Memory
  <1> QED
    BY <1>1, <1>2, ChainLeast

\* ficlHashForget, for one bucket: the last word before where, or none.
DictKept(t, where, b) ==
    LET kept == {a \in Chain(word, t[b]) : ~D!Behind(a, where)}
    IN  IF kept = {} THEN 0 ELSE CHOOSE a \in kept : \A x \in kept : x <= a

\* It is such a word, and no other of the bucket is between them.
LEMMA KeptIs ==
    ASSUME D!TypeOK, NEW t \in [Bucket -> 0..MaxMem], NEW where \in D!Memory, NEW b \in Bucket
    PROVE  /\ D!ficlHashForget(t, where)[b] = DictKept(t, where, b)
           /\ DictKept(t, where, b) \in 0..MaxMem
           /\ DictKept(t, where, b) = 0 => \A a \in Chain(word, t[b]) : a >= where
           /\ DictKept(t, where, b) # 0 => /\ DictKept(t, where, b) \in Chain(word, t[b])
                                       /\ DictKept(t, where, b) < where
                                       /\ \A a \in Chain(word, t[b]) : a < where => a <= DictKept(t, where, b)
  <1> DEFINE as == Chain(word, t[b])
             kept == {a \in as : ~D!Behind(a, where)}
  <1>1. (\A a \in as : a \in 1..MaxMem /\ a \in Nat) /\ where \in Nat /\ MaxMem \in Nat
    <2>1. t[b] \in 0..MaxMem
      OBVIOUS
    <2> QED
      BY <2>1, ChainInMemory, DictAssumption DEF D!Memory
  <1>2. D!ficlHashForget(t, where)[b] = DictKept(t, where, b)
    <2>1. D!ChainFrom(t[b]) = Chain(word, t[b])
      BY ChainFromIs
    <2> QED
      BY <2>1 DEF D!ficlHashForget, DictKept
  <1>3. DictKept(t, where, b) = IF kept = {} THEN 0 ELSE CHOOSE a \in kept : \A x \in kept : x <= a
    BY DEF DictKept
  <1> HIDE DEF as
  <1>4. \A a : a \in kept <=> a \in as /\ a < where
    <2>1. \A a \in as : ~D!Behind(a, where) <=> a < where
      <3> TAKE a \in as
      <3>1. a \in Nat /\ where \in Nat
        BY <1>1
      <3> QED
        BY <3>1 DEF D!Behind
    <2> QED
      BY <2>1
  <1> HIDE DEF kept
  <1>5. kept \in SUBSET (1..MaxMem)
    BY <1>1, <1>4
  <1>6. CASE kept = {}
    <2>1. DictKept(t, where, b) = 0
      BY <1>3, <1>6
    <2>2. \A a \in as : ~(a < where) /\ a \in Nat
      BY <1>1, <1>4, <1>6
    <2>3. \A a \in as : a >= where
      <3> TAKE a \in as
      <3>1. a \in Nat /\ where \in Nat /\ ~(a < where)
        BY <1>1, <2>2
      <3> QED
        BY <3>1
    <2> QED
      BY <1>1, <1>2, <2>1, <2>3 DEF as
  <1>7. CASE kept # {}
    <2>1. \E k \in kept : \A x \in kept : x <= k
      BY <1>1, <1>5, <1>7, Greatest
    <2>2. DictKept(t, where, b) \in kept /\ \A x \in kept : x <= DictKept(t, where, b)
      BY <1>3, <1>7, <2>1
    <2>3. /\ DictKept(t, where, b) \in as /\ DictKept(t, where, b) < where /\ DictKept(t, where, b) \in 1..MaxMem
          /\ \A a \in as : a < where => a <= DictKept(t, where, b)
      BY <1>4, <1>5, <2>2
    <2>4. DictKept(t, where, b) # 0 /\ DictKept(t, where, b) \in 0..MaxMem
      BY <1>1, <2>3
    <2> QED
      BY <1>2, <2>3, <2>4 DEF as
  <1> QED
    BY <1>6, <1>7

\* What forget does, when it leaves nothing dangling: the lists from where on go,
\* the others have no word from there on, except for the compilation word list.
LEMMA ForgetDoes ==
    ASSUME D!TypeOK, Sound, NEW n \in Name, D!Forget(n), broken' = "no"
    PROVE  LET where == D!ficlDictionaryLookup(n) IN
           /\ where \in Linked /\ where \in D!Memory
           /\ here_' = where /\ mode' = "interpret" /\ created' = 0 /\ UNCHANGED <<order, current, smudge, begun>>
           /\ DOMAIN lists' = {w \in DOMAIN lists : lists[w].at < where}
           /\ current \in DOMAIN lists' /\ \A i \in DOMAIN order : order[i] \in DOMAIN lists'
           /\ \A w \in DOMAIN lists' : /\ lists'[w].at = lists[w].at /\ lists'[w].parent = lists[w].parent
                                       /\ lists[w].parent \in DOMAIN lists' \cup {NoWid}
           /\ \A w \in DOMAIN lists' \ {current} : lists'[w] = lists[w] /\ \A x \in Words(w) : x < where
           /\ \A b \in Bucket : lists'[current].table[b] = DictKept(lists[current].table, where, b)
           /\ \A a \in D!Memory : a < where => word'[a] = word[a]
  <1> DEFINE where == D!ficlDictionaryLookup(n)
  <1>1. /\ mode = "interpret" /\ where # 0 /\ here_' = where /\ created' = 0
        /\ lists' = [w \in {x \in DOMAIN lists : lists[x].at < where \/ x = current} |->
                   IF w = current THEN [lists[w] EXCEPT !.table = D!ficlHashForget(lists[w].table, where)]
                   ELSE lists[w]]
        /\ broken' = (IF D!Dangling(where) THEN "forgotten" ELSE "no")
        /\ word' = [a \in D!Memory |-> IF a < where THEN word[a] ELSE D!Blank]
        /\ UNCHANGED <<order, current, smudge, mode, begun>>
    BY DEF D!Forget
  <1>2. where \in Linked
    BY <1>1, LookupIs
  <1>3. where \in D!Memory /\ where \in Nat
    BY <1>2, WordsIn DEF Linked, Sound, D!Memory
  <1> HIDE DEF where
  <1>4. ~D!Dangling(where)
    BY <1>1
  <1>5. /\ current \in DOMAIN lists /\ \A i \in DOMAIN order : order[i] \in DOMAIN lists
        /\ \A w \in DOMAIN lists : /\ lists[w].at \in Nat /\ lists[w].parent \in DOMAIN lists \cup {NoWid}
                                   /\ lists[w] \in WordList
    BY TypeFacts DEF Sound, ListsSound, D!TypeOK, WordList
  <1>6. /\ \A w \in DOMAIN lists : lists[w].at >= where =>
              /\ w # current /\ \A i \in DOMAIN order : order[i] # w
              /\ \A x \in DOMAIN lists : lists[x].parent # w
        /\ \A w \in DOMAIN lists \ {current} : lists[w].at < where =>
              \A b \in Bucket : \A a \in D!ChainFrom(lists[w].table[b]) : ~(a >= where)
    BY <1>4 DEF D!Dangling
  <1>7. DOMAIN lists' = {w \in DOMAIN lists : lists[w].at < where}
    <2>1. DOMAIN lists' = {x \in DOMAIN lists : lists[x].at < where \/ x = current}
      BY <1>1
    <2>2. \A w \in DOMAIN lists : lists[w].at < where \/ w # current
      BY <1>3, <1>5, <1>6
    <2> QED
      BY <2>1, <2>2
  <1>8. \A w \in DOMAIN lists : lists[w].at < where <=> ~(lists[w].at >= where)
    BY <1>3, <1>5
  <1>9. \A w \in DOMAIN lists \ DOMAIN lists' :
           /\ w # current /\ \A i \in DOMAIN order : order[i] # w
           /\ \A x \in DOMAIN lists : lists[x].parent # w
    BY <1>6, <1>7, <1>8
  <1>10. /\ current \in DOMAIN lists' /\ \A i \in DOMAIN order : order[i] \in DOMAIN lists'
         /\ \A w \in DOMAIN lists' : lists[w].parent \in DOMAIN lists' \cup {NoWid}
    BY <1>5, <1>7, <1>9
  <1>11. ASSUME NEW w \in DOMAIN lists' \ {current}
         PROVE  lists'[w] = lists[w] /\ \A x \in Words(w) : x < where
    <2>1. lists'[w] = lists[w] /\ w \in DOMAIN lists
      BY <1>1, <1>7
    <2>2. \A x \in Words(w) : x \in Nat /\ \E b \in Bucket : x \in D!ChainFrom(lists[w].table[b])
      BY <2>1, ChainFromIs, WordsIn DEF Words, Sound, D!Memory
    <2> QED
      BY <1>3, <1>6, <1>7, <2>1, <2>2
  <1>12. /\ lists'[current] = [lists[current] EXCEPT !.table = D!ficlHashForget(lists[current].table, where)]
         /\ lists[current] \in WordList
    BY <1>1, <1>5, <1>7, <1>10
  <1>13. /\ lists'[current].at = lists[current].at /\ lists'[current].parent = lists[current].parent
         /\ lists'[current].table = D!ficlHashForget(lists[current].table, where)
    BY <1>12 DEF WordList
  <1>14. \A b \in Bucket : lists'[current].table[b] = DictKept(lists[current].table, where, b)
    BY <1>3, <1>12, <1>13, KeptIs DEF WordList
  <1>15. \A w \in DOMAIN lists' : lists'[w].at = lists[w].at /\ lists'[w].parent = lists[w].parent
    BY <1>11, <1>13
  <1>16. \A a \in D!Memory : a < where => word'[a] = word[a]
    BY <1>1
  <1> QED
    BY <1>1, <1>2, <1>3, <1>7, <1>10, <1>11, <1>14, <1>15, <1>16 DEF where

\* forget leaves types alone, dangling or not.
LEMMA ForgetTypes ==
    ASSUME D!TypeOK, Sound, NEW n \in Name, D!Forget(n)
    PROVE  D!TypeOK'
  <1> DEFINE where == D!ficlDictionaryLookup(n)
  <1>1. /\ where # 0 /\ here_' = where
        /\ lists' = [w \in {x \in DOMAIN lists : lists[x].at < where \/ x = current} |->
                   IF w = current THEN [lists[w] EXCEPT !.table = D!ficlHashForget(lists[w].table, where)]
                   ELSE lists[w]]
        /\ broken' = (IF D!Dangling(where) THEN "forgotten" ELSE "no")
        /\ word' = [a \in D!Memory |-> IF a < where THEN word[a] ELSE D!Blank]
        /\ UNCHANGED <<order, current, smudge, mode, begun>>
    BY DEF D!Forget
  <1>2. where \in D!Memory /\ where \in 1..(MaxMem + 1) /\ MaxMem \in Nat
    BY <1>1, LookupIs, WordsIn, DictAssumption DEF Linked, Sound, D!Memory
  <1> HIDE DEF where
  <1>3. word' \in [D!Memory -> Header]
    <2>1. D!Blank \in Header
      BY <1>2 DEF D!Blank, Header
    <2>2. word \in [D!Memory -> Header]
      BY DEF D!TypeOK, Header
    <2> QED
      BY <1>1, <2>1, <2>2
  <1>4. DOMAIN lists' \subseteq DOMAIN lists
    BY <1>1
  <1>5. ASSUME NEW w \in DOMAIN lists' PROVE lists'[w] \in WordList
    <2>1. w \in DOMAIN lists /\ lists[w] \in WordList
      BY <1>4 DEF D!TypeOK, WordList
    <2>2. PICK t : t = D!ficlHashForget(lists[w].table, where)
      OBVIOUS
    <2>3. t \in [Bucket -> 0..MaxMem]
      <3>1. lists[w].table \in [Bucket -> 0..MaxMem]
        BY <2>1 DEF WordList
      <3>2. \A b \in Bucket : t[b] \in 0..MaxMem
        BY <1>2, <2>2, <3>1, KeptIs
      <3>3. t = [b \in Bucket |-> t[b]]
        BY <2>2 DEF D!ficlHashForget
      <3> HIDE <2>2
      <3> QED
        BY <3>2, <3>3
    <2>4. lists'[w] = IF w = current THEN [lists[w] EXCEPT !.table = t] ELSE lists[w]
      BY <1>1, <2>2
    <2> QED
      BY <2>1, <2>3, <2>4 DEF WordList
  <1> QED
    BY <1>1, <1>2, <1>3, <1>4, <1>5 DEF D!TypeOK, Header, WordList

\* A forget that leaves nothing dangling takes the word and all that came later.
LEMMA ForgetKeeps ==
    ASSUME D!TypeOK, Sound, broken = "no", NEW n \in Name, D!Forget(n)
    PROVE  D!TypeOK' /\ (broken' = "no" => Sound') /\ D!NamesStep
  <1> SUFFICES ASSUME broken' = "no" PROVE Sound' /\ D!NamesStep
    BY ForgetTypes DEF D!NamesStep
  <1>1. PICK where : where = D!ficlDictionaryLookup(n)
    OBVIOUS
  <1>2. /\ where \in Linked /\ where \in D!Memory
        /\ here_' = where /\ mode' = "interpret" /\ created' = 0 /\ UNCHANGED <<order, current, smudge, begun>>
        /\ DOMAIN lists' = {w \in DOMAIN lists : lists[w].at < where}
        /\ current \in DOMAIN lists' /\ \A i \in DOMAIN order : order[i] \in DOMAIN lists'
        /\ \A w \in DOMAIN lists' : /\ lists'[w].at = lists[w].at /\ lists'[w].parent = lists[w].parent
                                    /\ lists[w].parent \in DOMAIN lists' \cup {NoWid}
        /\ \A w \in DOMAIN lists' \ {current} : lists'[w] = lists[w] /\ \A x \in Words(w) : x < where
        /\ \A b \in Bucket : lists'[current].table[b] = DictKept(lists[current].table, where, b)
        /\ \A a \in D!Memory : a < where => word'[a] = word[a]
    BY <1>1, ForgetDoes
  <1>3. where \in 1..MaxMem /\ where \in Nat /\ MaxMem \in Nat
    BY <1>2, DictAssumption DEF D!Memory
  <1>4. \A w \in DOMAIN lists, b \in Bucket :
           /\ lists[w].table \in [Bucket -> 0..MaxMem] /\ lists[w].table[b] \in 0..MaxMem
           /\ Down(word, lists[w].table[b]) /\ Chain(word, lists[w].table[b]) \subseteq Words(w)
           /\ Words(w) \subseteq 1..MaxMem
    <2> TAKE w \in DOMAIN lists, b \in Bucket
    <2>1. lists[w].table \in [Bucket -> 0..MaxMem]
      BY DEF D!TypeOK
    <2>2. ChainSound(w, b)
      BY DEF Sound
    <2> QED
      BY <2>1, <2>2, WordsIn DEF ChainSound, Sound, D!Memory
  \* The chains that are left, in the old memory.
  <1>5. ASSUME NEW w \in DOMAIN lists', NEW b \in Bucket
        PROVE  /\ Chain(word, lists'[w].table[b]) = {x \in Chain(word, lists[w].table[b]) : x < where}
               /\ Down(word, lists'[w].table[b]) /\ lists'[w].table[b] \in 0..MaxMem
    <2>1. w \in DOMAIN lists
      BY <1>2
    <2>2. CASE w # current
      <3>1. lists'[w] = lists[w] /\ \A x \in Words(w) : x < where
        BY <1>2, <2>2
      <3> QED
        BY <1>4, <2>1, <3>1
    <2>3. CASE w = current
      <3>1. PICK t \in [Bucket -> 0..MaxMem] : t = lists[w].table
        BY <1>4, <2>1
      <3>2. PICK m : m = DictKept(t, where, b)
        OBVIOUS
      <3>3. m = lists'[w].table[b] /\ m \in 0..MaxMem
        BY <1>2, <2>3, <3>1, <3>2, KeptIs
      <3>4. /\ t[b] \in 0..MaxMem /\ Down(word, t[b])
            /\ \A x \in Chain(word, t[b]) : x \in 1..MaxMem
        BY <1>4, <2>1, <3>1
      <3>5. CASE m = 0
        <4>1. \A x \in Chain(word, t[b]) : x >= where
          BY <1>2, <3>2, <3>5, KeptIs
        <4>2. \A x \in Chain(word, t[b]) : ~(x < where)
          <5> TAKE x \in Chain(word, t[b])
          <5>1. x \in Nat /\ x >= where
            BY <3>4, <4>1
          <5> QED
            BY <1>3, <5>1
        <4>3. Chain(word, m) = {} /\ Down(word, m)
          BY <3>5, ChainEmpty
        <4> QED
          BY <3>1, <3>3, <4>2, <4>3
      <3>6. CASE m # 0
        <4>1. /\ m \in Chain(word, t[b]) /\ m < where
              /\ \A x \in Chain(word, t[b]) : x < where => x <= m
          BY <1>2, <3>2, <3>6, KeptIs
        <4>2. Chain(word, m) = {x \in Chain(word, t[b]) : x < where} /\ Down(word, m)
          BY <1>3, <3>4, <4>1, ChainCut, ChainRest
        <4> QED
          BY <3>1, <3>3, <4>2
      <3> QED
        BY <3>5, <3>6
    <2> QED
      BY <2>2, <2>3
  \* And in the new one.
  <1>6. ASSUME NEW w \in DOMAIN lists', NEW b \in Bucket
        PROVE  /\ Chain(word', lists'[w].table[b]) = {x \in Chain(word, lists[w].table[b]) : x < where}
               /\ Down(word', lists'[w].table[b])
    <2>1. PICK h \in 0..MaxMem : h = lists'[w].table[b]
      BY <1>5
    <2>2. Down(word, h) /\ Chain(word, h) = {x \in Chain(word, lists[w].table[b]) : x < where}
      BY <1>5, <2>1
    <2>3. \A x \in Chain(word, h) : x \in D!Memory /\ x < where
      BY <1>2, <1>4, <2>2 DEF D!Memory
    <2>4. \A x \in Chain(word, h) : word'[x].link = word[x].link
      BY <1>2, <2>3
    <2>5. Chain(word', h) = Chain(word, h) /\ Down(word', h)
      BY <2>2, <2>4, ChainAgree
    <2> QED
      BY <2>1, <2>2, <2>5
  <1>7. ASSUME NEW w \in DOMAIN lists', NEW b \in Bucket PROVE ChainSound(w, b)'
    <2>1. ASSUME NEW x \in Chain(word, lists[w].table[b]), x < where
          PROVE  /\ x < here_' /\ x <= smudge' /\ ~word'[x].smudged
                 /\ word'[x].name \in Name /\ BucketOf[word'[x].name] = b
      <3>1. w \in DOMAIN lists /\ ChainSound(w, b)
        BY <1>2 DEF Sound
      <3>2. word'[x] = word[x]
        BY <1>2, <1>4, <2>1, <3>1 DEF D!Memory
      <3> QED
        BY <1>2, <2>1, <3>1, <3>2 DEF ChainSound
    <2> QED
      BY <1>6, <2>1 DEF ChainSound
  <1>8. \A w \in DOMAIN lists' : Words(w)' = {x \in Words(w) : x < where}
    <2> TAKE w \in DOMAIN lists'
    <2>1. /\ \A x : x \in Words(w)' <=> \E b \in Bucket : x \in Chain(word', lists'[w].table[b])
          /\ \A x : x \in Words(w) <=> \E b \in Bucket : x \in Chain(word, lists[w].table[b])
      BY DEF Words
    <2>2. \A b \in Bucket : Chain(word', lists'[w].table[b]) = {x \in Chain(word, lists[w].table[b]) : x < where}
      BY <1>6
    <2>3. \A x : x \in Words(w)' <=> x \in Words(w) /\ x < where
      BY <2>1, <2>2
    <2> QED
      BY <2>3
  <1>9. Linked' \subseteq Linked
    BY <1>2, <1>8 DEF Linked
  <1>10. ListsSound'
    <2>1. Forth \in DOMAIN lists' /\ lists'[Forth].at = 0
      BY <1>2, <1>3 DEF Sound, ListsSound
    <2>2. \A w \in DOMAIN lists' : lists'[w].at < here_' /\ lists'[w].parent \in DOMAIN lists' \cup {NoWid}
      BY <1>2
    <2> QED
      BY <1>2, <2>1, <2>2 DEF ListsSound
  <1>11. ListsBetween'
    <2> SUFFICES ASSUME NEW w \in DOMAIN lists', NEW x \in Words(w)', NEW y \in Linked', x < y
                 PROVE  lists'[w].at < y
      BY DEF ListsBetween
    <2>1. w \in DOMAIN lists /\ x \in Words(w) /\ y \in Linked /\ lists'[w].at = lists[w].at
      BY <1>2, <1>8, <1>9
    <2> QED
      BY <2>1 DEF Sound, ListsBetween
  <1>12. DictInProgress' /\ created' = 0
    BY <1>2 DEF DictInProgress
  <1>13. Sound'
    BY <1>7, <1>10, <1>11, <1>12 DEF Sound
  \* A list that goes has no word before where.
  <1>14. \A w \in DOMAIN lists \ DOMAIN lists' : \A x \in Words(w) : ~(x < where)
    <2> TAKE w \in DOMAIN lists \ DOMAIN lists'
    <2>1. ~(lists[w].at < where)
      BY <1>2
    <2> QED
      BY <1>2, <2>1 DEF Sound, ListsBetween
  <1>15. Defs' = {d \in Defs : d.at < where}
    <2>1. \A w \in DOMAIN lists : \A x \in Words(w) : x < where => word'[x].name = word[x].name
      <3> TAKE w \in DOMAIN lists
      <3>1. Words(w) \subseteq D!Memory
        BY WordsIn DEF Sound
      <3> QED
        BY <1>2, <3>1
    <2>2. /\ \A d : d \in Defs <=> \E w \in DOMAIN lists : \E x \in Words(w) :
                       d = [at |-> x, name |-> word[x].name, wid |-> w]
          /\ \A d : d \in Defs' <=> \E w \in DOMAIN lists' : \E x \in Words(w)' :
                       d = [at |-> x, name |-> word'[x].name, wid |-> w]
      BY DEF Defs
    <2>3. ASSUME NEW d \in Defs' PROVE d \in Defs /\ d.at < where
      <3>1. PICK w \in DOMAIN lists' : \E x \in Words(w)' : d = [at |-> x, name |-> word'[x].name, wid |-> w]
        BY <2>2
      <3>2. PICK x \in Words(w)' : d = [at |-> x, name |-> word'[x].name, wid |-> w]
        BY <3>1
      <3>3. w \in DOMAIN lists /\ x \in Words(w) /\ x < where
        BY <1>2, <1>8, <3>2
      <3> QED
        BY <2>1, <2>2, <3>2, <3>3
    <2>4. ASSUME NEW d \in Defs, d.at < where PROVE d \in Defs'
      <3>1. PICK w \in DOMAIN lists : \E x \in Words(w) : d = [at |-> x, name |-> word[x].name, wid |-> w]
        BY <2>2
      <3>2. PICK x \in Words(w) : d = [at |-> x, name |-> word[x].name, wid |-> w]
        BY <3>1
      <3>3. x < where
        BY <2>4, <3>2
      <3>4. w \in DOMAIN lists' /\ x \in Words(w)'
        BY <1>8, <1>14, <3>2, <3>3
      <3> QED
        BY <2>1, <2>2, <3>2, <3>3, <3>4
    <2> QED
      BY <2>3, <2>4
  <1>16. D!Names!Meaning(n) = where /\ where # 0
    BY <1>1, <1>3, LookupIs
  <1>17. D!Names!Next
    BY <1>2, <1>15, <1>16, ForgetIs
  <1> QED
    BY <1>13, <1>17 DEF D!NamesStep

-----------------------------------------------------------------------------
(* The dictionary as a whole. *)

\* At first there is one word list, without words.
LEMMA DictInit ==
    ASSUME D!Init
    PROVE  DictInv /\ D!Names!Init
  <1>1. /\ here_ = 1 /\ word = [a \in D!Memory |-> D!Blank]
        /\ lists = [w \in {Forth} |-> [at |-> 0, table |-> D!ficlHashReset, parent |-> NoWid]]
        /\ order = <<Forth>> /\ current = Forth
        /\ smudge = 0 /\ mode = "interpret" /\ begun = 0 /\ created = 0 /\ broken = "no"
    BY DEF D!Init
  <1>2. MaxMem \in Nat /\ MAX_WORDLISTS \in Nat \ {0} /\ Forth \in Wid /\ NoWid \notin Wid
    BY DictAssumption
  <1>3. DOMAIN lists = {Forth} /\ lists[Forth] = [at |-> 0, table |-> D!ficlHashReset, parent |-> NoWid]
    BY <1>1
  <1>4. lists[Forth] \in WordList /\ \A b \in Bucket : lists[Forth].table[b] = 0
    BY <1>2, <1>3 DEF WordList, D!ficlHashReset
  <1>5. word \in [D!Memory -> Header]
    <2>1. D!Blank \in Header
      BY <1>2 DEF D!Blank, Header
    <2> QED
      BY <1>1, <2>1
  <1>6. order \in Seq(Wid) /\ Len(order) = 1 /\ DOMAIN order = {1} /\ order[1] = Forth
    <2>1. PICK o : o = <<Forth>>
      OBVIOUS
    <2>2. o \in Seq(Wid) /\ Len(o) = 1 /\ DOMAIN o = {1} /\ o[1] = Forth
      BY <1>2, <2>1
    <2> QED
      BY <1>1, <2>1, <2>2
  <1>7. D!TypeOK
    <2>1. here_ \in 1..(MaxMem + 1) /\ smudge \in 0..MaxMem /\ Len(order) <= MAX_WORDLISTS
      BY <1>1, <1>2, <1>6
    <2> QED
      BY <1>1, <1>2, <1>3, <1>4, <1>5, <1>6, <2>1 DEF D!TypeOK, Header, WordList
  <1>8. \A w \in DOMAIN lists, b \in Bucket : Chain(word, lists[w].table[b]) = {} /\ ChainSound(w, b)
    <2> TAKE w \in DOMAIN lists, b \in Bucket
    <2>1. lists[w].table[b] = 0
      BY <1>3, <1>4
    <2> QED
      BY <2>1, ChainEmpty DEF ChainSound
  <1>9. Words(Forth) = {} /\ Linked = {}
    BY <1>3, <1>8 DEF Words, Linked
  <1>10. ListsSound /\ ListsBetween /\ DictInProgress /\ created = 0
    BY <1>1, <1>3, <1>6, <1>9 DEF ListsSound, ListsBetween, DictInProgress
  <1>11. D!Names!Init
    <2>1. Defs = {}
      BY <1>3, <1>9 DEF Defs
    <2>2. [w \in Wid |-> IF w \in DOMAIN lists THEN lists[w].parent ELSE NoWid] = [w \in Wid |-> NoWid]
      BY <1>3
    <2> QED
      BY <1>6, <2>1, <2>2 DEF D!Names!Init, Defs, Words, D!ChainFrom, Chain, Walk, Steps
  <1> QED
    BY <1>7, <1>8, <1>10, <1>11 DEF DictInv, Sound

\* Every step of the dictionary keeps the invariant and is one of the abstract dictionary.
LEMMA DictStep ==
    ASSUME DictInv, D!Next
    PROVE  DictInv' /\ D!NamesStep
  <1>1. broken = "no" /\ D!TypeOK /\ Sound /\ D!Step
    BY DEF DictInv, D!Next
  <1> DEFINE Keeps == D!TypeOK' /\ (broken' = "no" => Sound') /\ D!NamesStep
  <1>2. ASSUME NEW n \in Name, D!Colon(n) PROVE Keeps
    BY <1>1, <1>2, ColonKeeps
  <1>3. ASSUME D!Colon(Nameless) PROVE Keeps
    BY <1>1, <1>3, ColonKeeps
  <1>4. ASSUME NEW n \in Name, D!Create(n) PROVE Keeps
    BY <1>1, <1>4, MadeKeeps DEF D!Create
  <1>5. ASSUME NEW n \in Symbol, D!MakeSymbol(n) PROVE Keeps
    <2>1. n \in Name
      BY DictAssumption
    <2> QED
      BY <1>1, <1>5, <2>1, MadeKeeps DEF D!MakeSymbol
  <1>6. ASSUME NEW n \in Name, D!Forget(n) PROVE Keeps
    BY <1>1, <1>6, ForgetKeeps
  <1>7. ASSUME D!Semicolon PROVE Keeps
    BY <1>1, <1>7, SemicolonKeeps
  <1>8. ASSUME D!Does PROVE Keeps
    BY <1>1, <1>8, DoesKeeps
  <1>9. ASSUME NEW w \in Wid, D!MakeWordlist(w) PROVE Keeps
    BY <1>1, <1>9, MakeWordlistKeeps
  <1>10. ASSUME NEW p \in Wid, NEW c \in Wid, D!SetParent(p, c) PROVE Keeps
    BY <1>1, <1>10, SetParentKeeps
  <1>11. ASSUME \/ \E w \in Wid : D!SetCurrent(w) \/ D!SearchPush(w)
                \/ \E s \in D!Orders : D!SetOrder(s)
                \/ D!SetOrderMinimum \/ D!Definitions \/ D!SearchPop \/ D!Error \/ D!Quit
         PROVE Keeps
    BY <1>1, <1>11, ArrangeKeeps
  <1> HIDE DEF Keeps
  <1>12. Keeps
    BY <1>1, <1>2, <1>3, <1>4, <1>5, <1>6, <1>7, <1>8, <1>9, <1>10, <1>11 DEF D!Step
  <1> QED
    BY <1>12 DEF Keeps, DictInv

\* A step that is not the dictionary's leaves it as it is.
LEMMA DictStill ==
    ASSUME DictInv, UNCHANGED dict
    PROVE  DictInv'
  <1>1. D!TypeOK'
    BY DEF DictInv, dict, D!TypeOK
  <1>2. ASSUME Sound PROVE Sound'
    <2>1. \A w \in DOMAIN lists', b \in Bucket : ChainSound(w, b)'
      BY <1>2 DEF dict, Sound, ChainSound
    <2>2. ListsSound'
      BY <1>2 DEF dict, Sound, ListsSound
    <2>3. ListsBetween'
      BY <1>2 DEF dict, Sound, ListsBetween, Words, Linked
    <2>4. DictInProgress'
      BY <1>2 DEF dict, Sound, DictInProgress, Words
    <2> QED
      BY <1>2, <2>1, <2>2, <2>3, <2>4 DEF dict, Sound
  <1> QED
    BY <1>1, <1>2 DEF DictInv, dict

\* Through definitions that are begun, given up and ended, words made inside of
\* them, and word lists and words that are forgotten, chains go down and have only
\* complete words of their bucket, and a definition in progress stays hidden
\* (ficlDictionaryUnsmudge, ficlHashForget).
THEOREM DictInvariant == ForthSpec => []DictInv
  <1>1. ForthInit => DictInv
    BY DictInit DEF ForthInit
  <1>2. DictInv /\ [ForthNext]_<<vars, dict, kind>> => DictInv'
    <2> SUFFICES ASSUME DictInv, [ForthNext]_<<vars, dict, kind>> PROVE DictInv'
      OBVIOUS
    <2>1. CASE D!Next
      BY <2>1, DictStep
    <2>2. CASE UNCHANGED dict
      BY <2>2, DictStill
    <2> QED
      BY <2>1, <2>2 DEF ForthNext
  <1> QED
    BY <1>1, <1>2, PTL DEF ForthSpec

\* Every chain of a word list ends: its addresses go down, in memory in use
\* (ficlHashLookup).
THEOREM ChainsGoDown == ForthSpec => []ChainsEnd
  <1>1. DictInv => ChainsEnd
    <2> SUFFICES ASSUME DictInv PROVE D!TypeOK /\ D!ChainsEnd
      BY DEF ChainsEnd
    <2>1. D!TypeOK
      BY DEF DictInv
    <2>2. ASSUME broken = "no", NEW w \in DOMAIN lists, NEW b \in Bucket, NEW a \in Chain(word, lists[w].table[b])
          PROVE  /\ a < here_ /\ word[a].link < a /\ ~word[a].smudged
                 /\ word[a].name # Nameless /\ BucketOf[word[a].name] = b
      BY <2>2, DictAssumption DEF DictInv, Sound, ChainSound, Down
    <2> QED
      BY <2>1, <2>2, ChainFromIs DEF D!ChainsEnd
  <1> QED
    BY <1>1, DictInvariant, PTL

\* A name means the word defined last in the first list of the search order that
\* has it, itself or by inheritance (ficlDictionaryLookup, ficlHashLookup).
THEOREM LookupFindsMeaning == ForthSpec => []FindsMeaning
  <1>1. DictInv => FindsMeaning
    BY LookupIs DEF DictInv, FindsMeaning, D!FindsMeaning
  <1> QED
    BY <1>1, DictInvariant, PTL

\* Buckets, links and hidden words implement a dictionary of names: a definition
\* shows when it is complete and is newer than all others, and forget takes a word
\* and all that came later (ficlDictionaryUnsmudge, ficlHashForget).
THEOREM ImplementsNames == ForthSpec => RefinesNames
  <1>1. ForthInit => D!Names!Init
    BY DictInit DEF ForthInit
  <1>2. DictInv /\ [ForthNext]_<<vars, dict, kind>> => [kind = "body" \/ D!NamesStep]_dict
    <2> SUFFICES ASSUME DictInv, [ForthNext]_<<vars, dict, kind>>
                 PROVE  D!NamesStep \/ UNCHANGED dict
      OBVIOUS
    <2>1. CASE D!Next
      BY <2>1, DictStep
    <2>2. CASE UNCHANGED dict
      BY <2>2
    <2> QED
      BY <2>1, <2>2 DEF ForthNext
  <1> QED
    BY <1>1, <1>2, DictInvariant, PTL DEF ForthSpec, RefinesNames
=============================================================================
