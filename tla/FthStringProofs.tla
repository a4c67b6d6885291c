--------------------------- MODULE FthStringProofs ---------------------------
(***************************************************************************)
(* Proofs about the strings of FthString, for any characters, any chunk of  *)
(* three cells or more and any length of a buffer.                          *)
(***************************************************************************)
EXTENDS FthString, WellFoundedInduction, TLAPS

-----------------------------------------------------------------------------
(* Strings. *)

STR(l, n, t, b) == [length |-> l, buf_length |-> n, top |-> t, buf |-> b]
\* A record whose buffer has as many cells as it says.
IsRaw(s) ==
    /\ s = STR(s.length, s.buf_length, s.top, s.buf)
    /\ s.length \in Nat /\ s.buf_length \in Nat /\ s.top \in Nat
    /\ s.buf \in [0..(s.buf_length - 1) -> Cell]
\* One whose data, with the NUL, are in it.
IsSized(s) ==
    /\ IsRaw(s) /\ s.top >= 1 /\ s.top + s.length + 1 <= s.buf_length
    /\ DEFAULT_SEQ_LENGTH <= s.buf_length
StringInv == IsSized(str) /\ (answer = None \/ answer[1] \in Kinds)

\* NEW_SEQ_LENGTH gives more than it is asked for, and a chunk at least.
LEMMA StrRounding ==
    ASSUME NEW n \in Nat
    PROVE  NewSeqLength(n) \in Nat /\ n < NewSeqLength(n) /\ DEFAULT_SEQ_LENGTH <= NewSeqLength(n)
  <1>1. PICK d \in Nat : d = DEFAULT_SEQ_LENGTH /\ d >= 3
    BY StringAssumption
  <1>2. PICK q \in Nat : q = n \div d /\ q * d <= n /\ n < (q + 1) * d
    BY <1>1
  <1>3. d <= (q + 1) * d /\ (q + 1) * d \in Nat
    BY <1>1, <1>2
  <1> QED
    BY <1>1, <1>2, <1>3 DEF NewSeqLength

\* A third and a half of a buffer.
LEMMA Thirds ==
    ASSUME NEW n \in Nat
    PROVE  /\ n \div 3 \in Nat /\ 3 * (n \div 3) <= n /\ n < 3 * (n \div 3) + 3
           /\ n \div 2 \in Nat /\ 2 * (n \div 2) <= n /\ n <= 2 * (n \div 2) + 1
  OBVIOUS

\* What makes one.
LEMMA RawIs ==
    ASSUME NEW l \in Nat, NEW n \in Nat, NEW t \in Nat, NEW b \in [0..(n - 1) -> Cell]
    PROVE  /\ IsRaw(STR(l, n, t, b)) /\ STR(l, n, t, b).length = l /\ STR(l, n, t, b).buf_length = n
           /\ STR(l, n, t, b).top = t /\ STR(l, n, t, b).buf = b
  BY DEF IsRaw, STR

\* The record with another buffer.
LEMMA EditBuf ==
    ASSUME NEW s, IsRaw(s), NEW b
    PROVE  [s EXCEPT !.buf = b] = STR(s.length, s.buf_length, s.top, b)
  <1>1. PICK x, y, z, w : x = s.length /\ y = s.buf_length /\ z = s.top /\ w = s.buf
    OBVIOUS
  <1>2. s = [length |-> x, buf_length |-> y, top |-> z, buf |-> w]
    BY <1>1 DEF IsRaw, STR
  <1>3. PICK e : e = [s EXCEPT !.buf = b]
    OBVIOUS
  <1>4. /\ e = [f \in {"length", "buf_length", "top", "buf"} |-> e[f]]
        /\ e.length = x /\ e.buf_length = y /\ e.top = z /\ e.buf = b
    BY <1>2, <1>3
  <1> QED
    BY <1>1, <1>3, <1>4 DEF STR

\* Another length.
LEMMA EditLength ==
    ASSUME NEW s, IsRaw(s), NEW l
    PROVE  [s EXCEPT !.length = l] = STR(l, s.buf_length, s.top, s.buf)
  <1>1. PICK x, y, z, w : x = s.length /\ y = s.buf_length /\ z = s.top /\ w = s.buf
    OBVIOUS
  <1>2. s = [length |-> x, buf_length |-> y, top |-> z, buf |-> w]
    BY <1>1 DEF IsRaw, STR
  <1>3. PICK e : e = [s EXCEPT !.length = l]
    OBVIOUS
  <1>4. /\ e = [f \in {"length", "buf_length", "top", "buf"} |-> e[f]]
        /\ e.length = l /\ e.buf_length = y /\ e.top = z /\ e.buf = w
    BY <1>2, <1>3
  <1> QED
    BY <1>1, <1>3, <1>4 DEF STR

\* Both.
LEMMA EditData ==
    ASSUME NEW s, IsRaw(s), NEW l, NEW b
    PROVE  [s EXCEPT !.buf = b, !.length = l] = STR(l, s.buf_length, s.top, b)
  <1>1. PICK x, y, z, w : x = s.length /\ y = s.buf_length /\ z = s.top /\ w = s.buf
    OBVIOUS
  <1>2. s = [length |-> x, buf_length |-> y, top |-> z, buf |-> w]
    BY <1>1 DEF IsRaw, STR
  <1>3. PICK e : e = [s EXCEPT !.buf = b, !.length = l]
    OBVIOUS
  <1>4. /\ e = [f \in {"length", "buf_length", "top", "buf"} |-> e[f]]
        /\ e.length = l /\ e.buf_length = y /\ e.top = z /\ e.buf = b
    BY <1>2, <1>3
  <1> QED
    BY <1>1, <1>3, <1>4 DEF STR

\* Both, in the other order.
LEMMA EditLengthBuf ==
    ASSUME NEW s, IsRaw(s), NEW l, NEW b
    PROVE  [s EXCEPT !.length = l, !.buf = b] = STR(l, s.buf_length, s.top, b)
  <1>1. PICK x, y, z, w : x = s.length /\ y = s.buf_length /\ z = s.top /\ w = s.buf
    OBVIOUS
  <1>2. s = [length |-> x, buf_length |-> y, top |-> z, buf |-> w]
    BY <1>1 DEF IsRaw, STR
  <1>3. PICK e : e = [s EXCEPT !.length = l, !.buf = b]
    OBVIOUS
  <1>4. /\ e = [f \in {"length", "buf_length", "top", "buf"} |-> e[f]]
        /\ e.length = l /\ e.buf_length = y /\ e.top = z /\ e.buf = b
    BY <1>2, <1>3
  <1> QED
    BY <1>1, <1>3, <1>4 DEF STR

\* All three, in one order or another.
Placed(s, t, l, b) == [s EXCEPT !.top = t, !.length = l, !.buf = b]
Shifted(s, b, t, l) == [s EXCEPT !.buf = b, !.top = t, !.length = l]

\* Placed is that record,
LEMMA EditTop ==
    ASSUME NEW s, IsRaw(s), NEW l, NEW t, NEW b
    PROVE  Placed(s, t, l, b) = STR(l, s.buf_length, t, b)
  <1>1. PICK x, y, z, w : x = s.length /\ y = s.buf_length /\ z = s.top /\ w = s.buf
    OBVIOUS
  <1>2. s = [length |-> x, buf_length |-> y, top |-> z, buf |-> w]
    BY <1>1 DEF IsRaw, STR
  <1>3. PICK e : e = [s EXCEPT !.top = t, !.length = l, !.buf = b]
    OBVIOUS
  <1>4. /\ e = [f \in {"length", "buf_length", "top", "buf"} |-> e[f]]
        /\ e.length = l /\ e.buf_length = y /\ e.top = t /\ e.buf = b
    BY <1>2, <1>3
  <1> QED
    BY <1>1, <1>3, <1>4 DEF STR, Placed

\* and so is Shifted.
LEMMA EditBufTop ==
    ASSUME NEW s, IsRaw(s), NEW l, NEW t, NEW b
    PROVE  Shifted(s, b, t, l) = STR(l, s.buf_length, t, b)
  <1>1. PICK x, y, z, w : x = s.length /\ y = s.buf_length /\ z = s.top /\ w = s.buf
    OBVIOUS
  <1>2. s = [length |-> x, buf_length |-> y, top |-> z, buf |-> w]
    BY <1>1 DEF IsRaw, STR
  <1>3. PICK e : e = [s EXCEPT !.buf = b, !.top = t, !.length = l]
    OBVIOUS
  <1>4. /\ e = [f \in {"length", "buf_length", "top", "buf"} |-> e[f]]
        /\ e.length = l /\ e.buf_length = y /\ e.top = t /\ e.buf = b
    BY <1>2, <1>3
  <1> QED
    BY <1>1, <1>3, <1>4 DEF STR, Shifted

\* With a buffer of another length.
LEMMA EditRoom ==
    ASSUME NEW s, IsRaw(s), NEW n, NEW b
    PROVE  [s EXCEPT !.buf_length = n, !.buf = b] = STR(s.length, n, s.top, b)
  <1>1. PICK x, y, z, w : x = s.length /\ y = s.buf_length /\ z = s.top /\ w = s.buf
    OBVIOUS
  <1>2. s = [length |-> x, buf_length |-> y, top |-> z, buf |-> w]
    BY <1>1 DEF IsRaw, STR
  <1>3. PICK e : e = [s EXCEPT !.buf_length = n, !.buf = b]
    OBVIOUS
  <1>4. /\ e = [f \in {"length", "buf_length", "top", "buf"} |-> e[f]]
        /\ e.length = x /\ e.buf_length = n /\ e.top = z /\ e.buf = b
    BY <1>2, <1>3
  <1> QED
    BY <1>1, <1>3, <1>4 DEF STR

-----------------------------------------------------------------------------
(* Buffers. *)

\* Whatever is read, moved, stored, kept or given room.
LEMMA StrReads == ASSUME NEW n \in Nat, NEW b \in [0..(n - 1) -> Cell], NEW j PROVE Rd(b, j) \in Cell
  BY DEF Rd, Cell

\* A write inside the block makes no other cells.
LEMMA WrittenInside ==
    ASSUME NEW n \in Nat, NEW b \in [0..(n - 1) -> Cell], NEW at \in Nat, NEW k \in Nat, at + k <= n
    PROVE  Written(b, at, k) = 0..(n - 1)
  <1>1. at..(at + k - 1) \subseteq 0..(n - 1)
    OBVIOUS
  <1>2. DOMAIN b = 0..(n - 1)
    OBVIOUS
  <1> QED
    BY <1>1, <1>2 DEF Written

\* Buffers stay buffers when cells are moved inside of them,
LEMMA StrMoved ==
    ASSUME NEW n \in Nat, NEW b \in [0..(n - 1) -> Cell], NEW i \in Nat, NEW j, NEW k \in Nat, i + k <= n
    PROVE  MemMove(b, i, j, k) \in [0..(n - 1) -> Cell]
  <1>1. \A x : Rd(b, x) \in Cell
    BY StrReads
  <1>2. Written(b, i, k) = 0..(n - 1)
    BY WrittenInside
  <1> QED
    BY <1>1, <1>2 DEF MemMove

\* kept, or given other room.
LEMMA StrBuffers ==
    ASSUME NEW n \in Nat, NEW b \in [0..(n - 1) -> Cell], NEW i, NEW k
    PROVE  /\ Keep(b, i, k) \in [0..(n - 1) -> Cell]
           /\ \A m \in Nat : Realloc(b, m) \in [0..(m - 1) -> Cell]
           /\ Fresh(n) \in [0..(n - 1) -> Cell]
  <1>1. \A x : Rd(b, x) \in Cell
    BY StrReads
  <1>2. \A x \in DOMAIN b : b[x] \in Cell
    OBVIOUS
  <1>3. Junk \in Cell
    BY DEF Cell
  <1>5. Keep(b, i, k) \in [0..(n - 1) -> Cell]
    BY <1>2, <1>3 DEF Keep
  <1>4. \A m \in Nat : 0..(m - 1) \cup (DOMAIN b \cap {Beyond}) = 0..(m - 1)
    BY DEF Beyond
  <1>6. \A m \in Nat : Realloc(b, m) \in [0..(m - 1) -> Cell]
    BY <1>1, <1>4 DEF Realloc
  <1>7. Fresh(n) \in [0..(n - 1) -> Cell]
    BY <1>3 DEF Fresh
  <1> QED
    BY <1>5, <1>6, <1>7

\* What is stored in them.
LEMMA StrStored ==
    ASSUME NEW n \in Nat, NEW b \in [0..(n - 1) -> Cell], NEW at \in Nat, NEW t \in Seq(Cell), at + Len(t) <= n
    PROVE  Store(b, at, t) \in [0..(n - 1) -> Cell]
  <1>1. \A j \in 0..(n - 1) : at <= j /\ j < at + Len(t) => j - at + 1 \in 1..Len(t) /\ t[j - at + 1] \in Cell
    OBVIOUS
  <1>2. \A j \in 0..(n - 1) : Rd(b, j) \in Cell
    BY StrReads
  <1>3. \A j \in 0..(n - 1) : (IF at <= j /\ j < at + Len(t) THEN t[j - at + 1] ELSE Rd(b, j)) \in Cell
    BY <1>1, <1>2
  <1>4. Len(t) \in Nat
    OBVIOUS
  <1>5. Written(b, at, Len(t)) = 0..(n - 1)
    BY <1>4, WrittenInside
  <1> QED
    BY <1>3, <1>5 DEF Store

\* The NUL, and the cells outside of the data.
LEMMA EndsRaw ==
    ASSUME NEW s, IsRaw(s), s.top + s.length + 1 <= s.buf_length
    PROVE  /\ IsRaw(Terminate(s)) /\ Terminate(s).length = s.length /\ Terminate(s).top = s.top
           /\ Terminate(s).buf_length = s.buf_length
           /\ IsRaw(Settle(s)) /\ Settle(s).length = s.length /\ Settle(s).top = s.top
           /\ Settle(s).buf_length = s.buf_length
  <1>1. /\ s.length \in Nat /\ s.buf_length \in Nat /\ s.top \in Nat /\ s.buf \in [0..(s.buf_length - 1) -> Cell]
    BY DEF IsRaw
  <1>2. PICK nul \in Seq(Cell) : nul = <<Nul>> /\ Len(nul) = 1
    <2>1. Nul \in Cell
      BY DEF Cell
    <2>2. <<Nul>> \in Seq(Cell)
      BY <2>1
    <2> QED
      BY <2>2
  <1>3. PICK at \in Nat : at = s.top + s.length /\ at + Len(nul) <= s.buf_length
    BY <1>1, <1>2
  <1>4. PICK b \in [0..(s.buf_length - 1) -> Cell] : b = Store(s.buf, at, nul)
    BY <1>1, <1>3, StrStored
  <1>5. PICK k \in [0..(s.buf_length - 1) -> Cell] : k = Keep(s.buf, s.top, s.length + 1)
    BY <1>1, StrBuffers
  <1>6. Terminate(s) = [s EXCEPT !.buf = b] /\ Settle(s) = [s EXCEPT !.buf = k]
    BY <1>2, <1>3, <1>4, <1>5 DEF Terminate, Settle
  <1>7. Terminate(s) = STR(s.length, s.buf_length, s.top, b) /\ Settle(s) = STR(s.length, s.buf_length, s.top, k)
    BY <1>6, EditBuf
  <1>8. PICK l \in Nat, n \in Nat, t \in Nat : l = s.length /\ n = s.buf_length /\ t = s.top
    BY <1>1
  <1> QED
    <2>1. b \in [0..(n - 1) -> Cell] /\ k \in [0..(n - 1) -> Cell]
      BY <1>4, <1>5, <1>8
    <2>2. Terminate(s) = STR(l, n, t, b) /\ Settle(s) = STR(l, n, t, k)
      BY <1>7, <1>8
    <2>3. /\ IsRaw(STR(l, n, t, b)) /\ STR(l, n, t, b).length = l /\ STR(l, n, t, b).buf_length = n
          /\ STR(l, n, t, b).top = t
      BY <2>1, RawIs
    <2>4. /\ IsRaw(STR(l, n, t, k)) /\ STR(l, n, t, k).length = l /\ STR(l, n, t, k).buf_length = n
          /\ STR(l, n, t, k).top = t
      BY <2>1, RawIs
    <2> QED
      BY <1>8, <2>2, <2>3, <2>4

\* What is both is as sized as it was.
LEMMA EndsSized ==
    ASSUME NEW s, IsSized(s)
    PROVE  IsSized(Terminate(s)) /\ IsSized(Settle(s)) /\ IsSized(Settle(Terminate(s)))
  <1>1. \A x : IsSized(x) => x.top + x.length + 1 <= x.buf_length
    BY DEF IsSized
  <1>2. \A x : IsSized(x) => IsSized(Terminate(x)) /\ IsSized(Settle(x))
    BY <1>1, EndsRaw DEF IsSized
  <1> QED
    BY <1>2

\* realloc.
LEMMA ResizeRaw ==
    ASSUME NEW s, IsRaw(s), NEW n \in Nat
    PROVE  /\ IsRaw(Resize(s, n)) /\ Resize(s, n).length = s.length /\ Resize(s, n).top = s.top
           /\ Resize(s, n).buf_length = n
  <1>1. /\ s.length \in Nat /\ s.buf_length \in Nat /\ s.top \in Nat /\ s.buf \in [0..(s.buf_length - 1) -> Cell]
    BY DEF IsRaw
  <1>2. PICK b \in [0..(n - 1) -> Cell] : b = Realloc(s.buf, n)
    BY <1>1, StrBuffers
  <1>3. Resize(s, n) = [s EXCEPT !.buf_length = n, !.buf = b]
    BY <1>2 DEF Resize
  <1>4. PICK l \in Nat, t \in Nat : l = s.length /\ t = s.top
    BY <1>1
  <1>5. Resize(s, n) = STR(l, n, t, b)
    <2>1. [s EXCEPT !.buf_length = n, !.buf = b] = STR(s.length, n, s.top, b)
      BY EditRoom
    <2> QED
      BY <1>3, <1>4, <2>1
  <1>6. /\ IsRaw(STR(l, n, t, b)) /\ STR(l, n, t, b).length = l /\ STR(l, n, t, b).buf_length = n
        /\ STR(l, n, t, b).top = t
    BY RawIs
  <1> QED
    BY <1>4, <1>5, <1>6

\* Growing makes room for what is asked for.
LEMMA GrowRaw ==
    ASSUME NEW s, IsRaw(s), DEFAULT_SEQ_LENGTH <= s.buf_length, NEW need \in Nat
    PROVE  /\ IsRaw(Grow(s, need)) /\ Grow(s, need).length = s.length /\ Grow(s, need).top = s.top
           /\ need <= Grow(s, need).buf_length /\ DEFAULT_SEQ_LENGTH <= Grow(s, need).buf_length
  <1>1. PICK m \in Nat : m = NewSeqLength(need) /\ need < m /\ DEFAULT_SEQ_LENGTH <= m
    BY StrRounding
  <1>4. s.buf_length \in Nat /\ IsRaw(Resize(s, m)) /\ Resize(s, m).length = s.length
        /\ Resize(s, m).top = s.top /\ Resize(s, m).buf_length = m
    BY ResizeRaw DEF IsRaw
  <1>2. CASE need > s.buf_length
    BY <1>1, <1>2, <1>4 DEF Grow
  <1>3. CASE ~(need > s.buf_length)
    BY <1>1, <1>3, <1>4, StringAssumption DEF Grow
  <1> QED
    BY <1>2, <1>3

\* Shrinking leaves one cell more than is said to be used.
LEMMA ShrinkRaw ==
    ASSUME NEW s, IsRaw(s), DEFAULT_SEQ_LENGTH <= s.buf_length, NEW used \in Nat, used + 1 <= s.buf_length
    PROVE  /\ IsRaw(Shrink(s, used)) /\ Shrink(s, used).length = s.length /\ Shrink(s, used).top = s.top
           /\ used + 1 <= Shrink(s, used).buf_length /\ DEFAULT_SEQ_LENGTH <= Shrink(s, used).buf_length
  <1>1. PICK m \in Nat : m = NewSeqLength(used) /\ used < m /\ DEFAULT_SEQ_LENGTH <= m
    BY StrRounding
  <1>4. s.buf_length \in Nat /\ IsRaw(Resize(s, m)) /\ Resize(s, m).length = s.length
        /\ Resize(s, m).top = s.top /\ Resize(s, m).buf_length = m
    BY ResizeRaw DEF IsRaw
  <1>2. CASE NewSeqLength(used) < s.buf_length
    BY <1>1, <1>2, <1>4 DEF Shrink
  <1>3. CASE ~(NewSeqLength(used) < s.buf_length)
    BY <1>1, <1>3, <1>4, StringAssumption DEF Shrink
  <1> QED
    BY <1>2, <1>3


-----------------------------------------------------------------------------
(* Recursion on the naturals. *)

\* A nonempty set of naturals has a least element (NatLessThanWellFounded).
LEMMA Least ==
    ASSUME NEW P \in SUBSET Nat, P # {}
    PROVE  \E k \in P : \A j \in P : k <= j
  <1>1. PICK k \in P : \A j \in P : ~(<<j, k>> \in OpToRel(<, Nat))
    BY WFMin, NatLessThanWellFounded
  <1>2. \A j \in P : ~(j < k)
    BY <1>1 DEF OpToRel
  <1> QED
    BY <1>2

\* Induction up to N: a set that holds 0 and with each number below N the next one.
LEMMA UpTo ==
    ASSUME NEW N \in Nat, NEW P, 0 \in P, \A n \in 1..N : n - 1 \in P => n \in P
    PROVE  \A n \in 0..N : n \in P
  <1> SUFFICES ASSUME (0..N) \ P # {} PROVE FALSE
    OBVIOUS
  <1>1. PICK k \in (0..N) \ P : \A j \in (0..N) \ P : k <= j
    BY Least, (0..N) \ P \in SUBSET Nat
  <1>2. k \in 1..N /\ k - 1 \in 0..N /\ ~(k <= k - 1)
    BY <1>1
  <1>3. k - 1 \in P
    BY <1>1, <1>2
  <1> QED
    BY <1>1, <1>2, <1>3

\* The values of a recursive function stay in a set that each step keeps.
LEMMA Stays ==
    ASSUME NEW N \in Nat, NEW Dom, NEW f, f[0] \in Dom, \A n \in 1..N : f[n - 1] \in Dom => f[n] \in Dom
    PROVE  f[N] \in Dom
  <1> DEFINE P == {n \in 0..N : f[n] \in Dom}
  <1>1. 0 \in P /\ \A n \in 1..N : n - 1 \in P => n \in P
    OBVIOUS
  <1> HIDE DEF P
  <1>2. \A n \in 0..N : n \in P
    BY <1>1, UpTo
  <1>3. N \in P
    BY <1>2
  <1> QED
    BY <1>3 DEF P

\* g follows the steps from base, the first n of them.
Follows(base, step, n, g) == g = [k \in 0..n |-> IF k = 0 THEN base ELSE step[k][g[k - 1]]]

\* The function that a sequence of steps defines, and what its values are.
LEMMA Recursive ==
    ASSUME NEW N \in Nat, NEW Dom, NEW base \in Dom, NEW step \in [1..N -> [Dom -> Dom]]
    PROVE  \E g \in [0..N -> Dom] : Follows(base, step, N, g)
  <1> DEFINE P == {n \in 0..N : \E g \in [0..n -> Dom] : Follows(base, step, n, g)}
  <1>1. 0 \in P
    <2>1. PICK g : g = [k \in 0..0 |-> base]
      OBVIOUS
    <2>2. g \in [0..0 -> Dom] /\ Follows(base, step, 0, g)
      BY <2>1 DEF Follows
    <2> QED
      BY <2>2
  <1>2. \A n \in 1..N : n - 1 \in P => n \in P
    <2> SUFFICES ASSUME NEW n \in 1..N, n - 1 \in P PROVE n \in P
      OBVIOUS
    <2>1. PICK g \in [0..(n - 1) -> Dom] : Follows(base, step, n - 1, g)
      OBVIOUS
    <2>2. n - 1 \in 0..(n - 1) /\ step[n] \in [Dom -> Dom]
      OBVIOUS
    <2>3. PICK x \in Dom : x = step[n][g[n - 1]]
      BY <2>2
    <2>4. PICK h : h = [k \in 0..n |-> IF k = n THEN x ELSE g[k]]
      OBVIOUS
    <2>5. \A k \in 0..(n - 1) : h[k] = g[k]
      BY <2>4
    <2>6. h \in [0..n -> Dom] /\ h[n] = x
      BY <2>4
    <2>7. \A k \in 0..n : h[k] = IF k = 0 THEN base ELSE step[k][h[k - 1]]
      <3> SUFFICES ASSUME NEW k \in 0..n PROVE h[k] = IF k = 0 THEN base ELSE step[k][h[k - 1]]
        OBVIOUS
      <3>1. CASE k = n
        BY <2>3, <2>5, <2>6, <3>1
      <3>2. CASE k # n
        <4>1. k \in 0..(n - 1) /\ (k # 0 => k - 1 \in 0..(n - 1))
          BY <3>2
        <4>2. g[k] = IF k = 0 THEN base ELSE step[k][g[k - 1]]
          BY <2>1, <4>1 DEF Follows
        <4> QED
          BY <2>5, <4>1, <4>2
      <3> QED
        BY <3>1, <3>2
    <2>8. Follows(base, step, n, h)
      BY <2>6, <2>7 DEF Follows
    <2> QED
      BY <2>6, <2>8
  <1> HIDE DEF P
  <1>3. \A n \in 0..N : n \in P
    BY <1>1, <1>2, UpTo
  <1>4. N \in P
    BY <1>3
  <1> QED
    BY <1>4 DEF P


-----------------------------------------------------------------------------
(* The functions of string.c. *)

\* A string, field by field.
LEMMA StrParts ==
    ASSUME NEW s, IsSized(s)
    PROVE  /\ IsRaw(s) /\ s.length \in Nat /\ s.buf_length \in Nat /\ s.top \in Nat
           /\ s.buf \in [0..(s.buf_length - 1) -> Cell]
           /\ s.top >= 1 /\ s.top + s.length + 1 <= s.buf_length /\ DEFAULT_SEQ_LENGTH <= s.buf_length
           /\ DEFAULT_SEQ_LENGTH \in Nat /\ DEFAULT_SEQ_LENGTH >= 3
  BY StringAssumption DEF IsSized, IsRaw

\* Data put in a buffer that has room for them and a NUL.
LEMMA PutSized ==
    ASSUME NEW l \in Nat, NEW n \in Nat, NEW t \in Nat, NEW b \in [0..(n - 1) -> Cell],
           t >= 1, t + l + 1 <= n, DEFAULT_SEQ_LENGTH <= n
    PROVE  /\ IsSized(STR(l, n, t, b)) /\ IsSized(Settle(STR(l, n, t, b)))
           /\ IsSized(Settle(Terminate(STR(l, n, t, b))))
  <1>1. PICK s : s = STR(l, n, t, b)
    OBVIOUS
  <1>2. IsRaw(s) /\ s.length = l /\ s.buf_length = n /\ s.top = t
    BY <1>1, RawIs
  <1>3. IsSized(s)
    BY <1>2 DEF IsSized
  <1> QED
    BY <1>1, <1>3, EndsSized

\* Chars are cells, and so are the data.
LEMMA CharsAre == ASSUME NEW t \in Seq(Char) PROVE t \in Seq(Cell)
  <1>1. Char \subseteq Cell
    BY DEF Cell
  <1> QED
    BY <1>1

\* The data are cells.
LEMMA StrContents ==
    ASSUME NEW s, IsSized(s)
    PROVE  Contents(s) \in Seq(Cell) /\ Len(Contents(s)) = s.length /\ \A i \in 1..s.length : Contents(s)[i] \in Cell
  <1>1. PICK n \in Nat : n = s.length
    BY StrParts
  <1>2. \A j : Rd(s.buf, j) \in Cell
    BY StrParts, StrReads
  <1>3. Contents(s) = [i \in 1..n |-> Rd(s.buf, s.top + i - 1)]
    BY <1>1 DEF Contents
  <1>4. \A i \in 1..n : Rd(s.buf, s.top + i - 1) \in Cell
    BY <1>2
  <1>5. PICK c : c = [i \in 1..n |-> Rd(s.buf, s.top + i - 1)]
    OBVIOUS
  <1>6. c \in [1..n -> Cell]
    BY <1>4, <1>5
  <1>7. c \in Seq(Cell) /\ Len(c) = n /\ \A i \in 1..n : c[i] \in Cell
    BY <1>6
  <1> QED
    BY <1>1, <1>3, <1>5, <1>7

\* make_string_len.
LEMMA MakeSized ==
    ASSUME NEW t \in Seq(Char)
    PROVE  IsSized(fth_make_string(t))
  <1>1. PICK n \in Nat : n = Len(t)
    OBVIOUS
  <1>2. PICK a \in Nat : a = NewSeqLength(n + 1) /\ DEFAULT_SEQ_LENGTH <= a
    BY StrRounding, n + 1 \in Nat
  <1>3. PICK m \in Nat : m = a \div 3 /\ a < 3 * m + 3
    BY Thirds
  <1>4. m >= 1
    BY <1>2, <1>3, StringAssumption
  <1>5. PICK k \in Nat : k = NewSeqLength(n + 1 + m) /\ n + 1 + m < k /\ DEFAULT_SEQ_LENGTH <= k
    BY StrRounding, n + 1 + m \in Nat
  <1>6. m = MakeTop(n) /\ k = MakeBufLength(n)
    BY <1>2, <1>3, <1>5 DEF MakeTop, MakeBufLength
  <1>7. PICK z \in [0..(k - 1) -> Cell] : z = [j \in 0..(k - 1) |-> Nul]
    <2>1. Nul \in Cell
      BY DEF Cell
    <2> QED
      BY <2>1
  <1>8. PICK b \in [0..(k - 1) -> Cell] : b = Store(z, m, t)
    <2>1. t \in Seq(Cell) /\ m + Len(t) <= k
      BY <1>1, <1>5, CharsAre
    <2> QED
      BY <2>1, StrStored
  <1>9. fth_make_string(t) = Settle(STR(n, k, m, b))
    BY <1>1, <1>6, <1>7, <1>8 DEF fth_make_string, STR
  <1>10. m + n + 1 <= k
    BY <1>5
  <1> QED
    BY <1>4, <1>5, <1>9, <1>10, PutSized

\* string-push.
LEMMA PushSized ==
    ASSUME NEW s, IsSized(s), NEW t \in Seq(Cell)
    PROVE  IsSized(fth_string_push(s, t))
  <1>1. PICK n \in Nat : n = Len(t)
    OBVIOUS
  <1>2. PICK l \in Nat, p \in Nat : l = s.length /\ p = s.top /\ p >= 1
    BY StrParts
  <1>3. PICK need \in Nat : need = PushNeed(s, n) /\ need = p + l + n + 1
    BY <1>2 DEF PushNeed
  <1>4. PICK g : g = Grow(s, need)
    OBVIOUS
  <1>5. IsRaw(g) /\ g.length = l /\ g.top = p /\ need <= g.buf_length /\ DEFAULT_SEQ_LENGTH <= g.buf_length
    BY <1>2, <1>4, GrowRaw, StrParts
  <1>6. PICK k \in Nat : k = g.buf_length /\ g.buf \in [0..(k - 1) -> Cell]
    BY <1>5 DEF IsRaw
  <1>7. PICK b \in [0..(k - 1) -> Cell] : b = Store(g.buf, p + l, t)
    <2>1. PICK at \in Nat : at = p + l /\ at + Len(t) <= k
      BY <1>1, <1>3, <1>5, <1>6
    <2> QED
      BY <1>6, <2>1, StrStored
  <1>8. PICK m \in Nat : m = l + n
    OBVIOUS
  <1>9. [g EXCEPT !.buf = b, !.length = m] = STR(m, k, p, b)
    <2>1. [g EXCEPT !.buf = b, !.length = m] = STR(m, g.buf_length, g.top, b)
      BY <1>5, EditData
    <2> QED
      BY <1>5, <1>6, <2>1
  <1>10. fth_string_push(s, t) = IF t = <<>> THEN s ELSE Settle(Terminate([g EXCEPT !.buf = b, !.length = m]))
    BY <1>1, <1>2, <1>3, <1>4, <1>7, <1>8 DEF fth_string_push
  <1>11. p + m + 1 <= k /\ DEFAULT_SEQ_LENGTH <= k
    BY <1>3, <1>5, <1>6, <1>8
  <1> QED
    BY <1>2, <1>9, <1>10, <1>11, PutSized

\* A string that has lost one char, and then room.
LEMMA ShortSized ==
    ASSUME NEW l \in Nat, NEW n \in Nat, NEW t \in Nat, NEW b \in [0..(n - 1) -> Cell], l >= 1,
           t >= 1, t + l + 1 <= n, DEFAULT_SEQ_LENGTH <= n,
           NEW s, s = STR(l - 1, n, t, b) \/ s = Terminate(STR(l - 1, n, t, b))
    PROVE  IsSized(Shrink(s, t + l)) /\ IsSized(Settle(Shrink(s, t + l))) /\ Shrink(s, t + l).top = t
           /\ Shrink(s, t + l).length = l - 1 /\ Shrink(s, t + l).top + l <= Shrink(s, t + l).buf_length
  <1>1. PICK m \in Nat : m = l - 1
    OBVIOUS
  <1>2. PICK r : r = STR(m, n, t, b)
    OBVIOUS
  <1>3. IsRaw(r) /\ r.length = m /\ r.buf_length = n /\ r.top = t
    <2>1. /\ IsRaw(STR(m, n, t, b)) /\ STR(m, n, t, b).length = m
          /\ STR(m, n, t, b).buf_length = n /\ STR(m, n, t, b).top = t
      BY RawIs
    <2> QED
      BY <1>2, <2>1
  <1>4. IsRaw(s) /\ s.length = m /\ s.buf_length = n /\ s.top = t
    <2>1. r.top + r.length + 1 <= r.buf_length
      BY <1>1, <1>3
    <2> QED
      BY <1>1, <1>2, <1>3, <2>1, EndsRaw
  <1>5. PICK used \in Nat : used = t + l /\ used + 1 <= n
    OBVIOUS
  <1>6. PICK d : d = Shrink(s, used)
    OBVIOUS
  <1>7. IsRaw(d) /\ d.length = m /\ d.top = t /\ used + 1 <= d.buf_length /\ DEFAULT_SEQ_LENGTH <= d.buf_length
    BY <1>4, <1>5, <1>6, ShrinkRaw
  <1>8. d.buf_length \in Nat
    BY <1>7 DEF IsRaw
  <1>9. IsSized(d)
    BY <1>1, <1>5, <1>7, <1>8 DEF IsSized
  <1>10. d.top + l <= d.buf_length
    BY <1>5, <1>7, <1>8
  <1>11. IsSized(Settle(d))
    BY <1>9, EndsSized
  <1>12. d.length = l - 1
    BY <1>1, <1>7
  <1>13. d = Shrink(s, t + l)
    BY <1>5, <1>6
  <1> QED
    BY <1>7, <1>9, <1>10, <1>11, <1>12, <1>13

\* string-pop.
LEMMA PopSized ==
    ASSUME NEW s, IsSized(s), s.length > 0
    PROVE  IsSized(fth_string_pop(s))
  <1>1. PICK l \in Nat, n \in Nat, t \in Nat : l = s.length /\ n = s.buf_length /\ t = s.top /\ l >= 1
    BY StrParts
  <1>2. PICK b \in [0..(n - 1) -> Cell] : b = s.buf
    BY <1>1, StrParts
  <1>3. t >= 1 /\ t + l + 1 <= n /\ DEFAULT_SEQ_LENGTH <= n /\ IsRaw(s)
    BY <1>1, StrParts
  <1>4. [s EXCEPT !.length = l - 1] = STR(l - 1, n, t, b)
    <2>1. PICK m : m = l - 1
      OBVIOUS
    <2>2. [s EXCEPT !.length = m] = STR(m, s.buf_length, s.top, s.buf)
      BY <1>3, EditLength
    <2> QED
      BY <1>1, <1>2, <2>1, <2>2
  <1>5. fth_string_pop(s) = Settle(Shrink(Terminate(STR(l - 1, n, t, b)), t + l))
    BY <1>1, <1>4 DEF fth_string_pop
  <1>6. IsSized(Settle(Shrink(Terminate(STR(l - 1, n, t, b)), t + l)))
    BY <1>1, <1>3, ShortSized
  <1> QED
    BY <1>5, <1>6

\* What string-unshift moves the data to, and the chars go before.
LEMMA UnshiftedSized ==
    ASSUME NEW s, IsSized(s), NEW t \in Seq(Cell)
    PROVE  /\ IsSized(Unshifted(s, t))
           /\ \E k \in Nat : UnshiftMoved(s, Len(t)).buf \in [0..(k - 1) -> Cell]
  <1>1. PICK n \in Nat : n = Len(t)
    OBVIOUS
  <1>2. PICK l \in Nat, p \in Nat, bl \in Nat : /\ l = s.length /\ p = s.top /\ bl = s.buf_length /\ p >= 1
                                                /\ bl >= 3
    BY StrParts
  <1>3. PICK q \in Nat : q = UnshiftTop(s, n) /\ q >= 1
    <2>1. bl \div 3 \in Nat /\ bl \div 3 >= 1
      BY <1>2, Thirds
    <2>2. CASE p - n < 1
      BY <1>2, <2>1, <2>2 DEF UnshiftTop, Recentre
    <2>3. CASE ~(p - n < 1)
      BY <1>2, <2>3 DEF UnshiftTop, Recentre
    <2> QED
      BY <2>2, <2>3
  <1>4. PICK need \in Nat : need = UnshiftNeed(s, n) /\ need = q + l + n + 1
    BY <1>2, <1>3 DEF UnshiftNeed
  <1>5. PICK g : g = Grow(s, need)
    OBVIOUS
  <1>6. IsRaw(g) /\ g.length = l /\ g.top = p /\ need <= g.buf_length /\ DEFAULT_SEQ_LENGTH <= g.buf_length
    BY <1>2, <1>5, GrowRaw, StrParts
  <1>7. PICK k \in Nat : k = g.buf_length /\ g.buf \in [0..(k - 1) -> Cell]
    BY <1>6 DEF IsRaw
  <1>8. PICK b \in [0..(k - 1) -> Cell] : b = MemMove(g.buf, q + n, p, l)
    <2>1. PICK dst \in Nat : dst = q + n /\ dst + l <= k
      BY <1>4, <1>6, <1>7
    <2> QED
      BY <1>7, <2>1, StrMoved
  <1>9. [g EXCEPT !.buf = b] = STR(l, k, p, b)
    <2>1. [g EXCEPT !.buf = b] = STR(g.length, g.buf_length, g.top, b)
      BY <1>6, EditBuf
    <2> QED
      BY <1>6, <1>7, <2>1
  <1>10. UnshiftMoved(s, n) = IF Recentre(s, n) THEN [g EXCEPT !.buf = b] ELSE g
    BY <1>2, <1>3, <1>4, <1>5, <1>8 DEF UnshiftMoved
  <1>11. PICK m : m = UnshiftMoved(s, n)
    OBVIOUS
  <1>12. IsRaw(m) /\ m.buf_length = k
    BY <1>6, <1>7, <1>9, <1>10, <1>11, RawIs
  <1>13. m.buf \in [0..(k - 1) -> Cell]
    BY <1>12 DEF IsRaw
  <1>14. PICK c \in [0..(k - 1) -> Cell] : c = Store(m.buf, q, t)
    <2>1. q + Len(t) <= k
      BY <1>1, <1>4, <1>6, <1>7
    <2> QED
      BY <1>13, <2>1, StrStored
  <1>15. PICK h \in Nat : h = l + n
    OBVIOUS
  <1>16. [m EXCEPT !.top = q, !.length = h, !.buf = c] = STR(h, k, q, c)
    <2>1. Placed(m, q, h, c) = STR(h, m.buf_length, q, c)
      BY <1>12, EditTop
    <2> QED
      BY <1>12, <2>1 DEF Placed
  <1>17. Unshifted(s, t) = Settle(Terminate([m EXCEPT !.top = q, !.length = h, !.buf = c]))
    BY <1>1, <1>2, <1>3, <1>11, <1>14, <1>15 DEF Unshifted
  <1>18. q + h + 1 <= k /\ DEFAULT_SEQ_LENGTH <= k
    BY <1>4, <1>6, <1>7, <1>15
  <1> QED
    BY <1>1, <1>3, <1>11, <1>13, <1>16, <1>17, <1>18, PutSized

\* string-unshift, with another string or the string itself.
LEMMA UnshiftSized ==
    ASSUME NEW s, IsSized(s)
    PROVE  (\A t \in Seq(Cell) : IsSized(fth_string_unshift(s, t))) /\ IsSized(UnshiftSelf(s))
  <1>1. \A t \in Seq(Cell) : IsSized(fth_string_unshift(s, t))
    BY UnshiftedSized DEF fth_string_unshift
  <1>2. PICK l \in Nat : l = s.length
    BY StrParts
  <1>3. PICK c \in Seq(Cell) : c = Contents(s) /\ Len(c) = l
    BY <1>2, StrContents
  <1>4. PICK buf : buf = UnshiftMoved(s, l).buf
    OBVIOUS
  <1>10. \E k \in Nat : buf \in [0..(k - 1) -> Cell]
    BY <1>3, <1>4, UnshiftedSized
  <1>5. \A j : Rd(buf, j) \in Cell
    BY <1>10, StrReads
  <1>6. PICK d : d = [i \in 1..l |-> Rd(buf, s.top + i - 1)]
    OBVIOUS
  <1>7. d \in [1..l -> Cell]
    BY <1>5, <1>6
  <1>8. d \in Seq(Cell)
    BY <1>7
  <1>9. UnshiftSelf(s) = IF l = 0 THEN s ELSE Unshifted(s, d)
    BY <1>2, <1>4, <1>6 DEF UnshiftSelf
  <1> QED
    BY <1>1, <1>8, <1>9, UnshiftedSized

\* string-shift.
LEMMA ShiftSized ==
    ASSUME NEW s, IsSized(s), s.length > 0
    PROVE  IsSized(fth_string_shift(s))
  <1>1. PICK l \in Nat, n \in Nat, t \in Nat : l = s.length /\ n = s.buf_length /\ t = s.top /\ l >= 1
    BY StrParts
  <1>2. t >= 1 /\ t + l + 1 <= n /\ DEFAULT_SEQ_LENGTH <= n /\ IsRaw(s) /\ s.buf \in [0..(n - 1) -> Cell]
    BY <1>1, StrParts
  <1>3. PICK q \in Nat : q = ShiftTop(s) /\ q + l + 1 <= n
    <2>1. PICK x \in Nat, y \in Nat : x = n \div 3 /\ y = n \div 2 /\ 3 * x <= n /\ 2 * y <= n /\ n <= 2 * y + 1
      BY Thirds
    <2>2. CASE t + 1 > y
      <3>1. l <= n - t - 1 /\ x <= y
        BY <1>2, <2>1
      <3> QED
        BY <1>1, <2>1, <2>2, <3>1 DEF ShiftTop, ShiftMoves
    <2>3. CASE ~(t + 1 > y)
      BY <1>1, <1>2, <2>1, <2>3 DEF ShiftTop, ShiftMoves
    <2> QED
      BY <2>2, <2>3
  <1>4. PICK b \in [0..(n - 1) -> Cell] : b = ShiftBuf(s)
    <2>1. q + l <= n
      BY <1>3
    <2>2. MemMove(s.buf, q, t, l) \in [0..(n - 1) -> Cell]
      BY <1>2, <2>1, StrMoved
    <2>3. ShiftBuf(s) = IF ShiftMoves(s) THEN MemMove(s.buf, q, t, l) ELSE s.buf
      BY <1>1, <1>3 DEF ShiftBuf
    <2> QED
      BY <1>2, <2>2, <2>3
  <1>5. PICK d \in Nat, p \in Nat : d = l - 1 /\ p = q + 1
    BY <1>1
  <1>6. PICK r : r = STR(d, n, p, b)
    OBVIOUS
  <1>7. [s EXCEPT !.buf = b, !.top = p, !.length = d] = r
    <2>1. Shifted(s, b, p, d) = STR(d, s.buf_length, p, b)
      BY <1>2, EditBufTop
    <2> QED
      BY <1>1, <1>6, <2>1 DEF Shifted
  <1>8. PICK used \in Nat : used = q + l
    OBVIOUS
  <1>9. fth_string_shift(s) = Settle(Shrink(r, used))
    BY <1>1, <1>3, <1>4, <1>5, <1>7, <1>8 DEF fth_string_shift
  <1>10. IsRaw(r) /\ r.length = d /\ r.buf_length = n /\ r.top = p
    BY <1>6, RawIs
  <1>11. PICK e : e = Shrink(r, used)
    OBVIOUS
  <1>12. IsRaw(e) /\ e.length = d /\ e.top = p /\ used + 1 <= e.buf_length /\ DEFAULT_SEQ_LENGTH <= e.buf_length
    BY <1>2, <1>3, <1>8, <1>10, <1>11, ShrinkRaw
  <1>13. e.buf_length \in Nat
    BY <1>12 DEF IsRaw
  <1>14. IsSized(e)
    BY <1>5, <1>8, <1>12, <1>13 DEF IsSized
  <1> QED
    BY <1>9, <1>11, <1>14, EndsSized

\* string-insert!.
LEMMA InsertSized ==
    ASSUME NEW s, IsSized(s), NEW idx \in Nat, idx <= s.length, NEW t \in Seq(Cell)
    PROVE  IsSized(fth_string_insert(s, idx, t))
  <1>1. PICK n \in Nat : n = Len(t)
    OBVIOUS
  <1>2. PICK l \in Nat, p \in Nat : l = s.length /\ p = s.top /\ p >= 1
    BY StrParts
  <1>3. PICK need \in Nat : need = PushNeed(s, n) /\ need = p + l + n + 1
    BY <1>2 DEF PushNeed
  <1>4. PICK g : g = Grow(s, need)
    OBVIOUS
  <1>5. IsRaw(g) /\ g.length = l /\ g.top = p /\ need <= g.buf_length /\ DEFAULT_SEQ_LENGTH <= g.buf_length
    BY <1>2, <1>4, GrowRaw, StrParts
  <1>6. PICK k \in Nat : k = g.buf_length /\ g.buf \in [0..(k - 1) -> Cell]
    BY <1>5 DEF IsRaw
  <1>14. idx <= l
    BY <1>2
  <1>15. p + l + n + 1 <= k
    BY <1>3, <1>5, <1>6
  <1>7. PICK o \in [0..(k - 1) -> Cell] : o = MemMove(g.buf, p + idx + n, p + idx, l - idx)
    <2>1. p + idx + n \in Nat /\ l - idx \in Nat /\ (p + idx + n) + (l - idx) <= k
      BY <1>14, <1>15
    <2> QED
      BY <1>6, <2>1, StrMoved
  <1>8. PICK b \in [0..(k - 1) -> Cell] : b = Store(o, p + idx, t)
    <2>1. p + idx \in Nat /\ (p + idx) + Len(t) <= k
      BY <1>1, <1>14, <1>15
    <2> QED
      BY <2>1, StrStored
  <1>9. PICK m \in Nat : m = l + n
    OBVIOUS
  <1>10. [g EXCEPT !.buf = b, !.length = m] = STR(m, k, p, b)
    <2>1. [g EXCEPT !.buf = b, !.length = m] = STR(m, g.buf_length, g.top, b)
      BY <1>5, EditData
    <2> QED
      BY <1>5, <1>6, <2>1
  <1>11. InsertMiddle(s, idx, t) = Settle(Terminate([g EXCEPT !.buf = b, !.length = m]))
    BY <1>1, <1>2, <1>3, <1>4, <1>7, <1>8, <1>9 DEF InsertMiddle
  <1>12. p + m + 1 <= k /\ DEFAULT_SEQ_LENGTH <= k
    BY <1>3, <1>5, <1>6, <1>9
  <1>13. IsSized(InsertMiddle(s, idx, t))
    BY <1>2, <1>10, <1>11, <1>12, PutSized
  <1> QED
    BY <1>13, UnshiftSized DEF fth_string_insert

\* string-delete!.
LEMMA DeleteSized ==
    ASSUME NEW s, IsSized(s), NEW idx \in Nat, idx < s.length
    PROVE  IsSized(fth_string_delete(s, idx))
  <1>1. PICK l \in Nat, n \in Nat, t \in Nat : l = s.length /\ n = s.buf_length /\ t = s.top /\ l >= 1
    BY StrParts
  <1>2. PICK b \in [0..(n - 1) -> Cell] : b = s.buf
    BY <1>1, StrParts
  <1>3. t >= 1 /\ t + l + 1 <= n /\ DEFAULT_SEQ_LENGTH <= n /\ IsRaw(s)
    BY <1>1, StrParts
  <1>4. PICK m \in Nat : m = l - 1
    BY <1>1
  <1>5. PICK r : r = STR(l - 1, n, t, b)
    OBVIOUS
  <1>6. [s EXCEPT !.length = m] = r
    <2>1. [s EXCEPT !.length = m] = STR(m, s.buf_length, s.top, s.buf)
      BY <1>3, EditLength
    <2> QED
      BY <1>1, <1>2, <1>4, <1>5, <2>1
  <1>7. PICK d : d = Shrink(r, t + l)
    OBVIOUS
  <1>8. IsSized(d)
    BY <1>1, <1>3, <1>5, <1>7, ShortSized
  <1>16. d.top + l <= d.buf_length
    BY <1>1, <1>3, <1>5, <1>7, ShortSized
  <1>9. PICK k \in Nat, p \in Nat, h \in Nat : k = d.buf_length /\ p = d.top /\ h = d.length
    BY <1>8, StrParts
  <1>10. /\ d.buf \in [0..(k - 1) -> Cell] /\ p >= 1 /\ p + h + 1 <= k /\ DEFAULT_SEQ_LENGTH <= k /\ IsRaw(d)
    BY <1>8, <1>9, StrParts
  <1>11. PICK c \in [0..(k - 1) -> Cell] : c = MemMove(d.buf, p + idx, p + idx + 1, DeleteCount(s, idx))
    <2>1. DeleteCount(s, idx) = l - 1 - idx
      BY <1>1 DEF DeleteCount
    <2>2. idx < l /\ p + l <= k
      BY <1>1, <1>9, <1>16
    <2>3. PICK cnt \in Nat : cnt = l - 1 - idx
      BY <2>2
    <2>4. p + idx \in Nat /\ (p + idx) + cnt <= k
      BY <1>10, <2>2, <2>3
    <2> QED
      BY <1>10, <2>1, <2>3, <2>4, StrMoved
  <1>12. [d EXCEPT !.buf = c] = STR(h, k, p, c)
    <2>1. [d EXCEPT !.buf = c] = STR(d.length, d.buf_length, d.top, c)
      BY <1>10, EditBuf
    <2> QED
      BY <1>9, <2>1
  <1>13. DeleteMiddle(s, idx) = Settle(Terminate([d EXCEPT !.buf = c]))
    BY <1>1, <1>4, <1>6, <1>7, <1>9, <1>11 DEF DeleteMiddle
  <1>14. IsSized(DeleteMiddle(s, idx))
    <2>1. IsSized(Settle(Terminate(STR(h, k, p, c))))
      BY <1>10, PutSized
    <2> QED
      BY <1>12, <1>13, <2>1
  <1>15. s.length > 0
    BY <1>1
  <1> QED
    BY <1>14, <1>15, ShiftSized, PopSized DEF fth_string_delete

-----------------------------------------------------------------------------
(* Chars changed in place. *)

\* The string with other chars in the same buffer.
LEMMA OtherSized ==
    ASSUME NEW s, IsSized(s), NEW b \in [DOMAIN s.buf -> Cell]
    PROVE  IsSized([s EXCEPT !.buf = b])
  <1>1. PICK l \in Nat, n \in Nat, t \in Nat : l = s.length /\ n = s.buf_length /\ t = s.top
    BY StrParts
  <1>2. t >= 1 /\ t + l + 1 <= n /\ DEFAULT_SEQ_LENGTH <= n /\ IsRaw(s) /\ s.buf \in [0..(n - 1) -> Cell]
    BY <1>1, StrParts
  <1>3. b \in [0..(n - 1) -> Cell]
    BY <1>2
  <1>4. [s EXCEPT !.buf = b] = STR(s.length, s.buf_length, s.top, b)
    BY <1>2, EditBuf
  <1>5. IsSized(STR(l, n, t, b))
    BY <1>2, <1>3, PutSized
  <1> QED
    BY <1>1, <1>4, <1>5

\* string-upcase!, string-downcase! and string-capitalize!.
LEMMA CaseIs ==
    ASSUME NEW c \in Cell
    PROVE  Case(ToUpper, c) \in Cell /\ Case(ToLower, c) \in Cell
  BY StringAssumption DEF Case, Cell

\* In the string too.
LEMMA CaseSized ==
    ASSUME NEW s, IsSized(s)
    PROVE  IsSized(fth_string_upcase(s)) /\ IsSized(fth_string_downcase(s)) /\ IsSized(fth_string_capitalize(s))
  <1>1. \A j \in DOMAIN s.buf : s.buf[j] \in Cell
    BY StrParts
  <1>2. \A j \in DOMAIN s.buf : Case(ToUpper, s.buf[j]) \in Cell /\ Case(ToLower, s.buf[j]) \in Cell
    BY <1>1, CaseIs
  <1>3. PICK u : u = [j \in DOMAIN s.buf |->
                        IF s.top <= j /\ j < s.top + s.length THEN Case(ToUpper, s.buf[j]) ELSE s.buf[j]]
    OBVIOUS
  <1>4. PICK d : d = [j \in DOMAIN s.buf |->
                        IF s.top <= j /\ j < s.top + s.length THEN Case(ToLower, s.buf[j]) ELSE s.buf[j]]
    OBVIOUS
  <1>5. PICK c : c = [j \in DOMAIN s.buf |->
                        IF s.top <= j /\ j < s.top + s.length
                        THEN IF j - s.top = 0 THEN Case(ToUpper, s.buf[j]) ELSE Case(ToLower, s.buf[j]) ELSE s.buf[j]]
    OBVIOUS
  <1>6. u \in [DOMAIN s.buf -> Cell] /\ d \in [DOMAIN s.buf -> Cell] /\ c \in [DOMAIN s.buf -> Cell]
    BY <1>1, <1>2, <1>3, <1>4, <1>5
  <1>7. /\ fth_string_upcase(s) = [s EXCEPT !.buf = u] /\ fth_string_downcase(s) = [s EXCEPT !.buf = d]
        /\ fth_string_capitalize(s) = [s EXCEPT !.buf = c]
    BY <1>3, <1>4, <1>5 DEF fth_string_upcase, fth_string_downcase, fth_string_capitalize, EachChar
  <1> QED
    BY <1>6, <1>7, OtherSized

\* string-fill, and string-replace! of one char by another.
LEMMA FillSized ==
    ASSUME NEW s, IsSized(s), NEW ch \in Char, NEW old
    PROVE  IsSized(fth_string_fill(s, ch)) /\ IsSized(OneForOne(s, old, ch))
  <1>1. (\A j \in DOMAIN s.buf : s.buf[j] \in Cell) /\ ch \in Cell
    BY StrParts DEF Cell
  <1>2. PICK f : f = [j \in DOMAIN s.buf |-> IF s.top <= j /\ j < s.top + s.length THEN ch ELSE s.buf[j]]
    OBVIOUS
  <1>3. PICK o : o = [j \in DOMAIN s.buf |->
                        IF s.top <= j /\ j < s.top + s.length
                          THEN IF s.buf[j] = old THEN ch ELSE s.buf[j]
                          ELSE s.buf[j]]
    OBVIOUS
  <1>4. f \in [DOMAIN s.buf -> Cell] /\ o \in [DOMAIN s.buf -> Cell]
    BY <1>1, <1>2, <1>3
  <1>5. fth_string_fill(s, ch) = [s EXCEPT !.buf = f] /\ OneForOne(s, old, ch) = [s EXCEPT !.buf = o]
    BY <1>2, <1>3 DEF fth_string_fill, OneForOne, EachChar
  <1> QED
    BY <1>4, <1>5, OtherSized

\* string-chomp!, and a string of which nothing is known.
LEMMA ChompSized ==
    ASSUME NEW s, IsSized(s)
    PROVE  IsSized(fth_string_chomp(s)) /\ IsSized(Unknown(s))
  <1>1. IsSized(fth_string_chomp(s))
    BY PopSized DEF fth_string_chomp
  <1>2. s.buf_length \in Nat /\ s.buf \in [0..(s.buf_length - 1) -> Cell]
    BY StrParts
  <1>3. PICK f : f = [j \in DOMAIN s.buf |-> Junk]
    OBVIOUS
  <1>4. f \in [DOMAIN s.buf -> Cell]
    BY <1>3 DEF Cell
  <1> QED
    BY <1>1, <1>3, <1>4, OtherSized DEF Unknown

\* string-reverse!.
LEMMA ReverseSized ==
    ASSUME NEW s, IsSized(s), NEW rev, rev = [j \in DOMAIN s.buf |->
               IF s.top <= j /\ j < s.top + s.length THEN Contents(s)[s.length - (j - s.top)] ELSE s.buf[j]]
    PROVE  IsSized([s EXCEPT !.buf = rev])
  <1>1. PICK l \in Nat, t \in Nat, n \in Nat : l = s.length /\ t = s.top /\ n = s.buf_length
    BY StrParts
  <1>2. s.buf \in [0..(n - 1) -> Cell] /\ \A i \in 1..l : Contents(s)[i] \in Cell
    BY <1>1, StrParts, StrContents
  <1>3. \A j \in 0..(n - 1) : t <= j /\ j < t + l => l - (j - t) \in 1..l
    BY <1>1
  <1>4. rev \in [DOMAIN s.buf -> Cell]
    BY <1>1, <1>2, <1>3
  <1> QED
    BY <1>4, OtherSized

-----------------------------------------------------------------------------
(* string-replace!. *)

\* strstr gives a place at which what it found ends within the chars.
LEMMA StrstrIs ==
    ASSUME NEW t \in Seq(Cell), NEW k \in Seq(Cell), NEW from \in Nat, NEW i, i = strstr(t, k, from), i # -1
    PROVE  i \in Nat /\ i + Len(k) <= Len(t)
  <1>1. PICK at : at = {j \in from..(Len(t) - Len(k)) : SubSeq(t, j + 1, j + Len(k)) = k}
    OBVIOUS
  <1>2. at # {} /\ i = CHOOSE j \in at : \A x \in at : j <= x
    BY <1>1 DEF strstr
  <1>3. at \in SUBSET Nat
    BY <1>1
  <1>4. \E j \in at : \A x \in at : j <= x
    BY <1>2, <1>3, Least
  <1>5. i \in at
    BY <1>2, <1>4
  <1>6. Len(t) \in Nat /\ Len(k) \in Nat
    OBVIOUS
  <1> QED
    BY <1>1, <1>5, <1>6

\* The strings, as a set.
Strings ==
    {s \in [length : Nat, buf_length : Nat, top : Nat, buf : UNION {[0..(n - 1) -> Cell] : n \in Nat}] : IsSized(s)}

\* All of them are in it.
LEMMA StringsAre == ASSUME NEW s PROVE IsSized(s) <=> s \in Strings
  <1> SUFFICES ASSUME IsSized(s) PROVE s \in Strings
    BY DEF Strings
  <1>1. PICK l \in Nat, n \in Nat, t \in Nat : l = s.length /\ n = s.buf_length /\ t = s.top
    BY StrParts
  <1>2. PICK b \in [0..(n - 1) -> Cell] : b = s.buf
    BY <1>1, StrParts
  <1>3. b \in UNION {[0..(k - 1) -> Cell] : k \in Nat}
    BY <1>2
  <1>4. s = [length |-> l, buf_length |-> n, top |-> t, buf |-> b]
    BY <1>1, <1>2 DEF IsSized, IsRaw, STR
  <1>5. PICK B : B = UNION {[0..(k - 1) -> Cell] : k \in Nat}
    OBVIOUS
  <1>6. s \in [length : Nat, buf_length : Nat, top : Nat, buf : B]
    BY <1>3, <1>4, <1>5
  <1> QED
    BY <1>5, <1>6 DEF Strings

\* Cutting k chars out at i.
LEMMA CutSized ==
    ASSUME NEW s, IsSized(s), NEW i \in Nat, NEW k \in Nat, i + k <= s.length, NEW cut,
           cut = [s EXCEPT !.length = @ - k, !.buf = MemMove(@, s.top + i, s.top + i + k, s.length - k - i)]
    PROVE  IsSized(cut) /\ i <= cut.length
  <1>1. PICK l \in Nat, n \in Nat, t \in Nat : l = s.length /\ n = s.buf_length /\ t = s.top
    BY StrParts
  <1>2. /\ t >= 1 /\ t + l + 1 <= n /\ DEFAULT_SEQ_LENGTH <= n /\ IsRaw(s) /\ s.buf \in [0..(n - 1) -> Cell]
    BY <1>1, StrParts
  <1>3. PICK b : b = MemMove(s.buf, s.top + i, s.top + i + k, s.length - k - i)
    OBVIOUS
  <1>4. b \in [0..(n - 1) -> Cell]
    <2>1. i + k <= l
      BY <1>1
    <2>2. PICK cnt \in Nat : cnt = l - k - i
      BY <2>1
    <2>3. t + i \in Nat /\ (t + i) + cnt <= n
      BY <1>2, <2>1, <2>2
    <2>4. b = MemMove(s.buf, t + i, t + i + k, cnt)
      BY <1>1, <1>3, <2>2
    <2> QED
      BY <1>2, <2>3, <2>4, StrMoved
  <1>5. cut = [s EXCEPT !.length = s.length - k, !.buf = b]
    BY <1>3
  <1>6. cut = STR(s.length - k, s.buf_length, s.top, b)
    BY <1>2, <1>5, EditLengthBuf
  <1>7. PICK m \in Nat : m = l - k
    BY <1>1
  <1>8. m + t + 1 <= n
    BY <1>2, <1>7
  <1>9. IsSized(STR(m, n, t, b))
    BY <1>2, <1>4, <1>8, PutSized
  <1>10. STR(m, n, t, b).length = m /\ i + k <= l
    BY <1>1 DEF STR
  <1>11. i <= m
    BY <1>7, <1>10
  <1> QED
    BY <1>1, <1>6, <1>7, <1>9, <1>10, <1>11

\* Putting t in at i, where there is room.
LEMMA FilledSized ==
    ASSUME NEW g, IsRaw(g), g.top >= 1, DEFAULT_SEQ_LENGTH <= g.buf_length, NEW t \in Seq(Cell), NEW i \in Nat,
           i <= g.length, g.top + g.length + Len(t) + 1 <= g.buf_length, NEW put,
           put = [g EXCEPT !.length = @ + Len(t),
                           !.buf = Store(MemMove(@, g.top + i + Len(t), g.top + i, g.length - i), g.top + i, t)]
    PROVE  IsSized(put)
  <1>1. /\ g.length \in Nat /\ g.buf_length \in Nat /\ g.top \in Nat /\ g.buf \in [0..(g.buf_length - 1) -> Cell]
    BY DEF IsRaw
  <1>12. PICK k \in Nat : k = Len(t)
    OBVIOUS
  <1>2. PICK l \in Nat, n \in Nat, p \in Nat : l = g.length /\ n = g.buf_length /\ p = g.top /\ k = Len(t)
    BY <1>1, <1>12
  <1>11. p + l + k + 1 <= n /\ i <= l
    BY <1>2
  <1>3. PICK b \in [0..(n - 1) -> Cell] : b = MemMove(g.buf, g.top + i + Len(t), g.top + i, g.length - i)
    <2>1. g.buf \in [0..(n - 1) -> Cell]
      BY <1>1, <1>2
    <2>2. PICK cnt \in Nat : cnt = l - i
      BY <1>11
    <2>3. p + i + k \in Nat /\ (p + i + k) + cnt <= n
      BY <1>11, <2>2
    <2>4. MemMove(g.buf, p + i + k, p + i, cnt) \in [0..(n - 1) -> Cell]
      BY <2>1, <2>3, StrMoved
    <2> QED
      BY <1>2, <2>2, <2>4
  <1>4. PICK at \in Nat : at = g.top + i /\ at + Len(t) <= n
    BY <1>2, <1>11
  <1>5. PICK c \in [0..(n - 1) -> Cell] : c = Store(b, at, t)
    BY <1>4, StrStored
  <1>6. put = [g EXCEPT !.length = g.length + Len(t), !.buf = c]
    BY <1>3, <1>4, <1>5
  <1>7. put = STR(g.length + Len(t), g.buf_length, g.top, c)
    BY <1>6, EditLengthBuf
  <1>8. PICK m \in Nat : m = l + k
    OBVIOUS
  <1>9. p + m + 1 <= n /\ p >= 1 /\ DEFAULT_SEQ_LENGTH <= n
    BY <1>2, <1>8
  <1>10. IsSized(STR(m, n, p, c))
    BY <1>9, PutSized
  <1> QED
    BY <1>2, <1>7, <1>8, <1>10

\* A turn of the loop leaves a string.
Turning == [s : Strings, tmp : Nat, fails : BOOLEAN, moved : BOOLEAN]
\* It is one of these.
LEMMA TurnIs ==
    ASSUME NEW r \in Turning, NEW from \in Seq(Char), NEW to \in Seq(Char), NEW moves \in BOOLEAN
    PROVE  ReplaceTurn(r, from, to, moves) \in Turning
  <1>1. PICK s : s = r.s /\ IsSized(s)
    BY StringsAre DEF Turning
  <1>2. from \in Seq(Cell) /\ to \in Seq(Cell)
    BY CharsAre
  <1>3. PICK k \in Nat, m \in Nat : k = Len(from) /\ m = Len(to)
    OBVIOUS
  <1>4. PICK i : i = strstr(Contents(s), from, r.tmp)
    OBVIOUS
  <1>5. PICK cut : cut = [s EXCEPT !.length = @ - k, !.buf = MemMove(@, s.top + i, s.top + i + k, s.length - k - i)]
    OBVIOUS
  <1>6. PICK l : l = NewSeqLength(PushNeed(cut, m))
    OBVIOUS
  <1>7. PICK g : g = IF l > cut.buf_length THEN Resize(cut, l) ELSE cut
    OBVIOUS
  <1>8. PICK put : put = [g EXCEPT !.length = @ + m,
                              !.buf = Store(MemMove(@, g.top + i + m, g.top + i, g.length - i), g.top + i, to)]
    OBVIOUS
  <1>9. ReplaceTurn(r, from, to, moves) =
            IF i < 0 \/ r.fails THEN r
            ELSE IF to = <<>> THEN [r EXCEPT !.s = Settle(Terminate(cut)), !.tmp = i]
            ELSE IF l > MAX_SEQ_LENGTH THEN [r EXCEPT !.s = Settle(cut), !.fails = TRUE]
            ELSE [s |-> Settle(Terminate(put)), tmp |-> i + Len(to), fails |-> FALSE,
                  moved |-> r.moved \/ (moves /\ l > cut.buf_length)]
    BY <1>1, <1>3, <1>4, <1>5, <1>6, <1>7, <1>8 DEF ReplaceTurn
  <1>10. CASE i < 0 \/ r.fails
    BY <1>9, <1>10
  <1>11. CASE ~(i < 0 \/ r.fails)
    <2>1. r.tmp \in Nat /\ Contents(s) \in Seq(Cell) /\ Len(Contents(s)) = s.length
      BY <1>1, StrContents DEF Turning
    <2>2. i # -1
      BY <1>11
    <2>3. i \in Nat /\ i + k <= s.length
      BY <1>2, <1>3, <1>4, <2>1, <2>2, StrstrIs
    <2>4. IsSized(cut)
      BY <1>1, <1>5, <2>3, CutSized
    <2>5. Settle(Terminate(cut)) \in Strings /\ Settle(cut) \in Strings
      BY <2>4, EndsSized, StringsAre
    <2>6. /\ IsRaw(cut) /\ cut.length \in Nat /\ cut.buf_length \in Nat /\ cut.top \in Nat /\ cut.top >= 1
          /\ DEFAULT_SEQ_LENGTH <= cut.buf_length
      BY <2>4, StrParts
    <2>7. PICK need \in Nat : need = PushNeed(cut, m) /\ need = cut.top + cut.length + m + 1
      BY <2>6 DEF PushNeed
    <2>8. l \in Nat /\ need < l /\ DEFAULT_SEQ_LENGTH <= l
      BY <1>6, <2>7, StrRounding
    <2>9. /\ IsRaw(g) /\ g.length = cut.length /\ g.top = cut.top /\ DEFAULT_SEQ_LENGTH <= g.buf_length
          /\ need <= g.buf_length
      <3>1. CASE l > cut.buf_length
        <4>1. IsRaw(Resize(cut, l)) /\ Resize(cut, l).length = cut.length /\ Resize(cut, l).top = cut.top
              /\ Resize(cut, l).buf_length = l
          BY <2>6, <2>8, ResizeRaw
        <4> QED
          BY <1>7, <2>7, <2>8, <3>1, <4>1
      <3>2. CASE ~(l > cut.buf_length)
        BY <1>7, <2>6, <2>7, <2>8, <3>2
      <3> QED
        BY <3>1, <3>2
    <2>10. g.top >= 1 /\ g.top + g.length + Len(to) + 1 <= g.buf_length
      BY <1>3, <2>6, <2>7, <2>9
    <2>11. put = [g EXCEPT !.length = @ + Len(to),
                     !.buf = Store(MemMove(@, g.top + i + Len(to), g.top + i, g.length - i), g.top + i, to)]
      BY <1>3, <1>8
    <2>12. IsSized(put)
      <3>1. i <= cut.length
        BY <1>1, <1>5, <2>3, CutSized
      <3>4. i <= g.length
        BY <2>9, <3>1
      <3> QED
        BY <1>2, <3>4, <2>3, <2>9, <2>10, <2>11, FilledSized
    <2>13. Settle(Terminate(put)) \in Strings
      BY <2>12, EndsSized, StringsAre
    <2>14. PICK x, y, z : x = Settle(Terminate(cut)) /\ y = Settle(cut) /\ z = Settle(Terminate(put))
      OBVIOUS
    <2>15. x \in Strings /\ y \in Strings /\ z \in Strings
      BY <2>5, <2>13, <2>14
    <2>16. PICK w \in BOOLEAN : w = (r.moved \/ (moves /\ l > cut.buf_length))
      OBVIOUS
    <2>17. PICK q \in Nat : q = i + Len(to)
      BY <1>3, <2>3
    <2>18. /\ [r EXCEPT !.s = x, !.tmp = i] \in Turning /\ [r EXCEPT !.s = y, !.fails = TRUE] \in Turning
           /\ [s |-> z, tmp |-> q, fails |-> FALSE, moved |-> w] \in Turning
      BY <2>3, <2>15 DEF Turning
    <2>19. ReplaceTurn(r, from, to, moves) \in
               {[r EXCEPT !.s = x, !.tmp = i], [r EXCEPT !.s = y, !.fails = TRUE],
                [s |-> z, tmp |-> q, fails |-> FALSE, moved |-> w]}
      BY <1>9, <1>11, <2>14, <2>16, <2>17
    <2> QED
      BY <2>18, <2>19
  <1> QED
    BY <1>10, <1>11

\* The loop does.
LEMMA ReplacementIs ==
    ASSUME NEW s, IsSized(s), NEW from \in Seq(Char), NEW to \in Seq(Char), NEW moves \in BOOLEAN
    PROVE  Replacement(s, from, to, moves) \in Turning
  <1>1. PICK N, x0 : N = s.length /\ x0 = [s |-> s, tmp |-> 0, fails |-> FALSE, moved |-> FALSE]
    OBVIOUS
  <1> DEFINE F(f) == f = [n \in 0..N |-> IF n = 0 THEN x0 ELSE ReplaceTurn(f[n - 1], from, to, moves)]
             u == CHOOSE f : F(f)
  <1>2. Replacement(s, from, to, moves) = u[N]
    BY <1>1 DEF Replacement
  <1>3. N \in Nat
    BY <1>1, StrParts
  <1>4. x0 \in Turning
    <2>1. s \in Strings
      BY StringsAre
    <2> QED
      BY <1>1, <2>1 DEF Turning
  <1>5. \E f \in [0..N -> Turning] : F(f)
    <2>1. PICK step : step = [n \in 1..N |-> [x \in Turning |-> ReplaceTurn(x, from, to, moves)]]
      OBVIOUS
    <2>2. step \in [1..N -> [Turning -> Turning]]
      BY <2>1, TurnIs
    <2>3. PICK g \in [0..N -> Turning] : Follows(x0, step, N, g)
      BY <1>3, <1>4, <2>2, Recursive
    <2>6. \A n \in 1..N : g[n - 1] \in Turning
      BY <1>3
    <2>4. \A n \in 1..N : step[n][g[n - 1]] = ReplaceTurn(g[n - 1], from, to, moves)
      BY <2>1, <2>6
    <2>5. F(g)
      BY <1>3, <2>3, <2>4 DEF Follows
    <2> QED
      BY <2>5
  <1>6. F(u)
    BY <1>5
  <1> HIDE DEF u
  <1>7. u[0] = x0
    BY <1>3, <1>6
  <1>8. \A n \in 1..N : u[n] = ReplaceTurn(u[n - 1], from, to, moves)
    BY <1>3, <1>6
  <1>9. \A n \in 1..N : u[n - 1] \in Turning => u[n] \in Turning
    BY <1>8, TurnIs
  <1>10. u[N] \in Turning
    BY <1>3, <1>4, <1>7, <1>9, Stays
  <1> QED
    BY <1>2, <1>10

-----------------------------------------------------------------------------
(* The invariant. *)

\* What the actions leave: the same string, or one that has its room, and an answer.
Kind(a) == a = None \/ a[1] \in Kinds
\* An answer is of a kind.
LEMMA AnswersKind ==
    ASSUME NEW kind \in Kinds, NEW v, Answers(kind, v)
    PROVE  Kind(answer')
  BY DEF Answers, Kind

\* A step that leaves the string alone,
LEMMA StaysSized ==
    ASSUME StringInv, Same, Kind(answer')
    PROVE  StringInv'
  BY DEF StringInv, Same, Kind, IsSized, IsRaw, STR

\* and one that leaves another.
LEMMA BecomesSized ==
    ASSUME NEW s, IsSized(s), str' = s, Kind(answer')
    PROVE  StringInv'
  BY DEF StringInv, Kind, IsSized, IsRaw, STR

\* Errors.
LEMMA FailsKeep == ASSUME StringInv, Fails PROVE StringInv'
  <1>1. Same /\ Answers("error", None)
    BY DEF Fails
  <1>2. Kind(answer')
    BY <1>1, AnswersKind DEF Kinds
  <1> QED
    BY <1>1, <1>2, StaysSized

\* Answers about the string as it is.
LEMMA SameKeeps ==
    ASSUME StringInv, Same, NEW kind \in Kinds, NEW v, Answers(kind, v)
    PROVE  StringInv'
  <1>1. Kind(answer')
    BY AnswersKind
  <1> QED
    BY <1>1, StaysSized

\* Answers with another string.
LEMMA GivesSized ==
    ASSUME NEW s, IsSized(s), str' = s, NEW kind \in Kinds, NEW v, Answers(kind, v)
    PROVE  StringInv'
  <1>1. Kind(answer')
    BY AnswersKind
  <1> QED
    BY <1>1, BecomesSized

\* Changes that may fail,
LEMMA ChangesKeep ==
    ASSUME StringInv, NEW s, IsSized(s), NEW need, Changes(need, s)
    PROVE  StringInv'
  <1>1. CASE Fails
    BY <1>1, FailsKeep
  <1>2. CASE str' = s /\ Answers("ok", None)
    BY <1>2, GivesSized DEF Kinds
  <1> QED
    BY <1>1, <1>2 DEF Changes

\* and changes that do not.
LEMMA InPlaceKeeps ==
    ASSUME NEW s, IsSized(s), InPlace(s)
    PROVE  StringInv'
  BY GivesSized DEF InPlace, Kinds

\* make-string gives n chars c.
LEMMA CopiesAre == ASSUME NEW n \in Nat, NEW c \in Char PROVE [i \in 1..n |-> c] \in Seq(Char)
  <1>1. PICK f \in [1..n -> Char] : f = [i \in 1..n |-> c]
    OBVIOUS
  <1>2. f \in Seq(Char)
    BY <1>1
  <1> QED
    BY <1>1, <1>2

\* Words that build a string.
LEMMA MakeKeeps ==
    ASSUME StringInv, NEW n \in Int, NEW c \in Char, Make(n, c)
    PROVE  StringInv'
  <1>1. CASE Fails
    BY <1>1, FailsKeep
  <1>2. CASE n >= 0 /\ str' = fth_make_string([i \in 1..n |-> c]) /\ Answers("ok", None)
    <2>1. [i \in 1..n |-> c] \in Seq(Char)
      BY <1>2, CopiesAre
    <2>2. IsSized(fth_make_string([i \in 1..n |-> c]))
      BY <2>1, MakeSized
    <2> QED
      BY <1>2, <2>2, GivesSized DEF Kinds
  <1> QED
    BY <1>1, <1>2 DEF Make, MakeFails

\* >string and string-concat.
LEMMA ValuesKeep ==
    ASSUME StringInv, NEW s \in Seq(Char), NEW t \in Seq(Char), ValuesToString(s, t)
    PROVE  StringInv'
  <1>1. PICK last : last = fth_string_unshift(fth_make_string(<<>>), t)
    OBVIOUS
  <1>2. <<>> \in Seq(Char) /\ s \in Seq(Cell) /\ t \in Seq(Cell)
    BY CharsAre
  <1>3. IsSized(fth_make_string(<<>>))
    BY <1>2, MakeSized
  <1>4. IsSized(last)
    BY <1>1, <1>2, <1>3, UnshiftSized
  <1>5. IsSized(fth_string_unshift(last, s))
    BY <1>2, <1>4, UnshiftSized
  <1>7. CASE Fails
    BY <1>7, FailsKeep
  <1>8. CASE str' = fth_string_unshift(last, s) /\ Answers("ok", None)
    BY <1>5, <1>8, GivesSized DEF Kinds
  <1> QED
    BY <1>1, <1>7, <1>8 DEF ValuesToString

\* forth-string->string.
LEMMA ForthStringKeeps ==
    ASSUME StringInv, NEW n \in Int, NEW t \in Seq(Char), ForthStringToString(t, n)
    PROVE  StringInv'
  <1>1. PICK k \in Nat : k = IF n < Len(t) THEN n ELSE Len(t)
    BY DEF ForthStringToString
  <1>2. k <= Len(t) /\ SubSeq(t, 1, k) \in Seq(Char)
    BY <1>1
  <1>3. IsSized(fth_make_string(SubSeq(t, 1, k)))
    BY <1>2, MakeSized
  <1>4. str' = fth_make_string(SubSeq(t, 1, k)) /\ Answers("ok", None)
    BY <1>1 DEF ForthStringToString, fth_make_string_len
  <1> QED
    BY <1>3, <1>4, GivesSized DEF Kinds

\* An index, as the string counts it.
LEMMA NormIs == ASSUME StringInv, NEW idx \in Int PROVE Norm(idx) \in Int /\ str.length \in Nat /\ str.top \in Nat
  <1>1. str.length \in Nat /\ str.top \in Nat
    BY StrParts DEF StringInv
  <1> QED
    BY <1>1 DEF Norm

\* Words at an index.
LEMMA RefKeeps ==
    ASSUME StringInv, NEW idx \in Int, Ref(idx)
    PROVE  StringInv'
  <1>1. CASE Fails
    BY <1>1, FailsKeep
  <1>2. CASE Same /\ Answers("char", Rd(str.buf, str.top + Norm(idx)))
    BY <1>2, SameKeeps DEF Kinds
  <1> QED
    BY <1>1, <1>2 DEF Ref

\* string-set!.
LEMMA SetKeeps ==
    ASSUME StringInv, NEW idx \in Int, NEW c \in Char, Set(idx, c)
    PROVE  StringInv'
  <1>1. PICK s : s = [str EXCEPT !.buf = Store(@, str.top + Norm(idx), <<c>>)]
    OBVIOUS
  <1>2. ASSUME InRange(idx) PROVE IsSized(s)
    <2>1. c \in Cell
      BY DEF Cell
    <2>8. <<c>> \in Seq(Cell)
      BY <2>1
    <2>2. PICK t \in Seq(Cell) : t = <<c>> /\ Len(t) = 1
      BY <2>8
    <2>4. PICK n \in Nat : n = str.buf_length /\ str.buf \in [0..(n - 1) -> Cell] /\ str.top + str.length + 1 <= n
      BY StrParts DEF StringInv
    <2>9. 0 <= Norm(idx) /\ Norm(idx) < str.length /\ Norm(idx) \in Int /\ str.length \in Nat /\ str.top \in Nat
      BY <1>2, NormIs DEF InRange
    <2>3. PICK at \in Nat : at = str.top + Norm(idx) /\ at + Len(t) <= n
      BY <2>2, <2>4, <2>9
    <2>5. PICK b : b = Store(str.buf, at, t)
      OBVIOUS
    <2>6. b \in [DOMAIN str.buf -> Cell]
      BY <2>3, <2>4, <2>5, StrStored
    <2>7. s = [str EXCEPT !.buf = b]
      BY <1>1, <2>2, <2>3, <2>5
    <2> QED
      BY <2>6, <2>7, OtherSized DEF StringInv
  <1>4. CASE Fails
    BY <1>4, FailsKeep
  <1>5. CASE InRange(idx) /\ str' = s /\ Answers("ok", None)
    BY <1>2, <1>5, GivesSized DEF Kinds
  <1> QED
    BY <1>1, <1>4, <1>5 DEF Set

\* string-insert!.
LEMMA InsertKeeps ==
    ASSUME StringInv, NEW idx \in Int, NEW t \in Seq(Char), Insert(idx, t)
    PROVE  StringInv'
  <1>1. CASE Fails
    BY <1>1, FailsKeep
  <1>2. CASE ~Fails
    <2>1. PICK i \in Int : i = Norm(idx)
      BY NormIs
    <2>5. PICK n \in Nat : n = str.length
      BY NormIs
    <2>6. i = 0 \/ (0 <= i /\ i < n)
      BY <1>2, <2>1, <2>5 DEF Insert, InRange
    <2>2. i \in Nat /\ i <= str.length
      BY <2>5, <2>6
    <2>3. IsSized(fth_string_insert(str, i, t))
      BY <2>2, CharsAre, InsertSized DEF StringInv
    <2>4. \E need : Changes(need, fth_string_insert(str, i, t))
      BY <1>2, <2>1 DEF Insert
    <2> QED
      BY <2>3, <2>4, ChangesKeep
  <1> QED
    BY <1>1, <1>2

\* string-delete!.
LEMMA DeleteKeeps ==
    ASSUME StringInv, NEW idx \in Int, Delete(idx)
    PROVE  StringInv'
  <1>1. CASE Fails
    BY <1>1, FailsKeep
  <1>2. CASE Same /\ Answers("char", None)
    BY <1>2, SameKeeps DEF Kinds
  <1>3. CASE /\ InRange(idx) /\ str' = fth_string_delete(str, Norm(idx))
             /\ Answers("char", Rd(str.buf, str.top + Norm(idx)))
    <2>1. PICK i \in Int : i = Norm(idx)
      BY NormIs
    <2>2. i \in Nat /\ i < str.length
      BY <1>3, <2>1 DEF InRange
    <2>3. IsSized(fth_string_delete(str, i))
      BY <2>2, DeleteSized DEF StringInv
    <2> QED
      BY <1>3, <2>1, <2>3, GivesSized DEF Kinds
  <1> QED
    BY <1>1, <1>2, <1>3 DEF Delete

\* Words at the ends.
LEMMA PushKeeps ==
    ASSUME StringInv, NEW t \in Seq(Cell), Push(t)
    PROVE  StringInv'
  <1>1. PICK s : s = fth_string_push(str, t)
    OBVIOUS
  <1>2. IsSized(s)
    BY <1>1, PushSized DEF StringInv
  <1>3. \E need : Changes(need, s)
    BY <1>1 DEF Push
  <1> QED
    BY <1>2, <1>3, ChangesKeep

\* A push of the string itself.
LEMMA PushSelfKeeps == ASSUME StringInv, PushSelf PROVE StringInv'
  <1>1. Contents(str) \in Seq(Cell)
    BY StrContents DEF StringInv
  <1> QED
    BY <1>1, PushKeeps DEF PushSelf

\* string-unshift.
LEMMA UnshiftKeeps ==
    ASSUME StringInv, NEW t \in Seq(Cell), Unshift(t)
    PROVE  StringInv'
  <1>1. PICK s : s = fth_string_unshift(str, t)
    OBVIOUS
  <1>2. IsSized(s)
    BY <1>1, UnshiftSized DEF StringInv
  <1>3. \E need : Changes(need, s)
    BY <1>1 DEF Unshift
  <1> QED
    BY <1>2, <1>3, ChangesKeep

\* With the string itself.
LEMMA UnshiftItselfKeeps == ASSUME StringInv, UnshiftItself PROVE StringInv'
  <1>1. PICK s : s = UnshiftSelf(str)
    OBVIOUS
  <1>2. IsSized(s)
    BY <1>1, UnshiftSized DEF StringInv
  <1>3. \E need : Changes(need, s)
    BY <1>1 DEF UnshiftItself
  <1> QED
    BY <1>2, <1>3, ChangesKeep

\* string-pop and string-shift.
LEMMA PopKeeps == ASSUME StringInv, Pop \/ Shift PROVE StringInv'
  <1>1. str.length \in Nat
    BY StrParts DEF StringInv
  <1>2. CASE Same /\ Answers("char", None)
    BY <1>2, SameKeeps DEF Kinds
  <1>3. ASSUME str.length # 0, NEW v, Answers("char", v), str' = fth_string_pop(str) \/ str' = fth_string_shift(str)
        PROVE  StringInv'
    <2>1. str.length > 0
      BY <1>1, <1>3
    <2>2. IsSized(fth_string_pop(str)) /\ IsSized(fth_string_shift(str))
      BY <2>1, PopSized, ShiftSized DEF StringInv
    <2> QED
      BY <1>3, <2>2, GivesSized DEF Kinds
  <1>4. CASE Pop
    BY <1>2, <1>3, <1>4 DEF Pop
  <1>5. CASE Shift
    BY <1>2, <1>3, <1>5 DEF Shift
  <1> QED
    BY <1>4, <1>5

\* Words that change the chars in place.
LEMMA CasesKeep ==
    ASSUME StringInv, Upcase \/ Downcase \/ Capitalize \/ Chomp \/ (\E c \in Char : Fill(c))
    PROVE  StringInv'
  <1>1. IsSized(str)
    BY DEF StringInv
  <1>2. PICK s : InPlace(s) /\ s \in {fth_string_upcase(str), fth_string_downcase(str), fth_string_capitalize(str),
                     fth_string_chomp(str)} \cup {fth_string_fill(str, c) : c \in Char}
    BY DEF Upcase, Downcase, Capitalize, Chomp, Fill
  <1>3. \A c \in Char : IsSized(fth_string_fill(str, c))
    BY <1>1, FillSized
  <1>4. IsSized(s)
    BY <1>1, <1>2, <1>3, CaseSized, ChompSized
  <1> QED
    BY <1>2, <1>4, InPlaceKeeps

\* string-reverse!.
LEMMA ReverseKeeps == ASSUME StringInv, ReverseBang PROVE StringInv'
  <1>1. IsSized(str)
    BY DEF StringInv
  <1>2. PICK c \in CString(str) :
            str' = IF c = Stray THEN Unknown(str)
                   ELSE [str EXCEPT !.buf = [j \in DOMAIN str.buf |->
                            IF str.top <= j /\ j < str.top + str.length
                            THEN c[str.length - (j - str.top)] ELSE str.buf[j]]]
    BY DEF ReverseBang, EachChar
  <1>3. c = Stray \/ c = Contents(str)
    BY <1>2 DEF CString
  <1>4. PICK rev : rev = [j \in DOMAIN str.buf |->
               IF str.top <= j /\ j < str.top + str.length THEN Contents(str)[str.length - (j - str.top)]
               ELSE str.buf[j]]
    OBVIOUS
  <1>5. str' = Unknown(str) \/ str' = [str EXCEPT !.buf = rev]
    BY <1>2, <1>3, <1>4
  <1>6. IsSized(Unknown(str)) /\ IsSized([str EXCEPT !.buf = rev])
    BY <1>1, <1>4, ChompSized, ReverseSized
  <1>7. Answers("ok", None) \/ Answers("overrun", None)
    BY DEF ReverseBang
  <1> QED
    BY <1>5, <1>6, <1>7, GivesSized DEF Kinds

\* string-replace!.
LEMMA ReplaceKeeps ==
    ASSUME StringInv, NEW from \in Seq(Char), NEW to \in Seq(Char), Replace(from, to)
    PROVE  StringInv'
  <1>1. IsSized(str)
    BY DEF StringInv
  <1>2. CASE Same /\ Answers("ok", None)
    BY <1>2, SameKeeps DEF Kinds
  <1>3. CASE Len(to) = 1 /\ str' = OneForOne(str, from[1], to[1]) /\ Answers("ok", None)
    <2>1. to[1] \in Char
      BY <1>3
    <2>2. IsSized(OneForOne(str, from[1], to[1]))
      BY <1>1, <2>1, FillSized
    <2> QED
      BY <1>3, <2>2, GivesSized DEF Kinds
  <1>4. ASSUME NEW moves \in BOOLEAN, NEW r, r = Replacement(str, from, to, moves), NEW kind \in Kinds,
               Answers(kind, None), str' \in {Unknown(str), Unknown(r.s), r.s}
        PROVE  StringInv'
    <2>1. r \in Turning
      BY <1>1, <1>4, ReplacementIs
    <2>2. IsSized(r.s)
      BY <2>1, StringsAre DEF Turning
    <2>3. IsSized(Unknown(str)) /\ IsSized(Unknown(r.s))
      BY <1>1, <2>2, ChompSized
    <2> QED
      BY <1>4, <2>2, <2>3, GivesSized
  <1>5. CASE \E c \in CString(str), moves \in BOOLEAN :
                LET r == Replacement(str, from, to, moves)
                IN  IF c = Stray
                    THEN str' = Unknown(str) /\ \E kind \in {"stray", "overrun"} : Answers(kind, None)
                    ELSE /\ str' = IF r.moved THEN Unknown(r.s) ELSE r.s
                         /\ Answers(IF r.moved THEN "overrun" ELSE IF r.fails THEN "error" ELSE "ok",
                                    None)
    <2>1. PICK c \in CString(str), moves \in BOOLEAN :
                LET r == Replacement(str, from, to, moves)
                IN  IF c = Stray
                    THEN str' = Unknown(str) /\ \E kind \in {"stray", "overrun"} : Answers(kind, None)
                    ELSE /\ str' = IF r.moved THEN Unknown(r.s) ELSE r.s
                         /\ Answers(IF r.moved THEN "overrun" ELSE IF r.fails THEN "error" ELSE "ok",
                                    None)
      BY <1>5
    <2>2. PICK r : r = Replacement(str, from, to, moves)
      OBVIOUS
    <2>3. CASE c = Stray
      BY <1>4, <2>1, <2>2, <2>3 DEF Kinds
    <2>4. CASE c # Stray
      <3>1. PICK kind : kind = IF r.moved THEN "overrun" ELSE IF r.fails THEN "error" ELSE "ok"
        OBVIOUS
      <3>2. kind \in Kinds
        BY <3>1 DEF Kinds
      <3>3. Answers(kind, None) /\ str' \in {Unknown(r.s), r.s}
        BY <2>1, <2>2, <2>4, <3>1
      <3> QED
        BY <1>4, <2>2, <3>2, <3>3
    <2> QED
      BY <2>3, <2>4
  <1> QED
    BY <1>2, <1>3, <1>5 DEF Replace

\* Words that only look.
LEMMA LooksKeep ==
    ASSUME StringInv, Same, NEW kind \in Kinds, (\E v : Answers(kind, v)) \/ Answers("stray", None)
    PROVE  StringInv'
  BY SameKeeps DEF Kinds

\* Those that take the C string.
LEMMA WordsLook ==
    ASSUME NEW t, NEW k \in {"copy", "append", "cmp", "equal", "not-equal", "less", "greater", "index", "member",
                             "find", "split"},
           \/ k = "copy" /\ CopyString
           \/ k = "append" /\ StringAppend(t)
           \/ k = "cmp" /\ StringCmp(t)
           \/ k = "equal" /\ StringEqual(t)
           \/ k = "not-equal" /\ StringNotEqual(t)
           \/ k = "less" /\ StringLess(t)
           \/ k = "greater" /\ StringGreater(t)
           \/ k = "index" /\ StringIndex(t)
           \/ k = "member" /\ StringMember(t)
           \/ k = "find" /\ StringFind(t)
           \/ k = "split" /\ str.length # 0 /\ StringSplit(t)
    PROVE  Same /\ ((\E v : Answers(k, v)) \/ Answers("stray", None))
  <1>1. CASE k = "copy" /\ CopyString
    BY <1>1 DEF CopyString, OfCString
  <1>2. CASE k = "append" /\ StringAppend(t)
    BY <1>2 DEF StringAppend, OfCString
  <1>3. CASE k = "cmp" /\ StringCmp(t)
    BY <1>3 DEF StringCmp, OfCString
  <1>4. CASE k = "equal" /\ StringEqual(t)
    BY <1>4 DEF StringEqual, OfCString
  <1>5. CASE k = "not-equal" /\ StringNotEqual(t)
    BY <1>5 DEF StringNotEqual, OfCString
  <1>6. CASE k = "less" /\ StringLess(t)
    BY <1>6 DEF StringLess, OfCString
  <1>7. CASE k = "greater" /\ StringGreater(t)
    BY <1>7 DEF StringGreater, OfCString
  <1>8. CASE k = "index" /\ StringIndex(t)
    BY <1>8 DEF StringIndex, OfCString
  <1>9. CASE k = "member" /\ StringMember(t)
    BY <1>9 DEF StringMember, OfCString
  <1>10. CASE k = "find" /\ StringFind(t)
    BY <1>10 DEF StringFind, OfCString
  <1>11. CASE k = "split" /\ str.length # 0 /\ StringSplit(t)
    BY <1>11 DEF StringSplit, OfCString
  <1> QED
    BY <1>1, <1>2, <1>3, <1>4, <1>5, <1>6, <1>7, <1>8, <1>9, <1>10, <1>11

\* They keep the string,
LEMMA WordsKeep ==
    ASSUME StringInv, NEW t,
           \/ CopyString \/ StringAppend(t) \/ StringCmp(t) \/ StringEqual(t) \/ StringNotEqual(t) \/ StringLess(t)
           \/ StringGreater(t) \/ StringIndex(t) \/ StringMember(t) \/ StringFind(t)
    PROVE  StringInv'
  <1>1. \E k \in {"copy", "append", "cmp", "equal", "not-equal", "less", "greater", "index", "member", "find",
                   "split"} :
            Same /\ ((\E v : Answers(k, v)) \/ Answers("stray", None))
    BY WordsLook
  <1> QED
    BY <1>1, LooksKeep DEF Kinds

\* and so do the others.
LEMMA OthersLook ==
    ASSUME StringInv, NEW t, NEW i, NEW j,
           StringSplit(t) \/ ObjectEqual(t) \/ Substring(i, j) \/ StringLength \/ ToArray
    PROVE  StringInv'
  <1>1. CASE StringSplit(t) /\ str.length = 0
    <2>1. Same /\ Answers("split", <<<<>>>>)
      BY <1>1 DEF StringSplit
    <2> QED
      BY <2>1, SameKeeps DEF Kinds
  <1>2. CASE StringSplit(t) /\ str.length # 0
    <2>1. Same /\ ((\E v : Answers("split", v)) \/ Answers("stray", None))
      BY <1>2, WordsLook
    <2> QED
      BY <2>1, LooksKeep DEF Kinds
  <1>3. CASE ObjectEqual(t)
    <2>1. CASE Same /\ Answers("equal", str.length = Len(t))
      BY <2>1, SameKeeps DEF Kinds
    <2>2. CASE StringEqual(t)
      BY <2>2, WordsKeep
    <2> QED
      BY <1>3, <2>1, <2>2 DEF ObjectEqual
  <1>4. CASE Substring(i, j)
    <2>1. CASE Fails
      BY <2>1, FailsKeep
    <2>2. CASE Same /\ \E v : Answers("substring", v)
      BY <2>2, SameKeeps DEF Kinds
    <2> QED
      BY <1>4, <2>1, <2>2 DEF Substring
  <1>5. CASE StringLength
    BY <1>5, SameKeeps DEF StringLength, Kinds
  <1>6. CASE ToArray
    BY <1>6, SameKeeps DEF ToArray, Kinds
  <1> QED
    BY <1>1, <1>2, <1>3, <1>4, <1>5, <1>6

\* So does taking the answer.
LEMMA TakeKeeps == ASSUME StringInv, Take PROVE StringInv'
  <1>1. Kind(answer') /\ Same
    BY DEF Take, Kind
  <1> QED
    BY <1>1, StaysSized

\* The empty string has its room, and a step leaves a string that has.
LEMMA StringStarts == ASSUME Init PROVE StringInv
  <1>1. <<>> \in Seq(Char)
    OBVIOUS
  <1>2. IsSized(str)
    BY <1>1, MakeSized DEF Init
  <1> QED
    BY <1>2 DEF Init, StringInv

\* So does a step.
LEMMA StringStep ==
    ASSUME StringInv, [Next]_vars
    PROVE  StringInv'
  <1>1. CASE UNCHANGED vars
    BY <1>1 DEF vars, StringInv, IsSized, IsRaw, STR
  <1>2. CASE Take \/ Lost
    BY <1>1, <1>2, TakeKeeps DEF Lost
  <1>3. ASSUME NEW n \in Length, \/ \E c \in Char : Make(n, c)
                                 \/ \E t \in Added : ForthStringToString(t, n)
        PROVE  StringInv'
    BY <1>3, MakeKeeps, ForthStringKeeps, StringAssumption
  <1>4. ASSUME NEW s \in Added, NEW t \in Added, ValuesToString(s, t) \/ Replace(s, t)
        PROVE  StringInv'
    BY <1>4, ValuesKeep, ReplaceKeeps, StringAssumption
  <1>5. CASE StringLength \/ ToArray \/ Pop \/ Shift \/ PushSelf \/ UnshiftItself
    BY <1>5, OthersLook, PopKeeps, PushSelfKeeps, UnshiftItselfKeeps
  <1>6. CASE Upcase \/ Downcase \/ Capitalize \/ Chomp \/ ReverseBang \/ CopyString \/ (\E c \in Char : Fill(c))
    BY <1>6, CasesKeep, ReverseKeeps, WordsKeep
  <1>7. ASSUME NEW i \in Index,
               \/ Ref(i) \/ Delete(i)
               \/ \E c \in Char : Set(i, c)
               \/ \E t \in Added : Insert(i, t)
               \/ \E j \in Index : Substring(i, j)
        PROVE  StringInv'
    <2>1. i \in Int
      BY StringAssumption
    <2>2. CASE Ref(i) \/ Delete(i)
      BY <2>1, <2>2, RefKeeps, DeleteKeeps
    <2>3. CASE \E c \in Char : Set(i, c)
      BY <2>1, <2>3, SetKeeps
    <2>4. CASE \E t \in Added : Insert(i, t)
      BY <2>1, <2>4, InsertKeeps, StringAssumption
    <2>5. CASE \E j \in Index : Substring(i, j)
      BY <2>5, OthersLook
    <2> QED
      BY <1>7, <2>2, <2>3, <2>4, <2>5
  <1>8. ASSUME NEW t \in Added,
               \/ Push(t) \/ Unshift(t) \/ StringAppend(t) \/ StringCmp(t) \/ StringEqual(t)
               \/ StringNotEqual(t) \/ StringLess(t) \/ StringGreater(t) \/ ObjectEqual(t)
               \/ StringMember(t) \/ StringIndex(t) \/ StringFind(t) \/ StringSplit(t)
        PROVE  StringInv'
    <2>1. t \in Seq(Char)
      BY StringAssumption
    <2>2. t \in Seq(Cell)
      BY <2>1, CharsAre
    <2>3. CASE Push(t) \/ Unshift(t)
      BY <2>2, <2>3, PushKeeps, UnshiftKeeps
    <2>4. CASE ObjectEqual(t) \/ StringSplit(t)
      BY <2>4, OthersLook
    <2>5. CASE \/ StringAppend(t) \/ StringCmp(t) \/ StringEqual(t) \/ StringNotEqual(t) \/ StringLess(t)
               \/ StringGreater(t) \/ StringIndex(t) \/ StringMember(t) \/ StringFind(t)
      BY <2>5, WordsKeep
    <2> QED
      BY <1>8, <2>3, <2>4, <2>5
  <1> QED
    BY <1>1, <1>2, <1>3, <1>4, <1>5, <1>6, <1>7, <1>8 DEF Next

\* The string that has its room is in its buffer.
LEMMA StringInvIs == ASSUME StringInv PROVE TextInBuffer
  <1>1. /\ str.length \in Nat /\ str.buf_length \in Nat /\ str.top \in Nat /\ str.top >= 1
        /\ str.buf \in [0..(str.buf_length - 1) -> Cell] /\ str.top + str.length + 1 <= str.buf_length
    BY StrParts DEF StringInv
  <1> QED
    BY <1>1 DEF TextInBuffer, TypeOK, StringInv

\* A string's chars and their NUL stay inside the buffer, and the cell before them.
THEOREM TextStays == Spec => []TextInBuffer
  <1>1. Init => StringInv
    BY StringStarts
  <1>2. StringInv /\ [Next]_vars => StringInv'
    BY StringStep
  <1>3. StringInv => TextInBuffer
    BY StringInvIs
  <1> QED
    BY <1>1, <1>2, <1>3, PTL DEF Spec
=============================================================================
