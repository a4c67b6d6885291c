--------------------------- MODULE FthArrayProofs ---------------------------
(***************************************************************************)
(* Proofs about the arrays and lists of FthList, for any values, any chunk  *)
(* and any largest buffer.                                                  *)
(***************************************************************************)
EXTENDS FthList, WellFoundedInduction, TLAPS

-----------------------------------------------------------------------------
(* Numbers. *)

\* NEW_SEQ_LENGTH gives more than it is asked for, by a chunk at most.
LEMMA Rounding ==
    ASSUME NEW n \in Nat
    PROVE  NewSeqLength(n) \in Nat /\ n < NewSeqLength(n) /\ NewSeqLength(n) <= n + DEFAULT_SEQ_LENGTH
  <1>1. /\ n \div DEFAULT_SEQ_LENGTH \in Nat
        /\ (n \div DEFAULT_SEQ_LENGTH) * DEFAULT_SEQ_LENGTH <= n
        /\ n < ((n \div DEFAULT_SEQ_LENGTH) + 1) * DEFAULT_SEQ_LENGTH
    BY SeqAssumption
  <1> QED
    BY <1>1, SeqAssumption DEF NewSeqLength

\* It gives no less to who asks for more.
LEMMA RoundingUp ==
    ASSUME NEW n \in Nat, NEW m \in Nat, n <= m
    PROVE  NewSeqLength(n) <= NewSeqLength(m)
  <1>1. PICK x, y, d : x = n \div DEFAULT_SEQ_LENGTH /\ y = m \div DEFAULT_SEQ_LENGTH /\ d = DEFAULT_SEQ_LENGTH
    OBVIOUS
  <1>2. /\ x \in Nat /\ y \in Nat /\ d \in Nat \ {0}
        /\ x * d <= n /\ m < (y + 1) * d
    BY <1>1, SeqAssumption
  <1>3. x < y + 1
    BY <1>2
  <1>4. (x + 1) * d <= (y + 1) * d
    BY <1>2, <1>3
  <1> QED
    BY <1>1, <1>4 DEF NewSeqLength

\* A third and a half.
LEMMA Halves ==
    ASSUME NEW n \in Nat
    PROVE  /\ n \div 3 \in Nat /\ 3 * (n \div 3) <= n
           /\ n \div 2 \in Nat /\ 2 * (n \div 2) <= n /\ n <= 2 * (n \div 2) + 1
  OBVIOUS

-----------------------------------------------------------------------------
(* The records of arrays. *)

ARR(l, n, t, b) == [length |-> l, buf_length |-> n, top |-> t, buf |-> b]
Fits(a) ==
    /\ a.buf \in [0..(a.buf_length - 1) -> Cell]
    /\ a.top + a.length <= a.buf_length
    /\ a.buf_length <= MAX_SEQ_LENGTH
    /\ 2 * a.top <= MAX_SEQ_LENGTH + 1
Buffers == UNION {[0..(n - 1) -> Cell] : n \in Nat}
Arrays == {a \in [length : Nat, buf_length : Nat, top : Nat, buf : Buffers] : Fits(a)}

\* What an array is made of.
LEMMA ArrayIs ==
    ASSUME NEW a \in Arrays
    PROVE  /\ a = ARR(a.length, a.buf_length, a.top, a.buf)
           /\ a.length \in Nat /\ a.buf_length \in Nat /\ a.top \in Nat
           /\ a.buf \in [0..(a.buf_length - 1) -> Cell]
           /\ a.top + a.length <= a.buf_length
           /\ a.buf_length <= MAX_SEQ_LENGTH /\ 2 * a.top <= MAX_SEQ_LENGTH + 1
  <1>1. PICK Dom : Dom = [length : Nat, buf_length : Nat, top : Nat, buf : Buffers]
    OBVIOUS
  <1>2. a \in Dom /\ Fits(a)
    BY <1>1 DEF Arrays
  <1>3. a \in [length : Nat, buf_length : Nat, top : Nat, buf : Buffers]
    BY <1>1, <1>2
  <1>4. a = ARR(a.length, a.buf_length, a.top, a.buf) /\ a.length \in Nat /\ a.buf_length \in Nat /\ a.top \in Nat
    BY <1>3 DEF ARR
  <1> QED
    BY <1>2, <1>4 DEF Fits

\* What makes an array.
LEMMA IsArray ==
    ASSUME NEW l \in Nat, NEW n \in Nat, NEW t \in Nat, NEW b \in [0..(n - 1) -> Cell],
           t + l <= n, n <= MAX_SEQ_LENGTH, 2 * t <= MAX_SEQ_LENGTH + 1
    PROVE  ARR(l, n, t, b) \in Arrays
  <1>1. b \in Buffers
    BY DEF Buffers
  <1>2. PICK a : a = ARR(l, n, t, b)
    OBVIOUS
  <1>3. a.length = l /\ a.buf_length = n /\ a.top = t /\ a.buf = b
    BY <1>2 DEF ARR
  <1>4. Fits(a)
    BY <1>3 DEF Fits
  <1>5. a \in [length : Nat, buf_length : Nat, top : Nat, buf : Buffers]
    BY <1>1, <1>2 DEF ARR
  <1> QED
    BY <1>2, <1>4, <1>5 DEF Arrays

-----------------------------------------------------------------------------
(* Buffers. *)

\* A cell of a buffer, and what is outside of it.
LEMMA Reading ==
    ASSUME NEW n \in Nat, NEW b \in [0..(n - 1) -> Cell], NEW j \in Int
    PROVE  Rd(b, j) \in Cell /\ (j \in 0..(n - 1) => Rd(b, j) = b[j])
  BY DEF Rd, Cell

\* realloc keeps the cells there are.
LEMMA Reallocated ==
    ASSUME NEW n \in Nat, NEW b \in [0..(n - 1) -> Cell], NEW m \in Nat
    PROVE  /\ Realloc(b, m) \in [0..(m - 1) -> Cell]
           /\ \A j \in 0..(m - 1) : j < n => Realloc(b, m)[j] = b[j]
  <1>1. \A j \in 0..(m - 1) : Rd(b, j) \in Cell /\ (j \in 0..(n - 1) => Rd(b, j) = b[j])
    BY Reading
  <1>2. \A j \in 0..(m - 1) : j < n => j \in 0..(n - 1)
    OBVIOUS
  <1>3. 0..(m - 1) \cup (DOMAIN b \cap {Beyond}) = 0..(m - 1)
    BY DEF Beyond
  <1>4. Realloc(b, m) = [j \in 0..(m - 1) |-> Rd(b, j)]
    BY <1>3 DEF Realloc
  <1> QED
    BY <1>1, <1>2, <1>4

\* A write inside the block makes no other cells.
LEMMA WrittenInside ==
    ASSUME NEW n \in Nat, NEW b \in [0..(n - 1) -> Cell], NEW at \in Nat, NEW k \in Nat, at + k <= n
    PROVE  Written(b, at, k) = 0..(n - 1)
  <1>1. at..(at + k - 1) \subseteq 0..(n - 1)
    OBVIOUS
  <1>2. DOMAIN b = 0..(n - 1)
    OBVIOUS
  <1> QED
    BY <1>1, <1>2 DEF Written

\* A buffer without the cell that stands for what is around it.
LEMMA NotBeyond ==
    ASSUME NEW a, NEW n \in Nat, a.buf \in [0..(n - 1) -> Cell]
    PROVE  InBlock(a)
  <1>1. DOMAIN a.buf = 0..(n - 1) /\ -1 \notin 0..(n - 1)
    OBVIOUS
  <1> QED
    BY <1>1 DEF InBlock, Beyond

\* What c is after a memmove, a store and a Keep.
IsMoved(n, b, dst, src, k, c) ==
    /\ c \in [0..(n - 1) -> Cell]
    /\ \A j \in 0..(n - 1) : c[j] = IF dst <= j /\ j < dst + k THEN b[j - dst + src] ELSE b[j]
IsStored(n, b, at, s, c) ==
    /\ c \in [0..(n - 1) -> Cell]
    /\ \A j \in 0..(n - 1) : c[j] = IF at <= j /\ j < at + Len(s) THEN s[j - at + 1] ELSE b[j]
IsKept(n, b, from, k, c) ==
    /\ c \in [0..(n - 1) -> Cell]
    /\ \A j \in 0..(n - 1) : from <= j /\ j < from + k => c[j] = b[j]

\* memmove between cells there are.
LEMMA Moved ==
    ASSUME NEW n \in Nat, NEW b \in [0..(n - 1) -> Cell], NEW dst \in Nat, NEW src \in Nat, NEW k \in Nat,
           src + k <= n, dst + k <= n
    PROVE  IsMoved(n, b, dst, src, k, MemMove(b, dst, src, k))
  <1>1. \A j \in 0..(n - 1) : dst <= j /\ j < dst + k => j - dst + src \in 0..(n - 1)
    OBVIOUS
  <1>2. \A j \in 0..(n - 1) : dst <= j /\ j < dst + k => Rd(b, j - dst + src) = b[j - dst + src]
    BY <1>1, Reading
  <1>3. \A j \in 0..(n - 1) : Rd(b, j) = b[j]
    BY Reading
  <1>4. Written(b, dst, k) = 0..(n - 1)
    BY WrittenInside
  <1>5. MemMove(b, dst, src, k) =
           [j \in 0..(n - 1) |-> IF dst <= j /\ j < dst + k THEN Rd(b, j - dst + src) ELSE Rd(b, j)]
    BY <1>4 DEF MemMove
  <1>6. \A j \in 0..(n - 1) : MemMove(b, dst, src, k)[j] =
           IF dst <= j /\ j < dst + k THEN b[j - dst + src] ELSE b[j]
    BY <1>2, <1>3, <1>5
  <1>7. \A j \in 0..(n - 1) :
           (IF dst <= j /\ j < dst + k THEN Rd(b, j - dst + src) ELSE Rd(b, j)) \in Cell
    BY <1>1, <1>2, <1>3
  <1>8. MemMove(b, dst, src, k) \in [0..(n - 1) -> Cell]
    BY <1>5, <1>7
  <1> QED
    BY <1>6, <1>8 DEF IsMoved

\* Elements stored in a buffer.
LEMMA Stored ==
    ASSUME NEW n \in Nat, NEW b \in [0..(n - 1) -> Cell], NEW at \in Nat, NEW s \in Seq(Cell), at + Len(s) <= n
    PROVE  IsStored(n, b, at, s, Store(b, at, s))
  <1>1. \A j \in 0..(n - 1) : at <= j /\ j < at + Len(s) => j - at + 1 \in 1..Len(s) /\ s[j - at + 1] \in Cell
    OBVIOUS
  <1>2. \A j \in 0..(n - 1) : (IF at <= j /\ j < at + Len(s) THEN s[j - at + 1] ELSE b[j]) \in Cell
    BY <1>1
  <1>3. \A j \in 0..(n - 1) : Rd(b, j) = b[j]
    BY Reading
  <1>4. Len(s) \in Nat
    OBVIOUS
  <1>5. Written(b, at, Len(s)) = 0..(n - 1)
    BY <1>4, WrittenInside
  <1>6. Store(b, at, s) = [j \in 0..(n - 1) |-> IF at <= j /\ j < at + Len(s) THEN s[j - at + 1] ELSE Rd(b, j)]
    BY <1>5 DEF Store
  <1>7. Store(b, at, s) = [j \in 0..(n - 1) |-> IF at <= j /\ j < at + Len(s) THEN s[j - at + 1] ELSE b[j]]
    BY <1>3, <1>6
  <1> QED
    BY <1>2, <1>7 DEF IsStored

\* One cell stored.
IsSet(n, b, at, v, c) ==
    /\ c \in [0..(n - 1) -> Cell]
    /\ \A j \in 0..(n - 1) : c[j] = IF j = at THEN v ELSE b[j]

\* One of them.
LEMMA StoredOne ==
    ASSUME NEW n \in Nat, NEW b \in [0..(n - 1) -> Cell], NEW at \in Nat, NEW v \in Cell, at < n
    PROVE  IsSet(n, b, at, v, Store(b, at, <<v>>))
  <1>1. PICK u, c : u = <<v>> /\ c = Store(b, at, u)
    OBVIOUS
  <1>2. u \in Seq(Cell) /\ Len(u) = 1 /\ u[1] = v /\ at + Len(u) <= n
    BY <1>1
  <1>3. IsStored(n, b, at, u, c)
    BY <1>1, <1>2, Stored
  <1>4. c \in [0..(n - 1) -> Cell] /\ \A j \in 0..(n - 1) : c[j] = IF j = at THEN v ELSE b[j]
    BY <1>2, <1>3 DEF IsStored
  <1> QED
    BY <1>1, <1>4 DEF IsSet

\* Settle's buffer has the data.
LEMMA Kept ==
    ASSUME NEW n \in Nat, NEW b \in [0..(n - 1) -> Cell], NEW from \in Nat, NEW k \in Nat
    PROVE  IsKept(n, b, from, k, Keep(b, from, k))
  BY DEF Keep, Cell, IsKept

\* calloc.
LEMMA Unset ==
    ASSUME NEW n \in Nat
    PROVE  Fresh(n) \in [0..(n - 1) -> Cell]
  BY DEF Fresh, Cell

\* An array with some of its fields changed.
LEMMA EditedBuf ==
    ASSUME NEW a \in Arrays, NEW c
    PROVE  [a EXCEPT !.buf = c] = ARR(a.length, a.buf_length, a.top, c)
  <1>1. PICK l, n, p, b : /\ l = a.length /\ n = a.buf_length /\ p = a.top /\ b = a.buf
    OBVIOUS
  <1>2. a = [length |-> l, buf_length |-> n, top |-> p, buf |-> b]
    BY <1>1, ArrayIs DEF ARR
  <1>3. PICK e : e = [a EXCEPT !.buf = c]
    OBVIOUS
  <1>4. /\ e = [x \in {"length", "buf_length", "top", "buf"} |-> e[x]]
        /\ e.length = l /\ e.buf_length = n /\ e.top = p /\ e.buf = c
    BY <1>2, <1>3
  <1> QED
    BY <1>1, <1>3, <1>4 DEF ARR

\* The record with another length.
LEMMA EditedLength ==
    ASSUME NEW a \in Arrays, NEW m
    PROVE  [a EXCEPT !.length = m] = ARR(m, a.buf_length, a.top, a.buf)
  <1>1. PICK l, n, p, b : /\ l = a.length /\ n = a.buf_length /\ p = a.top /\ b = a.buf
    OBVIOUS
  <1>2. a = [length |-> l, buf_length |-> n, top |-> p, buf |-> b]
    BY <1>1, ArrayIs DEF ARR
  <1>3. PICK e : e = [a EXCEPT !.length = m]
    OBVIOUS
  <1>4. /\ e = [x \in {"length", "buf_length", "top", "buf"} |-> e[x]]
        /\ e.length = m /\ e.buf_length = n /\ e.top = p /\ e.buf = b
    BY <1>2, <1>3
  <1> QED
    BY <1>1, <1>3, <1>4 DEF ARR

\* The record with another buffer of another length.
LEMMA EditedRoom ==
    ASSUME NEW a \in Arrays, NEW m, NEW c
    PROVE  [a EXCEPT !.buf_length = m, !.buf = c] = ARR(a.length, m, a.top, c)
  <1>1. PICK l, n, p, b : /\ l = a.length /\ n = a.buf_length /\ p = a.top /\ b = a.buf
    OBVIOUS
  <1>2. a = [length |-> l, buf_length |-> n, top |-> p, buf |-> b]
    BY <1>1, ArrayIs DEF ARR
  <1>3. PICK e : e = [a EXCEPT !.buf_length = m, !.buf = c]
    OBVIOUS
  <1>4. /\ e = [x \in {"length", "buf_length", "top", "buf"} |-> e[x]]
        /\ e.length = l /\ e.buf_length = m /\ e.top = p /\ e.buf = c
    BY <1>2, <1>3
  <1> QED
    BY <1>1, <1>3, <1>4 DEF ARR

\* The record with other data in its buffer.
LEMMA EditedData ==
    ASSUME NEW a \in Arrays, NEW m, NEW c
    PROVE  [a EXCEPT !.buf = c, !.length = m] = ARR(m, a.buf_length, a.top, c)
  <1>1. PICK l, n, p, b : /\ l = a.length /\ n = a.buf_length /\ p = a.top /\ b = a.buf
    OBVIOUS
  <1>2. a = [length |-> l, buf_length |-> n, top |-> p, buf |-> b]
    BY <1>1, ArrayIs DEF ARR
  <1>3. PICK e : e = [a EXCEPT !.buf = c, !.length = m]
    OBVIOUS
  <1>4. /\ e = [x \in {"length", "buf_length", "top", "buf"} |-> e[x]]
        /\ e.length = m /\ e.buf_length = n /\ e.top = p /\ e.buf = c
    BY <1>2, <1>3
  <1> QED
    BY <1>1, <1>3, <1>4 DEF ARR

\* What stays when an array's buffer grows or shrinks: everything but the cells behind the data.
SameData(a, g) ==
    /\ g \in Arrays /\ g.length = a.length /\ g.top = a.top
    /\ \A j \in 0..(a.top + a.length - 1) : g.buf[j] = a.buf[j]

\* The data survive a realloc that leaves room for them.
LEMMA ResizeKeeps ==
    ASSUME NEW a \in Arrays, NEW m \in Nat, a.top + a.length <= m, m <= MAX_SEQ_LENGTH
    PROVE  SameData(a, Resize(a, m)) /\ Resize(a, m).buf_length = m
  <1> DEFINE b == Realloc(a.buf, m)
  <1>1. /\ a.length \in Nat /\ a.buf_length \in Nat /\ a.top \in Nat
        /\ a.buf \in [0..(a.buf_length - 1) -> Cell] /\ a.top + a.length <= a.buf_length
        /\ 2 * a.top <= MAX_SEQ_LENGTH + 1
    BY ArrayIs
  <1>2. /\ b \in [0..(m - 1) -> Cell]
        /\ \A j \in 0..(m - 1) : j < a.buf_length => b[j] = a.buf[j]
    BY <1>1, Reallocated
  <1>3. PICK g : g = ARR(a.length, m, a.top, b)
    OBVIOUS
  <1>4. g = Resize(a, m)
    <2>1. PICK c : c = b
      OBVIOUS
    <2>2. [a EXCEPT !.buf_length = m, !.buf = c] = ARR(a.length, m, a.top, c)
      BY EditedRoom
    <2> QED
      BY <1>3, <2>1, <2>2 DEF Resize
  <1> HIDE DEF b
  <1>5. g \in Arrays
    BY <1>1, <1>2, <1>3, IsArray
  <1>6. g.length = a.length /\ g.top = a.top /\ g.buf = b /\ g.buf_length = m
    BY <1>3 DEF ARR
  <1>7. \A j \in 0..(a.top + a.length - 1) : g.buf[j] = a.buf[j]
    BY <1>1, <1>2, <1>6
  <1>8. SameData(a, g)
    BY <1>5, <1>6, <1>7 DEF SameData
  <1> QED
    BY <1>4, <1>6, <1>8

\* They survive the growth before an insertion, which makes room for `need' cells.
LEMMA GrowKeeps ==
    ASSUME NEW a \in Arrays, NEW need \in Nat, ~TooLong(a, need)
    PROVE  SameData(a, Grow(a, need)) /\ need <= Grow(a, need).buf_length
           /\ a.buf_length <= Grow(a, need).buf_length
  <1>1. /\ a.length \in Nat /\ a.buf_length \in Nat /\ a.top \in Nat
        /\ a.top + a.length <= a.buf_length
    BY ArrayIs
  <1>2. NewSeqLength(need) \in Nat /\ need < NewSeqLength(need)
    BY Rounding
  <1>3. CASE need > a.buf_length
    <2>1. NewSeqLength(need) <= MAX_SEQ_LENGTH
      BY <1>2, <1>3, SeqAssumption DEF TooLong
    <2>2. a.top + a.length <= NewSeqLength(need)
      BY <1>1, <1>2, <1>3
    <2>3. SameData(a, Resize(a, NewSeqLength(need))) /\ Resize(a, NewSeqLength(need)).buf_length = NewSeqLength(need)
      BY <1>2, <2>1, <2>2, ResizeKeeps
    <2> QED
      BY <1>1, <1>2, <1>3, <2>3 DEF Grow
  <1>4. CASE need <= a.buf_length
    BY <1>1, <1>4 DEF Grow, SameData
  <1> QED
    BY <1>1, <1>3, <1>4

\* They survive the shrinking after a deletion, which rounds up what is used.
LEMMA ShrinkKeeps ==
    ASSUME NEW a \in Arrays, NEW used \in Nat, a.top + a.length <= used + 1
    PROVE  SameData(a, Shrink(a, used))
  <1>1. /\ a.length \in Nat /\ a.buf_length \in Nat /\ a.top \in Nat
        /\ a.buf_length <= MAX_SEQ_LENGTH
    BY ArrayIs
  <1>2. NewSeqLength(used) \in Nat /\ used < NewSeqLength(used)
    BY Rounding
  <1>3. CASE NewSeqLength(used) < a.buf_length
    <2>1. a.top + a.length <= NewSeqLength(used) /\ NewSeqLength(used) <= MAX_SEQ_LENGTH
      BY <1>1, <1>2, <1>3, SeqAssumption
    <2> QED
      BY <1>2, <1>3, <2>1, ResizeKeeps DEF Shrink
  <1>4. CASE ~(NewSeqLength(used) < a.buf_length)
    BY <1>4 DEF Shrink, SameData
  <1> QED
    BY <1>3, <1>4

-----------------------------------------------------------------------------
(* The functions of array.c. *)

\* The array a has the elements s.
Holds(a, s) ==
    /\ a \in Arrays /\ s \in Seq(Cell) /\ a.length = Len(s)
    /\ \A i \in 1..Len(s) : a.buf[a.top + i - 1] = s[i]

\* An array holds its contents,
LEMMA HoldsContents ==
    ASSUME NEW a \in Arrays
    PROVE  Holds(a, Contents(a))
  <1>1. /\ a.length \in Nat /\ a.buf_length \in Nat /\ a.top \in Nat
        /\ a.buf \in [0..(a.buf_length - 1) -> Cell] /\ a.top + a.length <= a.buf_length
    BY ArrayIs
  <1>2. \A i \in 1..a.length : a.top + i - 1 \in 0..(a.buf_length - 1)
    BY <1>1
  <1>3. \A i \in 1..a.length : a.top + i - 1 \in Int
    BY <1>1
  <1>4. \A i \in 1..a.length : Rd(a.buf, a.top + i - 1) \in Cell /\ Rd(a.buf, a.top + i - 1) = a.buf[a.top + i - 1]
    BY <1>1, <1>2, <1>3, Reading
  <1>5. Contents(a) \in Seq(Cell) /\ Len(Contents(a)) = a.length
        /\ \A i \in 1..a.length : Contents(a)[i] = Rd(a.buf, a.top + i - 1)
    <2>1. PICK s : s = [i \in 1..a.length |-> Rd(a.buf, a.top + i - 1)]
      OBVIOUS
    <2>2. s \in [1..a.length -> Cell] /\ \A i \in 1..a.length : s[i] = Rd(a.buf, a.top + i - 1)
      BY <1>1, <1>4, <2>1
    <2>3. s \in Seq(Cell) /\ Len(s) = a.length
      <3>1. PICK l : l = a.length
        OBVIOUS
      <3>2. l \in Nat /\ s \in [1..l -> Cell]
        BY <1>1, <2>2, <3>1
      <3>3. s \in Seq(Cell) /\ Len(s) = l
        BY <3>2
      <3> QED
        BY <3>1, <3>3
    <2>4. Contents(a) = s
      BY <2>1 DEF Contents
    <2> QED
      BY <2>2, <2>3, <2>4
  <1> QED
    BY <1>4, <1>5 DEF Holds

\* and nothing else.
LEMMA ContentsOf ==
    ASSUME NEW a, NEW s, Holds(a, s)
    PROVE  Contents(a) = s
  <1>1. a \in Arrays
    BY DEF Holds
  <1>2. Holds(a, Contents(a))
    BY <1>1, HoldsContents
  <1>3. /\ s \in Seq(Cell) /\ Contents(a) \in Seq(Cell) /\ Len(s) = Len(Contents(a))
        /\ \A i \in 1..Len(s) : s[i] = Contents(a)[i]
    BY <1>2 DEF Holds
  <1> QED
    BY <1>3

\* The array a that holds s has l elements in n cells, b, and its data begin at t.
Room(l, n, t) ==
    /\ l \in Nat /\ n \in Nat /\ t \in Nat
    /\ t + l <= n /\ n <= MAX_SEQ_LENGTH /\ 2 * t <= MAX_SEQ_LENGTH + 1
Elements(s, l, n, t, b) ==
    /\ s \in Seq(Cell) /\ Len(s) = l /\ b \in [0..(n - 1) -> Cell]
    /\ \A i \in 1..l : b[t + i - 1] = s[i]
Shape(a, l, n, t, b) == a \in Arrays /\ a.length = l /\ a.buf_length = n /\ a.top = t /\ a.buf = b

\* An array that holds s, from its parts,
LEMMA HoldsBy ==
    ASSUME NEW s, NEW l, NEW n, NEW t, NEW b, Room(l, n, t), Elements(s, l, n, t, b)
    PROVE  Holds(ARR(l, n, t, b), s)
  <1>1. PICK a : a = ARR(l, n, t, b)
    OBVIOUS
  <1>2. a \in Arrays
    BY <1>1, IsArray DEF Room, Elements
  <1>3. a.length = l /\ a.top = t /\ a.buf = b
    BY <1>1 DEF ARR
  <1> QED
    BY <1>1, <1>2, <1>3 DEF Holds, Elements

\* and the parts of one that does.
LEMMA HeldIs ==
    ASSUME NEW a, NEW s, Holds(a, s)
    PROVE  \E l, n, t, b : Shape(a, l, n, t, b) /\ Room(l, n, t) /\ Elements(s, l, n, t, b)
  <1>1. PICK l, n, t, b : l = a.length /\ n = a.buf_length /\ t = a.top /\ b = a.buf
    OBVIOUS
  <1>2. a \in Arrays /\ s \in Seq(Cell) /\ l = Len(s) /\ \A i \in 1..Len(s) : b[t + i - 1] = s[i]
    BY <1>1 DEF Holds
  <1>3. /\ l \in Nat /\ n \in Nat /\ t \in Nat /\ b \in [0..(n - 1) -> Cell]
        /\ t + l <= n /\ n <= MAX_SEQ_LENGTH /\ 2 * t <= MAX_SEQ_LENGTH + 1
    BY <1>1, <1>2, ArrayIs
  <1>4. Shape(a, l, n, t, b)
    BY <1>1, <1>2 DEF Shape
  <1>5. Room(l, n, t)
    BY <1>3 DEF Room
  <1>6. Elements(s, l, n, t, b)
    BY <1>2, <1>3 DEF Elements
  <1> QED
    BY <1>4, <1>5, <1>6

\* An array with the same data holds the same.
LEMMA SameHolds ==
    ASSUME NEW a, NEW s, Holds(a, s), NEW g, SameData(a, g)
    PROVE  Holds(g, s)
  <1>1. PICK l, n, t, b : Shape(a, l, n, t, b) /\ Room(l, n, t) /\ Elements(s, l, n, t, b)
    BY HeldIs
  <1>2. \A i \in 1..l : t + i - 1 \in 0..(t + l - 1)
    BY <1>1 DEF Room
  <1>3. \A i \in 1..l : g.buf[t + i - 1] = b[t + i - 1]
    BY <1>1, <1>2 DEF SameData, Shape
  <1> QED
    BY <1>1, <1>3 DEF Holds, SameData, Shape, Elements

\* What an array holds does not depend on the cells outside the data.
LEMMA SettleHolds ==
    ASSUME NEW a, NEW s, Holds(a, s)
    PROVE  Holds(Settle(a), s)
  <1>1. PICK l, n, t, b : Shape(a, l, n, t, b) /\ Room(l, n, t) /\ Elements(s, l, n, t, b)
    BY HeldIs
  <1>2. PICK c : c = Keep(b, t, l)
    OBVIOUS
  <1>3. IsKept(n, b, t, l, c)
    BY <1>1, <1>2, Kept DEF Room, Elements
  <1>4. \A i \in 1..l : c[t + i - 1] = s[i]
    BY <1>1, <1>3 DEF IsKept, Room, Elements
  <1>5. Holds(ARR(l, n, t, c), s)
    BY <1>1, <1>3, <1>4, HoldsBy DEF IsKept, Elements
  <1>6. [a EXCEPT !.buf = c] = ARR(a.length, a.buf_length, a.top, c)
    BY <1>1, EditedBuf DEF Shape
  <1> QED
    BY <1>1, <1>2, <1>5, <1>6 DEF Settle, Shape

\* make_array.
LEMMA MakeHolds ==
    ASSUME NEW s \in Seq(Cell), ~MakeTooLong(Len(s))
    PROVE  Holds(make_array(s), s)
  <1>1. PICK t, n : t = MakeTop(Len(s)) /\ n = MakeBufLength(Len(s))
    OBVIOUS
  <1>2. NewSeqLength(Len(s)) \in Nat /\ Len(s) \in Nat
    BY Rounding
  <1>3. t \in Nat
    BY <1>1, <1>2, Halves DEF MakeTop
  <1>4. n \in Nat /\ Len(s) + t < n
    BY <1>1, <1>2, <1>3, Rounding DEF MakeBufLength
  <1>5. n <= MAX_SEQ_LENGTH
    BY <1>1, <1>4, SeqAssumption DEF MakeTooLong
  <1>6. PICK b : b = Store(Fresh(n), t, s)
    OBVIOUS
  <1>7. Fresh(n) \in [0..(n - 1) -> Cell]
    BY <1>4, Unset
  <1>8. IsStored(n, Fresh(n), t, s, b)
    BY <1>3, <1>4, <1>6, <1>7, Stored
  <1>9. b \in [0..(n - 1) -> Cell] /\ \A i \in 1..Len(s) : b[t + i - 1] = s[i]
    <2>1. b \in [0..(n - 1) -> Cell]
      BY <1>2, <1>3, <1>4, <1>8 DEF IsStored
    <2>2. \A j \in 0..(n - 1) : t <= j /\ j < t + Len(s) => b[j] = s[j - t + 1]
      BY <1>8 DEF IsStored
    <2>3. \A i \in 1..Len(s) : t + i - 1 \in 0..(n - 1) /\ t <= t + i - 1 /\ t + i - 1 < t + Len(s)
                                /\ (t + i - 1) - t + 1 = i
      BY <1>2, <1>3, <1>4
    <2>4. \A i \in 1..Len(s) : b[t + i - 1] = s[i]
      BY <2>2, <2>3
    <2> QED
      BY <2>1, <2>4
  <1>10. Holds(ARR(Len(s), n, t, b), s)
    <2>1. NewSeqLength(Len(s)) <= n
      BY <1>1, <1>2, <1>3, RoundingUp DEF MakeBufLength
    <2>2. 2 * t <= MAX_SEQ_LENGTH + 1
      BY <1>1, <1>2, <1>3, <1>4, <1>5, <2>1, Halves, SeqAssumption DEF MakeTop
    <2>3. Room(Len(s), n, t)
      BY <1>2, <1>3, <1>4, <1>5, <2>2 DEF Room
    <2> QED
      BY <1>9, <2>3, HoldsBy DEF Elements
  <1> QED
    BY <1>1, <1>6, <1>10 DEF make_array, ARR

\* A cell that is set.
LEMMA SetHolds ==
    ASSUME NEW a, NEW s, Holds(a, s), NEW k \in 0..(Len(s) - 1), NEW v \in Cell
    PROVE  Holds([a EXCEPT !.buf = Store(@, a.top + k, <<v>>)], [s EXCEPT ![k + 1] = v])
  <1>1. PICK l, n, t, b : Shape(a, l, n, t, b) /\ Room(l, n, t) /\ Elements(s, l, n, t, b)
    BY HeldIs
  <1>2. PICK at, c, w : at = t + k /\ c = Store(b, at, <<v>>) /\ w = [s EXCEPT ![k + 1] = v]
    OBVIOUS
  <1>3. l \in Nat /\ k \in Nat /\ k < l /\ at \in Nat /\ n \in Nat /\ at < n
    BY <1>1, <1>2 DEF Room, Elements
  <1>4. IsSet(n, b, at, v, c)
    BY <1>1, <1>2, <1>3, StoredOne DEF Elements
  <1>5. w \in Seq(Cell) /\ Len(w) = l /\ \A i \in 1..l : w[i] = IF i = k + 1 THEN v ELSE s[i]
    BY <1>1, <1>2, <1>3 DEF Elements
  <1>6. ASSUME NEW i \in 1..l PROVE c[t + i - 1] = w[i]
    <2>1. t + i - 1 \in 0..(n - 1) /\ b[t + i - 1] = s[i]
      BY <1>1 DEF Room, Elements
    <2>2. t + i - 1 = at <=> i = k + 1
      BY <1>1, <1>2, <1>3 DEF Room
    <2> QED
      BY <1>4, <1>5, <2>1, <2>2 DEF IsSet
  <1>7. Holds(ARR(l, n, t, c), w)
    BY <1>1, <1>4, <1>5, <1>6, HoldsBy DEF IsSet, Elements
  <1>8. [a EXCEPT !.buf = c] = ARR(a.length, a.buf_length, a.top, c)
    BY <1>1, EditedBuf DEF Shape
  <1> QED
    BY <1>1, <1>2, <1>7, <1>8 DEF Shape

\* fth_array_push.
LEMMA PushHolds ==
    ASSUME NEW a, NEW s, Holds(a, s), NEW v \in Cell, ~TooLong(a, PushNeed(a))
    PROVE  Holds(fth_array_push(a, v), Append(s, v))
  <1>1. a \in Arrays /\ a.length = Len(s) /\ a.length \in Nat /\ a.top \in Nat
    BY ArrayIs DEF Holds
  <1>2. PICK g : g = Grow(a, PushNeed(a))
    OBVIOUS
  <1>3. SameData(a, g) /\ PushNeed(a) <= g.buf_length
    BY <1>1, <1>2, GrowKeeps DEF PushNeed
  <1>4. Holds(g, s)
    BY <1>3, SameHolds
  <1>5. PICK l, n, t, b : Shape(g, l, n, t, b) /\ Room(l, n, t) /\ Elements(s, l, n, t, b)
    BY <1>4, HeldIs
  <1>6. t = a.top /\ l = a.length
    BY <1>3, <1>5 DEF Shape, SameData
  <1>7. PICK c, w : c = Store(b, t + l, <<v>>) /\ w = Append(s, v)
    OBVIOUS
  <1>p. PICK m, at : m = l + 1 /\ at = t + l
    OBVIOUS
  <1>8. Room(m, n, t) /\ at \in Nat
    <2>1. t + l + 1 <= n
      BY <1>3, <1>5, <1>6 DEF Shape, PushNeed
    <2> QED
      BY <1>5, <1>p, <2>1 DEF Room
  <1>9. IsSet(n, b, at, v, c)
    BY <1>5, <1>7, <1>p, <1>8, StoredOne DEF Room, Elements
  <1>10. w \in Seq(Cell) /\ Len(w) = m /\ \A i \in 1..m : w[i] = IF i = m THEN v ELSE s[i]
    <2>1. s \in Seq(Cell) /\ Len(s) = l /\ l \in Nat
      BY <1>5 DEF Elements, Room
    <2> QED
      BY <1>7, <1>p, <2>1
  <1>11. ASSUME NEW i \in 1..m PROVE c[t + i - 1] = w[i]
    <2>1. t + i - 1 \in 0..(n - 1) /\ (t + i - 1 = at <=> i = m) /\ (i # m => i \in 1..l)
      BY <1>5, <1>p, <1>8 DEF Room
    <2> QED
      BY <1>5, <1>9, <1>10, <2>1 DEF IsSet, Elements
  <1>12. Holds(ARR(m, n, t, c), w)
    BY <1>8, <1>9, <1>10, <1>11, HoldsBy DEF IsSet, Elements
  <1>13. [g EXCEPT !.buf = c, !.length = m] = ARR(m, g.buf_length, g.top, c)
    BY <1>5, EditedData DEF Shape
  <1>14. fth_array_push(a, v) = [g EXCEPT !.buf = c, !.length = m]
    BY <1>2, <1>5, <1>6, <1>7, <1>p DEF fth_array_push, PushStore, Shape
  <1> QED
    BY <1>5, <1>7, <1>12, <1>13, <1>14 DEF Shape

\* What FthSeq's sequences are, element by element.
IsPrefix(s, m, w) == w \in Seq(Cell) /\ Len(w) = m /\ \A i \in 1..m : w[i] = s[i]
IsWithout(s, l, k, w) ==
    /\ w \in Seq(Cell) /\ Len(w) = l - 1
    /\ \A i \in 1..(l - 1) : w[i] = IF i <= k THEN s[i] ELSE s[i + 1]
IsInserted(s, l, k, ins, n, w) ==
    /\ w \in Seq(Cell) /\ Len(w) = l + n
    /\ \A i \in 1..(l + n) : w[i] = IF i <= k THEN s[i] ELSE IF i <= k + n THEN ins[i - k] ELSE s[i - n]

IsJoined(x, y, m, n, w) ==
    /\ w \in Seq(Cell) /\ Len(w) = m + n
    /\ \A i \in 1..(m + n) : w[i] = IF i <= m THEN x[i] ELSE y[i - m]

\* One sequence behind another.
LEMMA JoinedIs ==
    ASSUME NEW x \in Seq(Cell), NEW y \in Seq(Cell), NEW m, NEW n, m = Len(x), n = Len(y)
    PROVE  IsJoined(x, y, m, n, x \o y)
  <1>1. m \in Nat /\ n \in Nat
    OBVIOUS
  <1>2. PICK w : w = x \o y
    OBVIOUS
  <1>3. w \in Seq(Cell) /\ Len(w) = m + n
    BY <1>2
  <1>4. \A i \in 1..(m + n) : w[i] = IF i <= m THEN x[i] ELSE y[i - m]
    BY <1>2
  <1> QED
    BY <1>2, <1>3, <1>4 DEF IsJoined

\* The first elements.
LEMMA PrefixIs ==
    ASSUME NEW s \in Seq(Cell), NEW m \in 0..Len(s)
    PROVE  IsPrefix(s, m, SubSeq(s, 1, m))
  BY DEF IsPrefix

\* All elements but one.
LEMMA WithoutIs ==
    ASSUME NEW s \in Seq(Cell), NEW k \in 0..(Len(s) - 1)
    PROVE  IsWithout(s, Len(s), k, Abstract!Without(s, k))
  <1>1. PICK x, y, w : x = SubSeq(s, 1, k) /\ y = SubSeq(s, k + 2, Len(s)) /\ w = x \o y
    OBVIOUS
  <1>2. x \in Seq(Cell) /\ Len(x) = k /\ \A i \in 1..k : x[i] = s[i]
    BY <1>1
  <1>3. y \in Seq(Cell) /\ Len(y) = Len(s) - k - 1 /\ \A i \in 1..(Len(s) - k - 1) : y[i] = s[i + k + 1]
    BY <1>1
  <1>p. PICK l, m : l = Len(s) /\ m = l - k - 1
    OBVIOUS
  <1>q. l \in Nat /\ m \in Nat /\ k \in Nat /\ k + m = l - 1
    BY <1>p
  <1>r. IsJoined(x, y, k, m, w)
    BY <1>1, <1>2, <1>3, <1>p, <1>q, JoinedIs
  <1>4. w \in Seq(Cell) /\ Len(w) = Len(s) - 1
    BY <1>p, <1>q, <1>r DEF IsJoined
  <1>5. \A i \in 1..(Len(s) - 1) : w[i] = IF i <= k THEN x[i] ELSE y[i - k]
    BY <1>p, <1>q, <1>r DEF IsJoined
  <1>6. \A i \in 1..(Len(s) - 1) : w[i] = IF i <= k THEN s[i] ELSE s[i + 1]
    BY <1>2, <1>3, <1>5
  <1> QED
    BY <1>1, <1>4, <1>6 DEF IsWithout, Abstract!Without

\* Elements in the middle of others.
LEMMA InsertedIs ==
    ASSUME NEW s \in Seq(Cell), NEW k \in 0..Len(s), NEW ins \in Seq(Cell)
    PROVE  IsInserted(s, Len(s), k, ins, Len(ins), SubSeq(s, 1, k) \o ins \o SubSeq(s, k + 1, Len(s)))
  <1>1. PICK x, y, z, w : x = SubSeq(s, 1, k) /\ y = SubSeq(s, k + 1, Len(s)) /\ z = x \o ins /\ w = z \o y
    OBVIOUS
  <1>2. x \in Seq(Cell) /\ Len(x) = k /\ \A i \in 1..k : x[i] = s[i]
    BY <1>1
  <1>3. y \in Seq(Cell) /\ Len(y) = Len(s) - k /\ \A i \in 1..(Len(s) - k) : y[i] = s[i + k]
    BY <1>1
  <1>4. z \in Seq(Cell) /\ Len(z) = k + Len(ins)
    BY <1>1, <1>2
  <1>5. \A i \in 1..(k + Len(ins)) : z[i] = IF i <= k THEN s[i] ELSE ins[i - k]
    <2>1. IsJoined(x, ins, k, Len(ins), z)
      BY <1>1, <1>2, JoinedIs
    <2>2. \A i \in 1..(k + Len(ins)) : i <= k => i \in 1..k
      OBVIOUS
    <2> QED
      BY <1>2, <2>1, <2>2 DEF IsJoined
  <1>p. PICK l, m, n : l = Len(s) /\ m = k + Len(ins) /\ n = l - k
    OBVIOUS
  <1>q. l \in Nat /\ m \in Nat /\ n \in Nat /\ k \in Nat /\ Len(ins) \in Nat /\ m + n = l + Len(ins)
    BY <1>p
  <1>r. IsJoined(z, y, m, n, w)
    BY <1>1, <1>3, <1>4, <1>p, <1>q, JoinedIs
  <1>6. w \in Seq(Cell) /\ Len(w) = Len(s) + Len(ins)
    BY <1>p, <1>q, <1>r DEF IsJoined
  <1>7. \A i \in 1..(Len(s) + Len(ins)) : w[i] = IF i <= k + Len(ins) THEN z[i] ELSE y[i - k - Len(ins)]
    <2>1. \A i \in 1..(m + n) : i - m = i - k - Len(ins)
      BY <1>p, <1>q
    <2> QED
      BY <1>p, <1>q, <1>r, <2>1 DEF IsJoined
  <1>8. \A i \in 1..(Len(s) + Len(ins)) : w[i] = IF i <= k THEN s[i] ELSE IF i <= k + Len(ins) THEN ins[i - k] ELSE s[i - Len(ins)]
    <2>1. \A i \in 1..(Len(s) + Len(ins)) : i > k + Len(ins) => y[i - k - Len(ins)] = s[i - Len(ins)]
      BY <1>3
    <2> QED
      BY <1>5, <1>7, <2>1
  <1> QED
    BY <1>1, <1>6, <1>8 DEF IsInserted

\* One element before the others.
LEMMA FrontedIs ==
    ASSUME NEW s \in Seq(Cell), NEW v \in Cell
    PROVE  /\ <<v>> \o s \in Seq(Cell) /\ Len(<<v>> \o s) = Len(s) + 1
           /\ \A i \in 1..(Len(s) + 1) : (<<v>> \o s)[i] = IF i = 1 THEN v ELSE s[i - 1]
  OBVIOUS

\* The array with fewer elements.
LEMMA ShortenHolds ==
    ASSUME NEW a, NEW s, Holds(a, s), NEW m \in 0..Len(s)
    PROVE  Holds([a EXCEPT !.length = m], SubSeq(s, 1, m))
  <1>1. PICK l, n, t, b : Shape(a, l, n, t, b) /\ Room(l, n, t) /\ Elements(s, l, n, t, b)
    BY HeldIs
  <1>2. PICK w : w = SubSeq(s, 1, m)
    OBVIOUS
  <1>3. IsPrefix(s, m, w)
    BY <1>1, <1>2, PrefixIs DEF Elements
  <1>4. m \in Nat /\ m <= l
    BY <1>1 DEF Room, Elements
  <1>5. Room(m, n, t)
    BY <1>1, <1>4 DEF Room
  <1>6. Elements(w, m, n, t, b)
    BY <1>1, <1>3, <1>4 DEF Elements, IsPrefix
  <1>7. Holds(ARR(m, n, t, b), w)
    BY <1>5, <1>6, HoldsBy
  <1>8. [a EXCEPT !.length = m] = ARR(m, a.buf_length, a.top, a.buf)
    BY <1>1, EditedLength DEF Shape
  <1> QED
    BY <1>1, <1>2, <1>7, <1>8 DEF Shape

\* It makes no difference whether an array is shortened before its buffer shrinks or after.
LEMMA ShrinkShortened ==
    ASSUME NEW a \in Arrays, NEW m \in 0..a.length, NEW used \in Nat, a.top + a.length <= used + 1
    PROVE  Shrink([a EXCEPT !.length = m], used) = [Shrink(a, used) EXCEPT !.length = m]
  <1>1. PICK l, n, t, b, x : l = a.length /\ n = a.buf_length /\ t = a.top /\ b = a.buf /\ x = NewSeqLength(used)
    OBVIOUS
  <1>2. PICK p : p = [a EXCEPT !.length = m]
    OBVIOUS
  <1>3. p = ARR(m, n, t, b)
    BY <1>1, <1>2, EditedLength
  <1>4. p.buf_length = n /\ p.buf = b
    BY <1>3 DEF ARR
  <1>5. CASE ~(x < n)
    BY <1>1, <1>2, <1>4, <1>5 DEF Shrink
  <1>6. CASE x < n
    <2>1. PICK c : c = Realloc(b, x)
      OBVIOUS
    <2>2. Shrink(p, used) = [p EXCEPT !.buf_length = x, !.buf = c]
      BY <1>1, <1>4, <1>6, <2>1 DEF Shrink, Resize
    <2>3. Shrink(a, used) = [a EXCEPT !.buf_length = x, !.buf = c]
      BY <1>1, <1>6, <2>1 DEF Shrink, Resize
    <2>4. Shrink(a, used) = ARR(l, x, t, c)
      <3>1. [a EXCEPT !.buf_length = x, !.buf = c] = ARR(a.length, x, a.top, c)
        BY EditedRoom
      <3> QED
        BY <1>1, <2>3, <3>1
    <2>5. Shrink(a, used) \in Arrays
      BY ShrinkKeeps DEF SameData
    <2>6. [Shrink(a, used) EXCEPT !.length = m] = ARR(m, x, t, c)
      BY <2>4, <2>5, EditedLength DEF ARR
    <2>7. p \in Arrays
      <3>1. l \in Nat /\ n \in Nat /\ t \in Nat /\ b \in [0..(n - 1) -> Cell] /\ t + l <= n
            /\ n <= MAX_SEQ_LENGTH /\ 2 * t <= MAX_SEQ_LENGTH + 1
        BY <1>1, ArrayIs
      <3>2. m \in Nat /\ t + m <= n
        BY <1>1, <3>1
      <3> QED
        BY <1>3, <3>1, <3>2, IsArray
    <2>8. [p EXCEPT !.buf_length = x, !.buf = c] = ARR(p.length, x, p.top, c)
      BY <2>7, EditedRoom
    <2>9. p.length = m /\ p.top = t
      BY <1>3 DEF ARR
    <2> QED
      BY <1>2, <2>2, <2>6, <2>8, <2>9
  <1> QED
    BY <1>5, <1>6

\* array-pop, without and with the Settle.
LEMMA PopHolds ==
    ASSUME NEW a, NEW s, Holds(a, s), Len(s) > 0
    PROVE  /\ Holds(PopCells(a), Abstract!Without(s, Len(s) - 1))
           /\ Holds(fth_array_pop(a), Abstract!Without(s, Len(s) - 1))
  <1>1. /\ a \in Arrays /\ a.length = Len(s) /\ a.length \in Nat /\ a.top \in Nat /\ s \in Seq(Cell)
        /\ a.length - 1 \in 0..a.length /\ a.top + a.length - 1 \in Nat
    BY ArrayIs DEF Holds
  <1>2. PICK m, used : m = a.length - 1 /\ used = a.top + a.length - 1
    OBVIOUS
  <1>3. SameData(a, Shrink(a, used))
    BY <1>1, <1>2, ShrinkKeeps
  <1>4. Holds(Shrink(a, used), s)
    BY <1>3, SameHolds
  <1>5. Holds([Shrink(a, used) EXCEPT !.length = m], SubSeq(s, 1, m))
    BY <1>1, <1>2, <1>4, ShortenHolds
  <1>6. Shrink([a EXCEPT !.length = m], used) = [Shrink(a, used) EXCEPT !.length = m]
    <2>1. m \in 0..a.length /\ used \in Nat /\ a.top + a.length <= used + 1
      BY <1>1, <1>2
    <2> QED
      BY <1>1, <2>1, ShrinkShortened
  <1>7. SubSeq(s, 1, m) = Abstract!Without(s, Len(s) - 1)
    <2>1. PICK w, x, l : w = SubSeq(s, 1, m) /\ x = Abstract!Without(s, Len(s) - 1) /\ l = Len(s)
      OBVIOUS
    <2>2. IsPrefix(s, m, w)
      BY <1>1, <1>2, <2>1, PrefixIs
    <2>3. IsWithout(s, l, l - 1, x)
      BY <1>1, <2>1, WithoutIs
    <2>4. l \in Nat /\ m = l - 1
      BY <1>1, <1>2, <2>1
    <2>5. w \in Seq(Cell) /\ x \in Seq(Cell) /\ Len(w) = Len(x) /\ \A i \in 1..Len(w) : w[i] = x[i]
      BY <2>2, <2>3, <2>4 DEF IsPrefix, IsWithout
    <2> QED
      BY <2>1, <2>5
  <1>8. Holds(PopCells(a), Abstract!Without(s, Len(s) - 1))
    BY <1>2, <1>5, <1>6, <1>7 DEF PopCells
  <1> QED
    BY <1>8, SettleHolds DEF fth_array_pop

\* array-shift.
LEMMA ShiftHolds ==
    ASSUME NEW a, NEW s, Holds(a, s), Len(s) > 0
    PROVE  /\ Holds(ShiftCells(a), Abstract!Without(s, 0))
           /\ Holds(fth_array_shift(a), Abstract!Without(s, 0))
  <1>1. PICK l, n, t, b : Shape(a, l, n, t, b) /\ Room(l, n, t) /\ Elements(s, l, n, t, b)
    BY HeldIs
  <1>2. PICK u, c, w : u = ShiftTop(a) /\ c = ShiftBuf(a) /\ w = Abstract!Without(s, 0)
    OBVIOUS
  <1>3. l \in Nat \ {0} /\ n \in Nat /\ t \in Nat /\ t + l <= n /\ l = Len(s)
    BY <1>1 DEF Room, Elements
  <1>4. n \div 3 \in Nat /\ n \div 2 \in Nat /\ 3 * (n \div 3) <= n /\ 2 * (n \div 2) <= n /\ n <= 2 * (n \div 2) + 1
    BY <1>3, Halves
  <1>5. u \in Nat /\ u <= t /\ 2 * (u + 1) <= MAX_SEQ_LENGTH + 1
    <2>1. CASE ShiftMoves(a)
      <3>1. u = n \div 3 /\ t + 1 > n \div 2
        BY <1>1, <1>2, <2>1 DEF ShiftTop, ShiftMoves, Shape
      <3>2. n <= MAX_SEQ_LENGTH /\ MAX_SEQ_LENGTH \in Nat
        BY <1>1, SeqAssumption DEF Room
      <3> QED
        BY <1>3, <1>4, <3>1, <3>2
    <2>2. CASE ~ShiftMoves(a)
      <3>1. u = t /\ t + 1 <= n \div 2
        BY <1>1, <1>2, <1>3, <1>4, <2>2 DEF ShiftTop, ShiftMoves, Shape
      <3>2. n <= MAX_SEQ_LENGTH /\ MAX_SEQ_LENGTH \in Nat
        BY <1>1, SeqAssumption DEF Room
      <3> QED
        BY <1>3, <1>4, <3>1, <3>2
    <2> QED
      BY <2>1, <2>2
  <1>6. Elements(s, l, n, u, c)
    <2>1. CASE ShiftMoves(a)
      <3>1. c = MemMove(b, u, t, l)
        BY <1>1, <1>2, <2>1 DEF ShiftBuf, Shape
      <3>2. IsMoved(n, b, u, t, l, c)
        BY <1>1, <1>3, <1>5, <3>1, Moved DEF Elements
      <3>3. ASSUME NEW i \in 1..l PROVE c[u + i - 1] = s[i]
        <4>1. /\ u + i - 1 \in 0..(n - 1) /\ u <= u + i - 1 /\ u + i - 1 < u + l
              /\ (u + i - 1) - u + t = t + i - 1
          BY <1>3, <1>5
        <4> QED
          BY <1>1, <3>2, <4>1 DEF IsMoved, Elements
      <3> QED
        BY <1>1, <3>2, <3>3 DEF IsMoved, Elements
    <2>2. CASE ~ShiftMoves(a)
      BY <1>1, <1>2, <2>2 DEF ShiftBuf, ShiftTop, Shape
    <2> QED
      BY <2>1, <2>2
  <1>7. IsWithout(s, l, 0, w)
    BY <1>1, <1>2, <1>3, WithoutIs DEF Elements
  <1>8. PICK p, m, used : p = u + 1 /\ m = l - 1 /\ used = u + l - 1
    OBVIOUS
  <1>9. p \in Nat /\ m \in Nat /\ used \in Nat /\ p + m <= used + 1
    BY <1>3, <1>5, <1>8
  <1>10. Room(m, n, p)
    BY <1>1, <1>3, <1>5, <1>8 DEF Room
  <1>11. Elements(w, m, n, p, c)
    <2>1. ASSUME NEW i \in 1..m PROVE c[p + i - 1] = w[i]
      <3>1. i + 1 \in 1..l /\ ~(i <= 0) /\ i \in 1..(l - 1) /\ p + i - 1 = u + (i + 1) - 1
        BY <1>3, <1>5, <1>8
      <3> QED
        BY <1>6, <1>7, <3>1 DEF Elements, IsWithout
    <2> QED
      BY <1>6, <1>7, <1>8, <2>1 DEF Elements, IsWithout
  <1>12. PICK q : q = [a EXCEPT !.buf = c, !.top = p, !.length = m]
    OBVIOUS
  <1>13. q = ARR(m, n, p, c)
    <2>1. [a EXCEPT !.buf = c, !.top = p, !.length = m] = ARR(m, a.buf_length, p, c)
      <3>1. a = [length |-> l, buf_length |-> n, top |-> t, buf |-> b]
        BY <1>1, ArrayIs DEF Shape, ARR
      <3>2. PICK e : e = [a EXCEPT !.buf = c, !.top = p, !.length = m]
        OBVIOUS
      <3>3. /\ e = [x \in {"length", "buf_length", "top", "buf"} |-> e[x]]
            /\ e.length = m /\ e.buf_length = n /\ e.top = p /\ e.buf = c
        BY <3>1, <3>2
      <3> QED
        BY <1>1, <3>2, <3>3 DEF ARR, Shape
    <2> QED
      BY <1>1, <1>12, <2>1 DEF Shape
  <1>14. Holds(q, w)
    BY <1>10, <1>11, <1>13, HoldsBy
  <1>15. q \in Arrays /\ q.top + q.length <= used + 1
    BY <1>9, <1>13, <1>14 DEF Holds, ARR
  <1>16. Holds(Shrink(q, used), w)
    BY <1>9, <1>14, <1>15, ShrinkKeeps, SameHolds
  <1>17. ShiftCells(a) = Shrink(q, used)
    BY <1>1, <1>2, <1>8, <1>12 DEF ShiftCells, Shape
  <1>18. Holds(ShiftCells(a), w)
    BY <1>16, <1>17
  <1> QED
    BY <1>2, <1>18, SettleHolds DEF fth_array_shift

\* array-unshift.
LEMMA UnshiftHolds ==
    ASSUME NEW a, NEW s, Holds(a, s), NEW v \in Cell, ~TooLong(a, UnshiftNeed(a))
    PROVE  Holds(fth_array_unshift(a, v), <<v>> \o s)
  <1>1. PICK l, n0, t, b0 : Shape(a, l, n0, t, b0) /\ Room(l, n0, t) /\ Elements(s, l, n0, t, b0)
    BY HeldIs
  <1>2. PICK u : u = UnshiftTop(a)
    OBVIOUS
  <1>3. /\ l \in Nat /\ n0 \in Nat /\ t \in Nat /\ t + l <= n0 /\ n0 <= MAX_SEQ_LENGTH
        /\ n0 \div 3 \in Nat /\ 3 * (n0 \div 3) <= n0 /\ MAX_SEQ_LENGTH \in Nat
    BY <1>1, Halves, SeqAssumption DEF Room
  <1>4. u \in Nat /\ 2 * u <= MAX_SEQ_LENGTH + 1 /\ (~Recentre(a) => t = u + 1)
    <2>1. CASE Recentre(a)
      <3>1. u = n0 \div 3
        BY <1>1, <1>2, <2>1 DEF UnshiftTop, Shape
      <3> QED
        BY <1>3, <2>1, <3>1
    <2>2. CASE ~Recentre(a)
      <3>1. u = t - 1 /\ ~(t - 1 < 1)
        BY <1>1, <1>2, <2>2 DEF UnshiftTop, Recentre, Shape
      <3>2. 2 * t <= MAX_SEQ_LENGTH + 1
        BY <1>1 DEF Room
      <3> QED
        BY <1>3, <3>1, <3>2
    <2> QED
      BY <2>1, <2>2
  <1>5. PICK need, g : need = UnshiftNeed(a) /\ g = Grow(a, need)
    OBVIOUS
  <1>6. need = u + l + 1 /\ need \in Nat
    BY <1>1, <1>2, <1>3, <1>4, <1>5 DEF UnshiftNeed, Shape
  <1>7. SameData(a, g) /\ need <= g.buf_length /\ a.buf_length <= g.buf_length
    BY <1>1, <1>5, <1>6, GrowKeeps DEF Shape
  <1>8. PICK lg, n, tg, b : Shape(g, lg, n, tg, b) /\ Room(lg, n, tg) /\ Elements(s, lg, n, tg, b)
    BY <1>7, SameHolds, HeldIs
  <1>9. lg = l /\ tg = t
    BY <1>1, <1>7, <1>8 DEF SameData, Shape
  <1>10. n \in Nat /\ n <= MAX_SEQ_LENGTH /\ u + l + 1 <= n /\ t + l <= n
    BY <1>6, <1>7, <1>8, <1>9 DEF Shape, Room
  <1>11. PICK c, d, w, m : c = UnshiftMove(a, g) /\ d = Store(c, u, <<v>>) /\ w = <<v>> \o s /\ m = l + 1
    OBVIOUS
  <1>12. c \in [0..(n - 1) -> Cell] /\ \A i \in 1..l : c[u + i] = s[i]
    <2>1. CASE Recentre(a)
      <3>1. PICK dst : dst = u + 1
        OBVIOUS
      <3>2. c = MemMove(b, dst, t, l)
        BY <1>1, <1>2, <1>8, <1>11, <2>1, <3>1 DEF UnshiftMove, Shape
      <3>3. IsMoved(n, b, dst, t, l, c)
        BY <1>3, <1>4, <1>8, <1>10, <3>1, <3>2, Moved DEF Elements
      <3>4. ASSUME NEW i \in 1..l PROVE c[u + i] = s[i]
        <4>1. /\ u + i \in 0..(n - 1) /\ dst <= u + i /\ u + i < dst + l
              /\ (u + i) - dst + t = t + i - 1
          BY <1>3, <1>4, <1>10, <3>1
        <4> QED
          BY <1>8, <1>9, <3>3, <4>1 DEF IsMoved, Elements
      <3> QED
        BY <3>3, <3>4 DEF IsMoved
    <2>2. CASE ~Recentre(a)
      <3>1. c = b
        BY <1>8, <1>11, <2>2 DEF UnshiftMove, Shape
      <3>2. \A i \in 1..l : t + i - 1 = u + i
        BY <1>3, <1>4, <2>2
      <3> QED
        BY <1>8, <1>9, <3>1, <3>2 DEF Elements
    <2> QED
      BY <2>1, <2>2
  <1>13. IsSet(n, c, u, v, d)
    <2>1. u < n
      BY <1>3, <1>4, <1>10
    <2> QED
      BY <1>4, <1>10, <1>11, <1>12, <2>1, StoredOne
  <1>14. Room(m, n, u)
    BY <1>3, <1>4, <1>10, <1>11 DEF Room
  <1>15. w \in Seq(Cell) /\ Len(w) = m /\ \A i \in 1..m : w[i] = IF i = 1 THEN v ELSE s[i - 1]
    <2>1. s \in Seq(Cell) /\ Len(s) = l
      BY <1>8, <1>9 DEF Elements
    <2> QED
      BY <1>11, <2>1, FrontedIs
  <1>16. Elements(w, m, n, u, d)
    <2>1. ASSUME NEW i \in 1..m PROVE d[u + i - 1] = w[i]
      <3>1. u + i - 1 \in 0..(n - 1) /\ (u + i - 1 = u <=> i = 1)
            /\ (i # 1 => i - 1 \in 1..l /\ u + i - 1 = u + (i - 1))
        BY <1>3, <1>4, <1>10, <1>11
      <3> QED
        BY <1>12, <1>13, <1>15, <3>1 DEF IsSet
    <2> QED
      BY <1>13, <1>15, <2>1 DEF Elements, IsSet
  <1>17. Holds(ARR(m, n, u, d), w)
    BY <1>14, <1>16, HoldsBy
  <1>18. [g EXCEPT !.top = u, !.length = m, !.buf = d] = ARR(m, g.buf_length, u, d)
    <2>1. g = [length |-> lg, buf_length |-> n, top |-> tg, buf |-> b]
      BY <1>8, ArrayIs DEF Shape, ARR
    <2>2. PICK e : e = [g EXCEPT !.top = u, !.length = m, !.buf = d]
      OBVIOUS
    <2>3. /\ e = [x \in {"length", "buf_length", "top", "buf"} |-> e[x]]
          /\ e.length = m /\ e.buf_length = n /\ e.top = u /\ e.buf = d
      BY <2>1, <2>2
    <2> QED
      BY <1>8, <2>2, <2>3 DEF ARR, Shape
  <1>19. fth_array_unshift(a, v) = Settle([g EXCEPT !.top = u, !.length = m, !.buf = d])
    BY <1>1, <1>2, <1>5, <1>11 DEF fth_array_unshift, Shape
  <1>20. Holds([g EXCEPT !.top = u, !.length = m, !.buf = d], w)
    BY <1>8, <1>17, <1>18 DEF Shape
  <1> QED
    BY <1>11, <1>19, <1>20, SettleHolds

\* A gap opened in a buffer that has the room, and filled.
LEMMA OpenedHolds ==
    ASSUME NEW g, NEW s, Holds(g, s), NEW k \in 0..Len(s), NEW ins \in Seq(Cell),
           g.top + Len(s) + Len(ins) <= g.buf_length
    PROVE  Holds([g EXCEPT !.buf = Store(MemMove(g.buf, g.top + k + Len(ins), g.top + k, Len(s) - k), g.top + k, ins),
                           !.length = Len(s) + Len(ins)],
                 SubSeq(s, 1, k) \o ins \o SubSeq(s, k + 1, Len(s)))
  <1>1. PICK l, n, t, b : Shape(g, l, n, t, b) /\ Room(l, n, t) /\ Elements(s, l, n, t, b)
    BY HeldIs
  <1>2. PICK x, m, src, dst, cnt :
           x = Len(ins) /\ m = l + x /\ src = t + k /\ dst = t + k + x /\ cnt = l - k
    OBVIOUS
  <1>3. /\ l \in Nat /\ n \in Nat /\ t \in Nat /\ k \in Nat /\ k <= l /\ x \in Nat /\ m \in Nat
        /\ src \in Nat /\ dst \in Nat /\ cnt \in Nat /\ src + cnt <= n /\ l = Len(s) /\ s \in Seq(Cell)
    BY <1>1, <1>2 DEF Room, Elements
  <1>4. t + m <= n
    BY <1>1, <1>2, <1>3 DEF Shape
  <1>5. PICK c, d, w : /\ c = MemMove(b, dst, src, cnt) /\ d = Store(c, src, ins)
                       /\ w = SubSeq(s, 1, k) \o ins \o SubSeq(s, k + 1, Len(s))
    OBVIOUS
  <1>6. IsMoved(n, b, dst, src, cnt, c)
    <2>1. dst + cnt <= n
      BY <1>2, <1>3, <1>4
    <2> QED
      BY <1>1, <1>3, <1>5, <2>1, Moved DEF Elements
  <1>7. IsStored(n, c, src, ins, d)
    <2>1. src + Len(ins) <= n
      BY <1>2, <1>3, <1>4
    <2> QED
      BY <1>3, <1>5, <1>6, <2>1, Stored DEF IsMoved
  <1>8. IsInserted(s, l, k, ins, x, w)
    BY <1>2, <1>3, <1>5, InsertedIs
  <1>9. Room(m, n, t)
    BY <1>1, <1>3, <1>4 DEF Room
  <1>10. Elements(w, m, n, t, d)
    <2>1. ASSUME NEW i \in 1..m PROVE d[t + i - 1] = w[i]
      <3>1. t + i - 1 \in 0..(n - 1)
        BY <1>3, <1>4
      <3>2. CASE i <= k
        <4>1. i \in 1..l /\ ~(src <= t + i - 1) /\ ~(dst <= t + i - 1) /\ i \in 1..(l + x)
          BY <1>2, <1>3, <3>2
        <4>2. d[t + i - 1] = c[t + i - 1] /\ c[t + i - 1] = b[t + i - 1]
          BY <1>6, <1>7, <3>1, <4>1 DEF IsStored, IsMoved
        <4> QED
          BY <1>1, <1>8, <3>2, <4>1, <4>2 DEF Elements, IsInserted
      <3>3. CASE ~(i <= k) /\ i <= k + x
        <4>1. /\ src <= t + i - 1 /\ t + i - 1 < src + x /\ (t + i - 1) - src + 1 = i - k /\ i \in 1..(l + x)
          BY <1>2, <1>3, <3>3
        <4>2. d[t + i - 1] = ins[i - k]
          BY <1>2, <1>7, <3>1, <4>1 DEF IsStored
        <4> QED
          BY <1>8, <3>3, <4>1, <4>2 DEF IsInserted
      <3>4. CASE ~(i <= k) /\ ~(i <= k + x)
        <4>1. /\ ~(t + i - 1 < src + x) /\ dst <= t + i - 1 /\ t + i - 1 < dst + cnt
              /\ (t + i - 1) - dst + src = t + (i - x) - 1 /\ i - x \in 1..l /\ i \in 1..(l + x)
          BY <1>2, <1>3, <3>4
        <4>2. d[t + i - 1] = c[t + i - 1]
          BY <1>2, <1>7, <3>1, <4>1 DEF IsStored
        <4>3. c[t + i - 1] = b[t + (i - x) - 1]
          BY <1>6, <3>1, <4>1 DEF IsMoved
        <4>4. b[t + (i - x) - 1] = s[i - x]
          BY <1>1, <4>1 DEF Elements
        <4> QED
          BY <1>8, <3>4, <4>1, <4>2, <4>3, <4>4 DEF IsInserted
      <3> QED
        BY <3>2, <3>3, <3>4
    <2> QED
      BY <1>2, <1>7, <1>8, <2>1 DEF Elements, IsInserted, IsStored
  <1>11. Holds(ARR(m, n, t, d), w)
    BY <1>9, <1>10, HoldsBy
  <1>12. [g EXCEPT !.buf = d, !.length = m] = ARR(m, g.buf_length, g.top, d)
    BY <1>1, EditedData DEF Shape
  <1>13. Holds([g EXCEPT !.buf = d, !.length = m], w)
    BY <1>1, <1>11, <1>12 DEF Shape
  <1> QED
    BY <1>1, <1>2, <1>3, <1>5, <1>13 DEF Shape

\* array-insert! in the middle.
LEMMA InsertHolds ==
    ASSUME NEW a, NEW s, Holds(a, s), NEW k \in 0..Len(s), NEW ins \in Seq(Cell),
           ~TooLong(a, InsertNeed(a, Len(ins)))
    PROVE  Holds(fth_array_insert(a, k, ins), SubSeq(s, 1, k) \o ins \o SubSeq(s, k + 1, Len(s)))
  <1>1. a \in Arrays /\ a.length = Len(s) /\ a.length \in Nat /\ a.top \in Nat /\ Len(ins) \in Nat
    BY ArrayIs DEF Holds
  <1>2. PICK need, g : need = InsertNeed(a, Len(ins)) /\ g = Grow(a, need)
    OBVIOUS
  <1>3. need \in Nat /\ need = a.top + Len(s) + Len(ins)
    BY <1>1, <1>2 DEF InsertNeed
  <1>4. SameData(a, g) /\ need <= g.buf_length
    BY <1>1, <1>2, <1>3, GrowKeeps
  <1>5. Holds(g, s) /\ g.top = a.top
    BY <1>4, SameHolds DEF SameData
  <1>6. g.top + Len(s) + Len(ins) <= g.buf_length
    BY <1>3, <1>4, <1>5
  <1>7. PICK x : x = [g EXCEPT !.buf = Store(MemMove(g.buf, g.top + k + Len(ins), g.top + k, Len(s) - k), g.top + k, ins),
                               !.length = Len(s) + Len(ins)]
    OBVIOUS
  <1>8. Holds(x, SubSeq(s, 1, k) \o ins \o SubSeq(s, k + 1, Len(s)))
    BY <1>5, <1>6, <1>7, OpenedHolds
  <1>9. fth_array_insert(a, k, ins) = x
    BY <1>1, <1>2, <1>5, <1>7 DEF fth_array_insert
  <1> QED
    BY <1>8, <1>9

\* assoc's insertion.
LEMMA InsertOneHolds ==
    ASSUME NEW a, NEW s, Holds(a, s), NEW k \in 0..Len(s), NEW v \in Cell, CellLength(a) <= MAX_SEQ_LENGTH
    PROVE  Holds(InsertOne(a, k, v), SubSeq(s, 1, k) \o <<v>> \o SubSeq(s, k + 1, Len(s)))
  <1>1. a \in Arrays /\ a.length = Len(s) /\ a.length \in Nat /\ a.top \in Nat /\ a.buf_length \in Nat
    BY ArrayIs DEF Holds
  <1>2. PICK m, g, ins : /\ m = CellLength(a) /\ ins = <<v>>
                         /\ g = IF m > a.buf_length THEN Resize(a, m) ELSE a
    OBVIOUS
  <1>3. m \in Nat /\ a.top + a.length + 1 < m /\ m <= MAX_SEQ_LENGTH
    <2>1. PICK x : x = a.top + a.length + 1
      OBVIOUS
    <2>2. x \in Nat
      BY <1>1, <2>1
    <2>3. NewSeqLength(x) \in Nat /\ x < NewSeqLength(x)
      BY <2>2, Rounding
    <2> QED
      BY <1>2, <2>1, <2>3 DEF CellLength
  <1>4. SameData(a, g) /\ m <= g.buf_length
    <2>1. CASE m > a.buf_length
      <3>1. SameData(a, Resize(a, m)) /\ Resize(a, m).buf_length = m
        BY <1>1, <1>3, ResizeKeeps
      <3> QED
        BY <1>2, <1>3, <2>1, <3>1
    <2>2. CASE ~(m > a.buf_length)
      BY <1>1, <1>2, <1>3, <2>2 DEF SameData
    <2> QED
      BY <2>1, <2>2
  <1>5. Holds(g, s) /\ g.top = a.top /\ g.buf_length \in Nat
    BY <1>4, SameHolds, ArrayIs DEF SameData
  <1>6. ins \in Seq(Cell) /\ Len(ins) = 1
    BY <1>2
  <1>7. g.top + Len(s) + Len(ins) <= g.buf_length
    BY <1>1, <1>3, <1>4, <1>5, <1>6
  <1>8. PICK x : x = [g EXCEPT !.buf = Store(MemMove(g.buf, g.top + k + Len(ins), g.top + k, Len(s) - k), g.top + k, ins),
                               !.length = Len(s) + Len(ins)]
    OBVIOUS
  <1>9. Holds(x, SubSeq(s, 1, k) \o ins \o SubSeq(s, k + 1, Len(s)))
    BY <1>5, <1>6, <1>7, <1>8, OpenedHolds
  <1>10. InsertOne(a, k, v) = x
    BY <1>1, <1>2, <1>5, <1>6, <1>8 DEF InsertOne
  <1> QED
    BY <1>2, <1>9, <1>10

\* array-delete!.
LEMMA DeleteMiddleHolds ==
    ASSUME NEW a, NEW s, Holds(a, s), NEW k \in 1..(Len(s) - 2)
    PROVE  Holds(DeleteMiddle(a, k), Abstract!Without(s, k))
  <1>1. /\ a \in Arrays /\ a.length = Len(s) /\ a.length \in Nat /\ a.top \in Nat /\ s \in Seq(Cell)
    BY ArrayIs DEF Holds
  <1>2. PICK m, used, g : m = a.length - 1 /\ used = a.top + a.length - 1 /\ g = Shrink(a, used)
    OBVIOUS
  <1>3. m \in 0..a.length /\ used \in Nat /\ a.top + a.length <= used + 1
    BY <1>1, <1>2
  <1>4. SameData(a, g)
    BY <1>1, <1>2, <1>3, ShrinkKeeps
  <1>5. Holds(g, s)
    BY <1>4, SameHolds
  <1>6. PICK l, n, t, b : Shape(g, l, n, t, b) /\ Room(l, n, t) /\ Elements(s, l, n, t, b)
    BY <1>5, HeldIs
  <1>7. PICK r : r = Shrink([a EXCEPT !.length = m], used)
    OBVIOUS
  <1>8. r = [g EXCEPT !.length = m]
    BY <1>1, <1>2, <1>3, <1>7, ShrinkShortened
  <1>9. g.length = a.length /\ l = a.length
    BY <1>4, <1>6 DEF SameData, Shape
  <1>10. r = ARR(m, n, t, b)
    BY <1>6, <1>8, EditedLength DEF Shape
  <1>11. PICK src, dst, cnt : src = t + k + 1 /\ dst = t + k /\ cnt = m - k
    OBVIOUS
  <1>12. /\ l \in Nat /\ n \in Nat /\ t \in Nat /\ k \in Nat /\ m \in Nat /\ m = l - 1 /\ l = Len(s)
         /\ k < m /\ src \in Nat /\ dst \in Nat /\ cnt \in Nat /\ src + cnt <= n /\ t + m <= n
    <2>1. l \in Nat /\ n \in Nat /\ t \in Nat /\ t + l <= n /\ l = Len(s)
      BY <1>6 DEF Room, Elements
    <2>2. m = l - 1
      BY <1>2, <1>9
    <2> QED
      BY <1>11, <2>1, <2>2
  <1>13. PICK c, w : c = MemMove(b, dst, src, cnt) /\ w = Abstract!Without(s, k)
    OBVIOUS
  <1>14. IsMoved(n, b, dst, src, cnt, c)
    <2>1. dst + cnt <= n
      BY <1>11, <1>12
    <2> QED
      BY <1>6, <1>12, <1>13, <2>1, Moved DEF Elements
  <1>15. IsWithout(s, l, k, w)
    BY <1>1, <1>12, <1>13, WithoutIs
  <1>16. Room(m, n, t)
    BY <1>6, <1>12 DEF Room
  <1>17. Elements(w, m, n, t, c)
    <2>1. ASSUME NEW i \in 1..m PROVE c[t + i - 1] = w[i]
      <3>1. t + i - 1 \in 0..(n - 1) /\ i \in 1..(l - 1)
        BY <1>12
      <3>2. CASE i <= k
        <4>1. ~(dst <= t + i - 1) /\ i \in 1..l
          BY <1>11, <1>12, <3>2
        <4> QED
          BY <1>6, <1>14, <1>15, <3>1, <3>2, <4>1 DEF IsMoved, IsWithout, Elements
      <3>3. CASE ~(i <= k)
        <4>1. /\ dst <= t + i - 1 /\ t + i - 1 < dst + cnt /\ (t + i - 1) - dst + src = t + (i + 1) - 1
              /\ i + 1 \in 1..l
          BY <1>11, <1>12, <3>3
        <4> QED
          BY <1>6, <1>14, <1>15, <3>1, <3>3, <4>1 DEF IsMoved, IsWithout, Elements
      <3> QED
        BY <3>2, <3>3
    <2> QED
      BY <1>12, <1>14, <1>15, <2>1 DEF Elements, IsMoved, IsWithout
  <1>18. Holds(ARR(m, n, t, c), w)
    BY <1>16, <1>17, HoldsBy
  <1>19. r \in Arrays
    <2>1. b \in [0..(n - 1) -> Cell]
      BY <1>6 DEF Elements
    <2> QED
      BY <1>10, <1>16, <2>1, IsArray DEF Room
  <1>20. [r EXCEPT !.buf = c] = ARR(r.length, r.buf_length, r.top, c)
    BY <1>19, EditedBuf
  <1>21. r.length = m /\ r.buf_length = n /\ r.top = t /\ r.buf = b
    BY <1>10 DEF ARR
  <1>22. DeleteMiddle(a, k) = [r EXCEPT !.buf = c]
    BY <1>2, <1>7, <1>11, <1>13, <1>21 DEF DeleteMiddle
  <1> QED
    BY <1>13, <1>18, <1>20, <1>21, <1>22

\* fth_array_delete.
LEMMA DeleteHolds ==
    ASSUME NEW a, NEW s, Holds(a, s), NEW k \in 0..(Len(s) - 1)
    PROVE  /\ Holds(DeleteCells(a, k), Abstract!Without(s, k))
           /\ Holds(fth_array_delete(a, k), Abstract!Without(s, k))
  <1>1. a.length = Len(s) /\ Len(s) \in Nat /\ k \in Nat /\ k < Len(s)
    BY DEF Holds
  <1>2. Holds(DeleteCells(a, k), Abstract!Without(s, k))
    <2>1. CASE k = 0
      BY <1>1, <2>1, ShiftHolds DEF DeleteCells
    <2>2. CASE k # 0 /\ k = Len(s) - 1
      <3>1. DeleteCells(a, k) = PopCells(a)
        BY <1>1, <2>2 DEF DeleteCells
      <3>2. Holds(PopCells(a), Abstract!Without(s, Len(s) - 1))
        BY <1>1, PopHolds
      <3> QED
        BY <2>2, <3>1, <3>2
    <2>3. CASE k # 0 /\ k # Len(s) - 1
      <3>1. k \in 1..(Len(s) - 2)
        BY <1>1, <2>3
      <3>2. DeleteCells(a, k) = DeleteMiddle(a, k)
        BY <1>1, <2>3 DEF DeleteCells
      <3> QED
        BY <3>1, <3>2, DeleteMiddleHolds
    <2> QED
      BY <2>1, <2>2, <2>3
  <1> QED
    BY <1>2, SettleHolds DEF fth_array_delete

\* Elements rewritten in place.
LEMMA OverwriteHolds ==
    ASSUME NEW a \in Arrays, NEW w \in Seq(Cell), Len(w) <= a.length
    PROVE  Holds(Overwrite(a, w), w)
  <1>1. Holds(a, Contents(a))
    BY HoldsContents
  <1>2. PICK l, n, t, b : Shape(a, l, n, t, b) /\ Room(l, n, t) /\ Elements(Contents(a), l, n, t, b)
    BY <1>1, HeldIs
  <1>3. PICK m, c : m = Len(w) /\ c = Store(b, t, w)
    OBVIOUS
  <1>4. l \in Nat /\ n \in Nat /\ t \in Nat /\ t + l <= n /\ m \in Nat /\ m <= l
    BY <1>2, <1>3 DEF Shape, Room
  <1>5. IsStored(n, b, t, w, c)
    BY <1>2, <1>3, <1>4, Stored DEF Elements
  <1>6. Room(m, n, t)
    BY <1>2, <1>4 DEF Room
  <1>7. Elements(w, m, n, t, c)
    <2>1. ASSUME NEW i \in 1..m PROVE c[t + i - 1] = w[i]
      <3>1. t + i - 1 \in 0..(n - 1) /\ t <= t + i - 1 /\ t + i - 1 < t + m /\ (t + i - 1) - t + 1 = i
        BY <1>4
      <3> QED
        BY <1>3, <1>5, <3>1 DEF IsStored
    <2> QED
      BY <1>3, <1>5, <2>1 DEF Elements, IsStored
  <1>8. Holds(ARR(m, n, t, c), w)
    BY <1>6, <1>7, HoldsBy
  <1>9. [a EXCEPT !.buf = c, !.length = m] = ARR(m, a.buf_length, a.top, c)
    BY EditedData
  <1>10. Holds([a EXCEPT !.buf = c, !.length = m], w)
    BY <1>2, <1>8, <1>9 DEF Shape
  <1> QED
    BY <1>2, <1>3, <1>10, SettleHolds DEF Overwrite, Shape

\* What Settle leaves of a record, whatever its buffer.
LEMMA SettledIs ==
    ASSUME NEW l, NEW n, NEW t, NEW b
    PROVE  Settle(ARR(l, n, t, b)) = ARR(l, n, t, Keep(b, t, l))
  <1>1. PICK a, c : a = ARR(l, n, t, b) /\ c = Keep(b, t, l)
    OBVIOUS
  <1>2. a = [length |-> l, buf_length |-> n, top |-> t, buf |-> b]
    BY <1>1 DEF ARR
  <1>3. PICK e : e = [a EXCEPT !.buf = c]
    OBVIOUS
  <1>4. /\ e = [x \in {"length", "buf_length", "top", "buf"} |-> e[x]]
        /\ e.length = l /\ e.buf_length = n /\ e.top = t /\ e.buf = c
    BY <1>2, <1>3
  <1>5. e = ARR(l, n, t, c)
    BY <1>4 DEF ARR
  <1>6. a.length = l /\ a.top = t /\ a.buf = b
    BY <1>2
  <1> QED
    BY <1>1, <1>3, <1>5, <1>6 DEF Settle

\* The sub-array x of k elements: m cells of which p lie before the data and at least one
\* behind them, with all that fth_array_subarray copies in d.
Copied(a, start) == [i \in 1..a.length |-> Rd(a.buf, a.top + start + i - 1)]
IsPart(a, start, k, m, p, c, d, x) ==
    /\ Room(k, m, p) /\ p + k < m /\ c \in [0..(m - 1) -> Cell]
    /\ d = Store(c, p, Copied(a, start))
    /\ x = ARR(k, m, p, Keep(d, p, k))

\* array-subarray, in the block or not.
LEMMA PartIs ==
    ASSUME NEW a, NEW s, Holds(a, s), NEW start \in 0..(Len(s) - 1), NEW end \in Int,
           NEW e, e = SubarrayEnd(a, start, end), ~MakeTooLong(e - start)
    PROVE  /\ e \in start..Len(s)
           /\ \E m, p, c, d : IsPart(a, start, e - start, m, p, c, d, fth_array_subarray(a, start, end))
  <1>1. a.length = Len(s) /\ s \in Seq(Cell)
    BY DEF Holds
  <1>2. e \in start..Len(s)
    BY <1>1 DEF SubarrayEnd
  <1>3. PICK k, junk : k = e - start /\ junk = [i \in 1..k |-> Junk]
    OBVIOUS
  <1>4. k \in Nat
    BY <1>2, <1>3
  <1>5. junk \in Seq(Cell) /\ Len(junk) = k
    BY <1>3, <1>4 DEF Cell
  <1>6. PICK r : r = make_array(junk)
    OBVIOUS
  <1>7. Holds(r, junk)
    BY <1>3, <1>5, <1>6, MakeHolds
  <1>8. PICK k2, m, p, c : Shape(r, k2, m, p, c) /\ Room(k2, m, p) /\ Elements(junk, k2, m, p, c)
    BY <1>7, HeldIs
  <1>9. k2 = k /\ c \in [0..(m - 1) -> Cell]
    BY <1>5, <1>8 DEF Elements
  <1>10. p + k < m
    <2>1. p = MakeTop(k) /\ m = MakeBufLength(k)
      BY <1>5, <1>6, <1>8 DEF Shape, make_array
    <2>2. NewSeqLength(k) \in Nat
      BY <1>4, Rounding
    <2>3. p \in Nat
      BY <2>1, <2>2, Halves DEF MakeTop
    <2> QED
      BY <1>4, <2>1, <2>3, Rounding DEF MakeBufLength
  <1>11. PICK d : d = Store(c, p, Copied(a, start))
    OBVIOUS
  <1>12. [r EXCEPT !.buf = d] = ARR(k, m, p, d)
    <2>1. r \in Arrays /\ r.length = k /\ r.buf_length = m /\ r.top = p
      BY <1>8, <1>9 DEF Shape
    <2>2. [r EXCEPT !.buf = d] = ARR(r.length, r.buf_length, r.top, d)
      BY <2>1, EditedBuf
    <2> QED
      BY <2>1, <2>2
  <1>13. fth_array_subarray(a, start, end) = Settle([r EXCEPT !.buf = d])
    BY <1>3, <1>6, <1>8, <1>11 DEF fth_array_subarray, Copied, Shape
  <1>14. fth_array_subarray(a, start, end) = ARR(k, m, p, Keep(d, p, k))
    BY <1>12, <1>13, SettledIs
  <1>15. IsPart(a, start, k, m, p, c, d, fth_array_subarray(a, start, end))
    BY <1>8, <1>9, <1>10, <1>11, <1>14 DEF IsPart
  <1> QED
    BY <1>2, <1>3, <1>15

\* It lies in its block if and only if there is room for all that is copied.
LEMMA PartInBlock ==
    ASSUME NEW a, NEW l \in Nat \ {0}, a.length = l, NEW start, NEW k, NEW m, NEW p, NEW c, NEW d, NEW x,
           IsPart(a, start, k, m, p, c, d, x)
    PROVE  InBlock(x) <=> p + l <= m
  <1>1. m \in Nat /\ p \in Nat /\ DOMAIN c = 0..(m - 1)
    BY DEF IsPart, Room
  <1>2. Len(Copied(a, start)) = l
    BY DEF Copied
  <1>3. DOMAIN d = Written(c, p, l)
    BY <1>2 DEF IsPart, Store
  <1>4. DOMAIN x.buf = Written(c, p, l)
    BY <1>3 DEF IsPart, ARR, Keep
  <1>5. Beyond \notin 0..(m - 1)
    BY <1>1 DEF Beyond
  <1>6. InBlock(x) <=> p..(p + l - 1) \subseteq 0..(m - 1)
    BY <1>1, <1>4, <1>5 DEF InBlock, Written
  <1>7. p + l - 1 \in p..(p + l - 1)
    BY <1>1
  <1>8. p..(p + l - 1) \subseteq 0..(m - 1) <=> p + l <= m
    BY <1>1, <1>7
  <1> QED
    BY <1>6, <1>8

\* array-subarray in its block.
LEMMA SubarrayHolds ==
    ASSUME NEW a, NEW s, Holds(a, s), NEW start \in 0..(Len(s) - 1), NEW end \in Int,
           NEW e, e = SubarrayEnd(a, start, end), ~MakeTooLong(e - start),
           InBlock(fth_array_subarray(a, start, end))
    PROVE  /\ Holds(fth_array_subarray(a, start, end), SubSeq(s, start + 1, e))
           /\ e \in start..Len(s)
  <1>1. PICK l, n, t, b : Shape(a, l, n, t, b) /\ Room(l, n, t) /\ Elements(s, l, n, t, b)
    BY HeldIs
  <1>2. /\ l \in Nat /\ n \in Nat /\ t \in Nat /\ t + l <= n /\ l = Len(s) /\ start \in Nat /\ start < l /\ s \in Seq(Cell)
        /\ b \in [0..(n - 1) -> Cell] /\ a.length = l
    BY <1>1 DEF Room, Elements, Shape
  <1>3. e \in start..Len(s)
    BY PartIs
  <1>4. PICK k : k = e - start
    OBVIOUS
  <1>5. k \in Nat /\ start + k = e /\ e <= l
    BY <1>2, <1>3, <1>4
  <1>6. PICK x : x = fth_array_subarray(a, start, end)
    OBVIOUS
  <1>7. PICK m, p, c, d : IsPart(a, start, k, m, p, c, d, x)
    BY <1>4, <1>6, PartIs
  <1>8. l \in Nat \ {0} /\ InBlock(x)
    BY <1>2, <1>6
  <1>9. p + l <= m
    BY <1>2, <1>7, <1>8, PartInBlock
  <1>10. PICK copied, w : copied = Copied(a, start) /\ w = SubSeq(s, start + 1, e)
    OBVIOUS
  <1>11. copied \in Seq(Cell) /\ Len(copied) = l
         /\ \A i \in 1..l : copied[i] = Rd(b, t + start + i - 1)
    <2>1. \A i \in 1..l : t + start + i - 1 \in Int
      BY <1>2
    <2>2. \A i \in 1..l : Rd(b, t + start + i - 1) \in Cell
      BY <1>2, <2>1, Reading
    <2>3. copied = [i \in 1..l |-> Rd(b, t + start + i - 1)]
      BY <1>1, <1>10 DEF Shape, Copied
    <2>4. copied \in [1..l -> Cell] /\ \A i \in 1..l : copied[i] = Rd(b, t + start + i - 1)
      BY <2>2, <2>3
    <2>5. l \in Nat
      BY <1>2
    <2>6. copied \in Seq(Cell) /\ Len(copied) = l
      BY <2>4, <2>5
    <2> QED
      BY <2>4, <2>6
  <1>12. /\ m \in Nat /\ p \in Nat /\ p + k <= m /\ c \in [0..(m - 1) -> Cell] /\ d = Store(c, p, copied)
         /\ Room(k, m, p) /\ x = ARR(k, m, p, Keep(d, p, k))
    BY <1>7, <1>10 DEF IsPart, Room
  <1>13. IsStored(m, c, p, copied, d)
    BY <1>9, <1>11, <1>12, Stored
  <1>14. w \in Seq(Cell) /\ Len(w) = k /\ \A i \in 1..k : w[i] = s[start + i]
    <2>1. start + 1 \in 1..(Len(s) + 1) /\ e \in start..Len(s) /\ k = e - start /\ start \in Nat /\ Len(s) \in Nat
      BY <1>2, <1>3, <1>4
    <2>2. w = SubSeq(s, start + 1, e) /\ s \in Seq(Cell)
      BY <1>2, <1>10
    <2>3. w \in Seq(Cell) /\ Len(w) = k /\ \A i \in 1..k : w[i] = s[start + i]
      BY <2>1, <2>2
    <2> QED
      BY <2>2, <2>3
  <1>15. Elements(w, k, m, p, d)
    <2>1. ASSUME NEW i \in 1..k PROVE d[p + i - 1] = w[i]
      <3>1. /\ p + i - 1 \in 0..(m - 1) /\ p <= p + i - 1 /\ p + i - 1 < p + l /\ (p + i - 1) - p + 1 = i
            /\ i \in 1..l /\ start + i \in 1..l /\ t + start + i - 1 = t + (start + i) - 1
            /\ t + (start + i) - 1 \in 0..(n - 1) /\ t + (start + i) - 1 \in Int
        BY <1>2, <1>5, <1>12
      <3>2. d[p + i - 1] = copied[i]
        BY <1>11, <1>13, <3>1 DEF IsStored
      <3>3. copied[i] = Rd(b, t + (start + i) - 1)
        BY <1>11, <3>1
      <3>4. Rd(b, t + (start + i) - 1) = b[t + (start + i) - 1]
        BY <1>2, <3>1, Reading
      <3> QED
        BY <1>1, <1>14, <3>1, <3>2, <3>3, <3>4 DEF Elements
    <2> QED
      BY <1>13, <1>14, <2>1 DEF Elements, IsStored
  <1>16. Holds(ARR(k, m, p, d), w)
    BY <1>12, <1>15, HoldsBy
  <1>17. Holds(Settle(ARR(k, m, p, d)), w)
    BY <1>16, SettleHolds
  <1>18. Settle(ARR(k, m, p, d)) = x
    BY <1>12, SettledIs
  <1> QED
    BY <1>3, <1>6, <1>10, <1>17, <1>18

-----------------------------------------------------------------------------
(* Recursion on the naturals. *)

\* A nonempty set of naturals has a least element (NatLessThanWellFounded).
LEMMA Least ==
    ASSUME NEW P \in SUBSET Nat, P # {}
    PROVE  \E k \in P : \A j \in P : k <= j
  <1>1. PICK k \in P : \A j \in P : ~(<<j, k>> \in OpToRel(<, Nat))
    BY WFMin, NatLessThanWellFounded
  <1>2. \A j \in P : ~(j < k)
    BY <1>1 DEF OpToRel
  <1> QED
    BY <1>2

\* Induction up to N: a set that holds 0 and with each number below N the next one.
LEMMA UpTo ==
    ASSUME NEW N \in Nat, NEW P, 0 \in P, \A n \in 1..N : n - 1 \in P => n \in P
    PROVE  \A n \in 0..N : n \in P
  <1> SUFFICES ASSUME (0..N) \ P # {} PROVE FALSE
    OBVIOUS
  <1>1. PICK k \in (0..N) \ P : \A j \in (0..N) \ P : k <= j
    BY Least, (0..N) \ P \in SUBSET Nat
  <1>2. k \in 1..N /\ k - 1 \in 0..N /\ ~(k <= k - 1)
    BY <1>1
  <1>3. k - 1 \in P
    BY <1>1, <1>2
  <1> QED
    BY <1>1, <1>2, <1>3

\* The values of a recursive function stay in a set that each step keeps.
LEMMA Stays ==
    ASSUME NEW N \in Nat, NEW Dom, NEW f, f[0] \in Dom, \A n \in 1..N : f[n - 1] \in Dom => f[n] \in Dom
    PROVE  f[N] \in Dom
  <1> DEFINE P == {n \in 0..N : f[n] \in Dom}
  <1>1. 0 \in P /\ \A n \in 1..N : n - 1 \in P => n \in P
    OBVIOUS
  <1> HIDE DEF P
  <1>2. \A n \in 0..N : n \in P
    BY <1>1, UpTo
  <1>3. N \in P
    BY <1>2
  <1> QED
    BY <1>3 DEF P

\* g follows the steps from base, the first n of them.
Follows(base, step, n, g) == g = [k \in 0..n |-> IF k = 0 THEN base ELSE step[k][g[k - 1]]]

\* The function that a sequence of steps defines, and what its values are.
LEMMA Recursive ==
    ASSUME NEW N \in Nat, NEW Dom, NEW base \in Dom, NEW step \in [1..N -> [Dom -> Dom]]
    PROVE  \E g \in [0..N -> Dom] : Follows(base, step, N, g)
  <1> DEFINE P == {n \in 0..N : \E g \in [0..n -> Dom] : Follows(base, step, n, g)}
  <1>1. 0 \in P
    <2>1. PICK g : g = [k \in 0..0 |-> base]
      OBVIOUS
    <2>2. g \in [0..0 -> Dom] /\ Follows(base, step, 0, g)
      BY <2>1 DEF Follows
    <2> QED
      BY <2>2
  <1>2. \A n \in 1..N : n - 1 \in P => n \in P
    <2> SUFFICES ASSUME NEW n \in 1..N, n - 1 \in P PROVE n \in P
      OBVIOUS
    <2>1. PICK g \in [0..(n - 1) -> Dom] : Follows(base, step, n - 1, g)
      OBVIOUS
    <2>2. n - 1 \in 0..(n - 1) /\ step[n] \in [Dom -> Dom]
      OBVIOUS
    <2>3. PICK x \in Dom : x = step[n][g[n - 1]]
      BY <2>2
    <2>4. PICK h : h = [k \in 0..n |-> IF k = n THEN x ELSE g[k]]
      OBVIOUS
    <2>5. \A k \in 0..(n - 1) : h[k] = g[k]
      BY <2>4
    <2>6. h \in [0..n -> Dom] /\ h[n] = x
      BY <2>4
    <2>7. \A k \in 0..n : h[k] = IF k = 0 THEN base ELSE step[k][h[k - 1]]
      <3> SUFFICES ASSUME NEW k \in 0..n PROVE h[k] = IF k = 0 THEN base ELSE step[k][h[k - 1]]
        OBVIOUS
      <3>1. CASE k = n
        BY <2>3, <2>5, <2>6, <3>1
      <3>2. CASE k # n
        <4>1. k \in 0..(n - 1) /\ (k # 0 => k - 1 \in 0..(n - 1))
          BY <3>2
        <4>2. g[k] = IF k = 0 THEN base ELSE step[k][g[k - 1]]
          BY <2>1, <4>1 DEF Follows
        <4> QED
          BY <2>5, <4>1, <4>2
      <3> QED
        BY <3>1, <3>2
    <2>8. Follows(base, step, n, h)
      BY <2>6, <2>7 DEF Follows
    <2> QED
      BY <2>6, <2>8
  <1> HIDE DEF P
  <1>3. \A n \in 0..N : n \in P
    BY <1>1, <1>2, UpTo
  <1>4. N \in P
    BY <1>3
  <1> QED
    BY <1>4 DEF P

-----------------------------------------------------------------------------
(* fth_array_each. *)

\* g holds what has been kept after each element of s: C[n] says before which
\* sequences the n-th one is wanted.
Keeps(s, C, g) ==
    \A n \in 0..Len(s) :
        g[n] = IF n = 0 THEN <<>> ELSE IF g[n - 1] \in C[n] THEN Append(g[n - 1], s[n]) ELSE g[n - 1]

\* The loop that keeps some elements is defined.
LEMMA Keeping ==
    ASSUME NEW T, NEW s \in Seq(T), NEW C \in [1..Len(s) -> SUBSET Seq(T)]
    PROVE  \E g \in [0..Len(s) -> Seq(T)] : Keeps(s, C, g)
  <1>1. PICK N, Q : N = Len(s) /\ Q = Seq(T)
    OBVIOUS
  <1>2. N \in Nat /\ \A n \in 1..N : s[n] \in T /\ C[n] \in SUBSET Q
    BY <1>1
  <1>3. <<>> \in Q /\ \A x \in Q, v \in T : Append(x, v) \in Q
    BY <1>1
  <1>4. PICK step : step = [n \in 1..N |-> [x \in Q |-> IF x \in C[n] THEN Append(x, s[n]) ELSE x]]
    OBVIOUS
  <1>5. step \in [1..N -> [Q -> Q]]
    BY <1>2, <1>3, <1>4
  <1>6. PICK g \in [0..N -> Q] : Follows(<<>>, step, N, g)
    BY <1>2, <1>3, <1>5, Recursive
  <1>7. \A n \in 1..N : n - 1 \in 0..N /\ g[n - 1] \in Q
    BY <1>2
  <1>8. \A n \in 1..N : step[n][g[n - 1]] = IF g[n - 1] \in C[n] THEN Append(g[n - 1], s[n]) ELSE g[n - 1]
    BY <1>4, <1>7
  <1>9. \A n \in 0..N : g[n] = IF n = 0 THEN <<>> ELSE step[n][g[n - 1]]
    BY <1>6 DEF Follows
  <1>10. Keeps(s, C, g)
    <2> SUFFICES ASSUME NEW n \in 0..N
                 PROVE  g[n] = IF n = 0 THEN <<>>
                               ELSE IF g[n - 1] \in C[n] THEN Append(g[n - 1], s[n]) ELSE g[n - 1]
      BY <1>1 DEF Keeps
    <2>1. n = 0 \/ n \in 1..N
      BY <1>2
    <2> QED
      BY <1>8, <1>9, <2>1
  <1> QED
    BY <1>1, <1>10

AtMost(T, n, w) == w \in Seq(T) /\ Len(w) <= n

\* What such a loop has kept are elements, no more than there were.
LEMMA KeptAre ==
    ASSUME NEW T, NEW s \in Seq(T), NEW f, f[0] = <<>>,
           \A n \in 1..Len(s) : f[n] = Append(f[n - 1], s[n]) \/ f[n] = f[n - 1]
    PROVE  f[Len(s)] \in Seq(T) /\ Len(f[Len(s)]) <= Len(s)
  <1>1. PICK N : N = Len(s)
    OBVIOUS
  <1> DEFINE P == {n \in 0..N : AtMost(T, n, f[n])}
  <1>2. N \in Nat /\ \A n \in 1..N : s[n] \in T
    BY <1>1
  <1>3. 0 \in P
    <2>1. AtMost(T, 0, <<>>)
      BY DEF AtMost
    <2> QED
      BY <1>2, <2>1
  <1>4. \A n \in 1..N : n - 1 \in P => n \in P
    <2> SUFFICES ASSUME NEW n \in 1..N, n - 1 \in P PROVE n \in P
      OBVIOUS
    <2>1. PICK x, v : x = f[n - 1] /\ v = s[n]
      OBVIOUS
    <2>2. n \in Int /\ x \in Seq(T) /\ Len(x) <= n - 1 /\ v \in T
      BY <1>2, <2>1 DEF AtMost
    <2>3. Append(x, v) \in Seq(T) /\ Len(Append(x, v)) = Len(x) + 1 /\ Len(x) \in Nat
      BY <2>2
    <2>4. PICK y : y = f[n]
      OBVIOUS
    <2>5. y = Append(x, v) \/ y = x
      BY <1>1, <2>1, <2>4
    <2>6. AtMost(T, n, y)
      <3>1. AtMost(T, n, x)
        BY <2>2, <2>3 DEF AtMost
      <3>2. AtMost(T, n, Append(x, v))
        BY <2>2, <2>3 DEF AtMost
      <3> QED
        BY <2>5, <3>1, <3>2
    <2> QED
      BY <2>4, <2>6
  <1> HIDE DEF P
  <1>5. \A n \in 0..N : n \in P
    BY <1>2, <1>3, <1>4, UpTo
  <1>6. N \in P
    BY <1>2, <1>5
  <1> QED
    BY <1>1, <1>6 DEF P, AtMost

WithoutNil(s) == EachKept(s, NotNil)

\* array-compact!: what is left when nil goes.
LEMMA NotNilKept ==
    ASSUME NEW T, NEW s \in Seq(T)
    PROVE  WithoutNil(s) \in Seq(T) /\ Len(WithoutNil(s)) <= Len(s)
  <1> DEFINE F(f) == f = [n \in 0..Len(s) |->
                             IF n = 0 THEN <<>>
                             ELSE IF NotNil(f[n - 1], s[n]) THEN Append(f[n - 1], s[n]) ELSE f[n - 1]]
             u == CHOOSE f : F(f)
  <1>1. WithoutNil(s) = u[Len(s)]
    BY DEF WithoutNil, EachKept
  <1>2. \E f : F(f)
    <2>1. PICK C : C = [n \in 1..Len(s) |-> {x \in Seq(T) : NotNil(x, s[n])}]
      OBVIOUS
    <2>2. C \in [1..Len(s) -> SUBSET Seq(T)]
      BY <2>1
    <2>3. PICK g \in [0..Len(s) -> Seq(T)] : Keeps(s, C, g)
      BY <2>2, Keeping
    <2>4. \A n \in 1..Len(s) : n - 1 \in 0..Len(s) /\ g[n - 1] \in Seq(T)
      OBVIOUS
    <2>5. \A n \in 1..Len(s) : g[n - 1] \in C[n] <=> NotNil(g[n - 1], s[n])
      BY <2>1, <2>4
    <2>6. \A n \in 0..Len(s) :
              g[n] = IF n = 0 THEN <<>>
                     ELSE IF NotNil(g[n - 1], s[n]) THEN Append(g[n - 1], s[n]) ELSE g[n - 1]
      BY <2>3, <2>5 DEF Keeps
    <2>7. F(g)
      BY <2>6
    <2> QED
      BY <2>7
  <1>3. F(u)
    BY <1>2
  <1> HIDE DEF u
  <1>0. \A n \in 0..Len(s) :
           u[n] = IF n = 0 THEN <<>>
                  ELSE IF NotNil(u[n - 1], s[n]) THEN Append(u[n - 1], s[n]) ELSE u[n - 1]
    BY <1>3
  <1>4. u[0] = <<>> /\ \A n \in 1..Len(s) : u[n] = Append(u[n - 1], s[n]) \/ u[n] = u[n - 1]
    <2>1. 0 \in 0..Len(s) /\ \A n \in 1..Len(s) : n \in 0..Len(s) /\ n # 0
      OBVIOUS
    <2> QED
      BY <1>0, <2>1
  <1>5. u[Len(s)] \in Seq(T) /\ Len(u[Len(s)]) <= Len(s)
    BY <1>4, KeptAre
  <1> QED
    BY <1>1, <1>5

OnceEach(s) == EachKept(s, NotMember)

\* array-uniq!: what is left when each element is kept once.
LEMMA NotMemberKept ==
    ASSUME NEW T, NEW s \in Seq(T)
    PROVE  OnceEach(s) \in Seq(T) /\ Len(OnceEach(s)) <= Len(s)
  <1> DEFINE F(f) == f = [n \in 0..Len(s) |->
                             IF n = 0 THEN <<>>
                             ELSE IF NotMember(f[n - 1], s[n]) THEN Append(f[n - 1], s[n]) ELSE f[n - 1]]
             u == CHOOSE f : F(f)
  <1>1. OnceEach(s) = u[Len(s)]
    BY DEF OnceEach, EachKept
  <1>2. \E f : F(f)
    <2>1. PICK C : C = [n \in 1..Len(s) |-> {x \in Seq(T) : NotMember(x, s[n])}]
      OBVIOUS
    <2>2. C \in [1..Len(s) -> SUBSET Seq(T)]
      BY <2>1
    <2>3. PICK g \in [0..Len(s) -> Seq(T)] : Keeps(s, C, g)
      BY <2>2, Keeping
    <2>4. \A n \in 1..Len(s) : n - 1 \in 0..Len(s) /\ g[n - 1] \in Seq(T)
      OBVIOUS
    <2>5. \A n \in 1..Len(s) : g[n - 1] \in C[n] <=> NotMember(g[n - 1], s[n])
      BY <2>1, <2>4
    <2>6. \A n \in 0..Len(s) :
              g[n] = IF n = 0 THEN <<>>
                     ELSE IF NotMember(g[n - 1], s[n]) THEN Append(g[n - 1], s[n]) ELSE g[n - 1]
      BY <2>3, <2>5 DEF Keeps
    <2>7. F(g)
      BY <2>6
    <2> QED
      BY <2>7
  <1>3. F(u)
    BY <1>2
  <1> HIDE DEF u
  <1>0. \A n \in 0..Len(s) :
           u[n] = IF n = 0 THEN <<>>
                  ELSE IF NotMember(u[n - 1], s[n]) THEN Append(u[n - 1], s[n]) ELSE u[n - 1]
    BY <1>3
  <1>4. u[0] = <<>> /\ \A n \in 1..Len(s) : u[n] = Append(u[n - 1], s[n]) \/ u[n] = u[n - 1]
    <2>1. 0 \in 0..Len(s) /\ \A n \in 1..Len(s) : n \in 0..Len(s) /\ n # 0
      OBVIOUS
    <2> QED
      BY <1>0, <2>1
  <1>5. u[Len(s)] \in Seq(T) /\ Len(u[Len(s)]) <= Len(s)
    BY <1>4, KeptAre
  <1> QED
    BY <1>1, <1>5

Others(s, v) == EachKept(s, LAMBDA kept, w : w # v)

\* list-delete: what is left when v goes.
LEMMA OthersKept ==
    ASSUME NEW T, NEW s \in Seq(T), NEW v
    PROVE  Others(s, v) \in Seq(T) /\ Len(Others(s, v)) <= Len(s)
  <1> DEFINE F(f) == f = [n \in 0..Len(s) |->
                             IF n = 0 THEN <<>>
                             ELSE IF s[n] # v THEN Append(f[n - 1], s[n]) ELSE f[n - 1]]
             u == CHOOSE f : F(f)
  <1>1. Others(s, v) = u[Len(s)]
    BY DEF Others, EachKept
  <1>2. \E f : F(f)
    <2>1. PICK C : C = [n \in 1..Len(s) |-> {x \in Seq(T) : s[n] # v}]
      OBVIOUS
    <2>2. C \in [1..Len(s) -> SUBSET Seq(T)]
      BY <2>1
    <2>3. PICK g \in [0..Len(s) -> Seq(T)] : Keeps(s, C, g)
      BY <2>2, Keeping
    <2>4. \A n \in 1..Len(s) : n - 1 \in 0..Len(s) /\ g[n - 1] \in Seq(T)
      OBVIOUS
    <2>5. \A n \in 1..Len(s) : g[n - 1] \in C[n] <=> s[n] # v
      BY <2>1, <2>4
    <2>6. \A n \in 0..Len(s) :
              g[n] = IF n = 0 THEN <<>>
                     ELSE IF s[n] # v THEN Append(g[n - 1], s[n]) ELSE g[n - 1]
      BY <2>3, <2>5 DEF Keeps
    <2>7. F(g)
      BY <2>6
    <2> QED
      BY <2>7
  <1>3. F(u)
    BY <1>2
  <1> HIDE DEF u
  <1>0. \A n \in 0..Len(s) :
           u[n] = IF n = 0 THEN <<>>
                  ELSE IF s[n] # v THEN Append(u[n - 1], s[n]) ELSE u[n - 1]
    BY <1>3
  <1>4. u[0] = <<>> /\ \A n \in 1..Len(s) : u[n] = Append(u[n - 1], s[n]) \/ u[n] = u[n - 1]
    <2>1. 0 \in 0..Len(s) /\ \A n \in 1..Len(s) : n \in 0..Len(s) /\ n # 0
      OBVIOUS
    <2> QED
      BY <1>0, <2>1
  <1>5. u[Len(s)] \in Seq(T) /\ Len(u[Len(s)]) <= Len(s)
    BY <1>4, KeptAre
  <1> QED
    BY <1>1, <1>5

Positions(s, a, b) == EachKept(s, LAMBDA kept, i : i < a \/ i >= b)

\* list-slice: the positions left when those from a to b go.
LEMMA PositionsKept ==
    ASSUME NEW T, NEW s \in Seq(T), NEW a, NEW b
    PROVE  Positions(s, a, b) \in Seq(T) /\ Len(Positions(s, a, b)) <= Len(s)
  <1> DEFINE F(f) == f = [n \in 0..Len(s) |->
                             IF n = 0 THEN <<>>
                             ELSE IF s[n] < a \/ s[n] >= b THEN Append(f[n - 1], s[n]) ELSE f[n - 1]]
             u == CHOOSE f : F(f)
  <1>1. Positions(s, a, b) = u[Len(s)]
    BY DEF Positions, EachKept
  <1>2. \E f : F(f)
    <2>1. PICK C : C = [n \in 1..Len(s) |-> {x \in Seq(T) : s[n] < a \/ s[n] >= b}]
      OBVIOUS
    <2>2. C \in [1..Len(s) -> SUBSET Seq(T)]
      BY <2>1
    <2>3. PICK g \in [0..Len(s) -> Seq(T)] : Keeps(s, C, g)
      BY <2>2, Keeping
    <2>4. \A n \in 1..Len(s) : n - 1 \in 0..Len(s) /\ g[n - 1] \in Seq(T)
      OBVIOUS
    <2>5. \A n \in 1..Len(s) : g[n - 1] \in C[n] <=> s[n] < a \/ s[n] >= b
      BY <2>1, <2>4
    <2>6. \A n \in 0..Len(s) :
              g[n] = IF n = 0 THEN <<>>
                     ELSE IF s[n] < a \/ s[n] >= b THEN Append(g[n - 1], s[n]) ELSE g[n - 1]
      BY <2>3, <2>5 DEF Keeps
    <2>7. F(g)
      BY <2>6
    <2> QED
      BY <2>7
  <1>3. F(u)
    BY <1>2
  <1> HIDE DEF u
  <1>0. \A n \in 0..Len(s) :
           u[n] = IF n = 0 THEN <<>>
                  ELSE IF s[n] < a \/ s[n] >= b THEN Append(u[n - 1], s[n]) ELSE u[n - 1]
    BY <1>3
  <1>4. u[0] = <<>> /\ \A n \in 1..Len(s) : u[n] = Append(u[n - 1], s[n]) \/ u[n] = u[n - 1]
    <2>1. 0 \in 0..Len(s) /\ \A n \in 1..Len(s) : n \in 0..Len(s) /\ n # 0
      OBVIOUS
    <2> QED
      BY <1>0, <2>1
  <1>5. u[Len(s)] \in Seq(T) /\ Len(u[Len(s)]) <= Len(s)
    BY <1>4, KeptAre
  <1> QED
    BY <1>1, <1>5


\* The elements of the list that list-slice leaves.
LEMMA OutsideIs ==
    ASSUME ary \in Arrays, NEW idx, NEW cnt
    PROVE  Outside(idx, cnt) \in Seq(Cell) /\ Len(Outside(idx, cnt)) <= ary.length
  <1>1. PICK l, n, t, b : l = ary.length /\ n = ary.buf_length /\ t = ary.top /\ b = ary.buf
    OBVIOUS
  <1>2. l \in Nat /\ n \in Nat /\ t \in Nat /\ b \in [0..(n - 1) -> Cell]
    BY <1>1, ArrayIs
  <1>3. PICK s : s = [i \in 1..l |-> i - 1]
    OBVIOUS
  <1>4. s \in Seq(Nat) /\ Len(s) = l
    BY <1>2, <1>3
  <1> DEFINE x == Norm(idx)
             y == Norm(idx) + cnt
  <1>5. PICK at : at = Positions(s, x, y)
    OBVIOUS
  <1>6. at \in Seq(Nat) /\ Len(at) <= l
    <2> HIDE DEF x, y
    <2> QED
      BY <1>4, <1>5, PositionsKept
  <1>7. Outside(idx, cnt) = [k \in 1..Len(at) |-> Rd(b, t + at[k])]
    BY <1>1, <1>3, <1>5 DEF Outside, At, Positions
  <1>8. \A k \in 1..Len(at) : Rd(b, t + at[k]) \in Cell
    <2> SUFFICES ASSUME NEW k \in 1..Len(at) PROVE Rd(b, t + at[k]) \in Cell
      OBVIOUS
    <2>1. t + at[k] \in Int
      BY <1>2, <1>6
    <2> QED
      BY <1>2, <2>1, Reading
  <1>9. PICK w : w = [k \in 1..Len(at) |-> Rd(b, t + at[k])]
    OBVIOUS
  <1>10. Len(at) \in Nat
    BY <1>6
  <1>11. w \in Seq(Cell) /\ Len(w) = Len(at)
    BY <1>8, <1>9, <1>10
  <1> QED
    BY <1>1, <1>6, <1>7, <1>9, <1>11

-----------------------------------------------------------------------------
(* The loops that push or unshift the elements of a sequence, and the loop *)
(* of list-delete!.                                                        *)

Lists == [a : Arrays, ok : BOOLEAN]

\* A list that is made.
LEMMA MadeIs ==
    ASSUME NEW a \in Arrays, NEW ok \in BOOLEAN
    PROVE  Made(a, ok) \in Lists /\ Made(a, ok).a = a /\ Made(a, ok).ok = ok
  BY DEF Made, Lists

\* The empty array fits in any buffer.
LEMMA EmptyMade == ~MakeTooLong(0) /\ Holds(make_array(<<>>), <<>>)
  <1>1. PICK d : d = DEFAULT_SEQ_LENGTH
    OBVIOUS
  <1>2. d \in Nat \ {0} /\ 2 * d <= MAX_SEQ_LENGTH /\ MAX_SEQ_LENGTH \in Nat
    BY <1>1, SeqAssumption
  <1>3. NewSeqLength(0) \in Nat /\ NewSeqLength(0) <= d
    BY <1>1, <1>2, Rounding
  <1>4. PICK m : m = NewSeqLength(0) \div 3
    OBVIOUS
  <1>5. m \in Nat /\ m <= d
    BY <1>2, <1>3, <1>4, Halves
  <1>6. NewSeqLength(m) \in Nat /\ NewSeqLength(m) <= m + d
    BY <1>1, <1>5, Rounding
  <1>7. ~(NewSeqLength(m) > MAX_SEQ_LENGTH)
    BY <1>2, <1>5, <1>6
  <1>8. ~MakeTooLong(0)
    BY <1>4, <1>5, <1>7 DEF MakeTooLong, MakeBufLength, MakeTop
  <1>9. <<>> \in Seq(Cell) /\ Len(<<>>) = 0
    OBVIOUS
  <1> QED
    BY <1>8, <1>9, MakeHolds

\* One push or unshift of such a loop.
PushOne(r, v) == IF r.ok /\ ~TooLong(r.a, PushNeed(r.a)) THEN Made(fth_array_push(r.a, v), TRUE) ELSE Made(r.a, FALSE)
UnshiftOne(r, v) ==
    IF r.ok /\ ~TooLong(r.a, UnshiftNeed(r.a)) THEN Made(fth_array_unshift(r.a, v), TRUE) ELSE Made(r.a, FALSE)

\* A turn of such a loop leaves an array.
LEMMA OnesAre ==
    ASSUME NEW r \in Lists, NEW v \in Cell
    PROVE  PushOne(r, v) \in Lists /\ UnshiftOne(r, v) \in Lists
  <1>1. r.a \in Arrays
    BY DEF Lists
  <1>2. Holds(r.a, Contents(r.a))
    BY <1>1, HoldsContents
  <1>3. ~TooLong(r.a, PushNeed(r.a)) => fth_array_push(r.a, v) \in Arrays
    BY <1>2, PushHolds DEF Holds
  <1>4. ~TooLong(r.a, UnshiftNeed(r.a)) => fth_array_unshift(r.a, v) \in Arrays
    BY <1>2, UnshiftHolds DEF Holds
  <1> QED
    BY <1>1, <1>3, <1>4, MadeIs DEF PushOne, UnshiftOne

\* A list made by pushing the elements of s.
LEMMA PushesAre ==
    ASSUME NEW s \in Seq(Cell)
    PROVE  Pushes(s) \in Lists
  <1> DEFINE F(f) == f = [n \in 0..Len(s) |-> IF n = 0 THEN List(<<>>) ELSE PushOne(f[n - 1], s[n])]
             u == CHOOSE f : F(f)
  <1>1. Pushes(s) = u[Len(s)]
    BY DEF Pushes, Each, PushOne
  <1>2. List(<<>>) \in Lists
    BY EmptyMade, MadeIs DEF List, Holds
  <1>3. \E f \in [0..Len(s) -> Lists] : F(f)
    <2>1. PICK step : step = [n \in 1..Len(s) |-> [r \in Lists |-> PushOne(r, s[n])]]
      OBVIOUS
    <2>2. Len(s) \in Nat /\ \A n \in 1..Len(s) : s[n] \in Cell
      OBVIOUS
    <2>3. step \in [1..Len(s) -> [Lists -> Lists]]
      BY <2>1, <2>2, OnesAre
    <2>4. PICK g \in [0..Len(s) -> Lists] : Follows(List(<<>>), step, Len(s), g)
      BY <1>2, <2>2, <2>3, Recursive
    <2>7. \A n \in 1..Len(s) : g[n - 1] \in Lists
      BY <2>2
    <2>5. \A n \in 1..Len(s) : step[n][g[n - 1]] = PushOne(g[n - 1], s[n])
      BY <2>1, <2>7
    <2>6. F(g)
      BY <2>4, <2>5 DEF Follows
    <2> QED
      BY <2>6
  <1>4. F(u)
    BY <1>3
  <1> HIDE DEF u
  <1>5. Len(s) \in Nat
    OBVIOUS
  <1>6. u[0] \in Lists
    BY <1>2, <1>4, <1>5
  <1>7. \A n \in 1..Len(s) : u[n] = PushOne(u[n - 1], s[n]) /\ s[n] \in Cell
    BY <1>4
  <1>9. \A n \in 1..Len(s) : u[n - 1] \in Lists => u[n] \in Lists
    BY <1>7, OnesAre
  <1>8. u[Len(s)] \in Lists
    BY <1>5, <1>6, <1>9, Stays
  <1> QED
    BY <1>1, <1>8

\* What is left when some are unshifted, the last one first.
LEMMA UnshiftsAre ==
    ASSUME NEW r \in Lists, NEW s \in Seq(Cell)
    PROVE  Unshifts(r, s) \in Lists
  <1>1. PICK w : w = S!Reverse(s)
    OBVIOUS
  <1>2. w \in Seq(Cell)
    BY <1>1 DEF S!Reverse
  <1> DEFINE F(f) == f = [n \in 0..Len(w) |-> IF n = 0 THEN r ELSE UnshiftOne(f[n - 1], w[n])]
             u == CHOOSE f : F(f)
  <1>3. Unshifts(r, s) = u[Len(w)]
    BY <1>1 DEF Unshifts, Each, UnshiftOne
  <1>4. Len(w) \in Nat /\ \A n \in 1..Len(w) : w[n] \in Cell
    BY <1>2
  <1>5. \E f \in [0..Len(w) -> Lists] : F(f)
    <2>1. PICK step : step = [n \in 1..Len(w) |-> [x \in Lists |-> UnshiftOne(x, w[n])]]
      OBVIOUS
    <2>2. step \in [1..Len(w) -> [Lists -> Lists]]
      BY <1>4, <2>1, OnesAre
    <2>3. PICK g \in [0..Len(w) -> Lists] : Follows(r, step, Len(w), g)
      BY <1>4, <2>2, Recursive
    <2>6. \A n \in 1..Len(w) : g[n - 1] \in Lists
      BY <1>4
    <2>4. \A n \in 1..Len(w) : step[n][g[n - 1]] = UnshiftOne(g[n - 1], w[n])
      BY <2>1, <2>6
    <2>5. F(g)
      BY <2>3, <2>4 DEF Follows
    <2> QED
      BY <2>5
  <1>6. F(u)
    BY <1>5
  <1> HIDE DEF u
  <1>7. u[0] = r
    BY <1>4, <1>6
  <1>8. \A n \in 1..Len(w) : u[n] = UnshiftOne(u[n - 1], w[n])
    BY <1>6
  <1>9. \A n \in 1..Len(w) : u[n - 1] \in Lists => u[n] \in Lists
    BY <1>4, <1>8, OnesAre
  <1>10. u[Len(w)] \in Lists
    BY <1>4, <1>7, <1>9, Stays
  <1> QED
    BY <1>3, <1>10

\* The states of the loop of list-delete!, and one turn of it (l is the length from before).
Deleting == [a : Arrays, i : Nat, ok : BOOLEAN]
DeleteOne(x, l, v, eq) ==
    IF ~x.ok \/ x.i >= l THEN x
    ELSE IF ~Equal(Rd(x.a.buf, x.a.top + x.i), v, eq) THEN [x EXCEPT !.i = @ + 1]
    ELSE IF x.i >= x.a.length THEN [x EXCEPT !.ok = FALSE]
    ELSE [x EXCEPT !.a = DeleteCells(x.a, x.i)]

\* A turn of the loop deletes an element there is.
LEMMA DeletesOne ==
    ASSUME NEW x \in Deleting, NEW l, NEW v, NEW eq
    PROVE  DeleteOne(x, l, v, eq) \in Deleting
  <1>1. x.a \in Arrays /\ x.i \in Nat
    BY DEF Deleting
  <1>2. [x EXCEPT !.i = @ + 1] \in Deleting /\ [x EXCEPT !.ok = FALSE] \in Deleting
    <2>1. \A k \in Nat : [x EXCEPT !.i = k] \in Deleting
      BY DEF Deleting
    <2>2. x.i + 1 \in Nat
      BY <1>1
    <2>3. [x EXCEPT !.ok = FALSE] \in Deleting
      BY DEF Deleting
    <2> QED
      BY <2>1, <2>2, <2>3
  <1>3. x.i < x.a.length => DeleteCells(x.a, x.i) \in Arrays
    <2>1. PICK s, k : s = Contents(x.a) /\ k = x.i
      OBVIOUS
    <2>2. Holds(x.a, s) /\ x.a.length = Len(s) /\ Len(s) \in Nat
      BY <1>1, <2>1, HoldsContents DEF Holds
    <2>3. k < Len(s) => k \in 0..(Len(s) - 1)
      BY <1>1, <2>1, <2>2
    <2> QED
      BY <2>1, <2>2, <2>3, DeleteHolds DEF Holds
  <1>4. x.i < x.a.length => [x EXCEPT !.a = DeleteCells(x.a, x.i)] \in Deleting
    BY <1>3 DEF Deleting
  <1>5. x.a.length \in Nat
    BY <1>1, ArrayIs
  <1> QED
    BY <1>1, <1>2, <1>4, <1>5 DEF DeleteOne

\* The array stays an array while list-delete! runs.
LEMMA DeleteLoopIs ==
    ASSUME ary \in Arrays, NEW v, NEW eq
    PROVE  DeleteLoop(v, eq) \in Deleting
  <1>1. PICK l, N, x0 : l = ary.length /\ N = 2 * ary.length /\ x0 = [a |-> ary, i |-> 0, ok |-> TRUE]
    OBVIOUS
  <1> DEFINE F(f) == f = [n \in 0..N |-> IF n = 0 THEN x0 ELSE DeleteOne(f[n - 1], l, v, eq)]
             u == CHOOSE f : F(f)
  <1>2. DeleteLoop(v, eq) = u[N]
    BY <1>1 DEF DeleteLoop, DeleteOne
  <1>3. N \in Nat
    BY <1>1, ArrayIs
  <1>4. x0 \in Deleting
    BY <1>1 DEF Deleting
  <1>5. \E f \in [0..N -> Deleting] : F(f)
    <2>1. PICK step : step = [n \in 1..N |-> [x \in Deleting |-> DeleteOne(x, l, v, eq)]]
      OBVIOUS
    <2>2. step \in [1..N -> [Deleting -> Deleting]]
      BY <2>1, DeletesOne
    <2>3. PICK g \in [0..N -> Deleting] : Follows(x0, step, N, g)
      BY <1>3, <1>4, <2>2, Recursive
    <2>6. \A n \in 1..N : g[n - 1] \in Deleting
      BY <1>3
    <2>4. \A n \in 1..N : step[n][g[n - 1]] = DeleteOne(g[n - 1], l, v, eq)
      BY <2>1, <2>6
    <2>5. F(g)
      BY <1>3, <2>3, <2>4 DEF Follows
    <2> QED
      BY <2>5
  <1>6. F(u)
    BY <1>5
  <1> HIDE DEF u
  <1>7. u[0] = x0
    BY <1>3, <1>6
  <1>8. \A n \in 1..N : u[n] = DeleteOne(u[n - 1], l, v, eq)
    BY <1>3, <1>6
  <1>9. \A n \in 1..N : u[n - 1] \in Deleting => u[n] \in Deleting
    BY <1>8, DeletesOne
  <1>10. u[N] \in Deleting
    BY <1>3, <1>4, <1>7, <1>9, Stays
  <1> QED
    BY <1>2, <1>10

-----------------------------------------------------------------------------
(* The invariant. *)

Loops == {x \in [op : {"none", "insert", "insert-self", "reject", "callback"}, i : Nat, vals : Seq(Cell)] :
             x.op = "insert" => x.i <= Len(x.vals)}

\* The array is one that fits, and array-insert! reads only elements there are.
ArrayInv == ary \in Arrays /\ loop \in Loops

\* The loops that begin.
LEMMA LoopsHold ==
    /\ NoLoop \in Loops
    /\ \A o \in {"insert-self", "reject", "callback"}, k \in Nat : Loop(o, k, <<>>) \in Loops
    /\ \A s \in Seq(Cell) : Loop("insert", Len(s), s) \in Loops
  <1>1. <<>> \in Seq(Cell) /\ 0 \in Nat /\ \A s \in Seq(Cell) : Len(s) \in Nat
    OBVIOUS
  <1>2. NoLoop \in Loops
    BY <1>1 DEF NoLoop, Loops
  <1>3. \A o \in {"insert-self", "reject", "callback"}, k \in Nat : Loop(o, k, <<>>) \in Loops
    BY <1>1 DEF Loop, Loops
  <1>4. \A s \in Seq(Cell) : Loop("insert", Len(s), s) \in Loops
    BY <1>1 DEF Loop, Loops
  <1> QED
    BY <1>2, <1>3, <1>4

\* The program's values are cells.
LEMMA ValuesAre ==
    /\ \A v \in Val : v \in Cell
    /\ Nil \in Cell /\ False \in Cell /\ Junk \in Cell
    /\ \A s \in Inserted : s \in Seq(Cell)
  <1>1. \A v \in Val : v \in Cell
    BY DEF Cell
  <1>2. Nil \in Cell /\ False \in Cell /\ Junk \in Cell
    BY ValAssumption DEF Cell
  <1>3. \A s \in Inserted : s \in Seq(Val)
    BY InputAssumption
  <1>4. \A s \in Seq(Val) : s \in Seq(Cell)
    BY <1>1
  <1> QED
    BY <1>1, <1>2, <1>3, <1>4

\* What the invariant says of the array.
LEMMA ArrayHolds ==
    ASSUME ArrayInv
    PROVE  /\ Holds(ary, Contents(ary))
           /\ Contents(ary) \in Seq(Cell) /\ Len(Contents(ary)) = ary.length
           /\ ary.length \in Nat /\ ary.buf_length \in Nat /\ ary.top \in Nat
           /\ ary.buf \in [0..(ary.buf_length - 1) -> Cell]
  <1>1. ary \in Arrays
    BY DEF ArrayInv
  <1>2. Holds(ary, Contents(ary))
    BY <1>1, HoldsContents
  <1> QED
    BY <1>1, <1>2, ArrayIs DEF Holds

\* An index in range is a place.
LEMMA PlaceOf ==
    ASSUME ArrayInv, NEW idx \in Int, InRange(idx)
    PROVE  Norm(idx) \in 0..(Len(Contents(ary)) - 1) /\ Norm(idx) \in Int
  BY ArrayHolds DEF InRange, Norm

\* An exception leaves the array and at most ends the loop.
LEMMA RaisesKeeps ==
    ASSUME ArrayInv, NEW kind, Raises(kind)
    PROVE  ArrayInv'
  BY LoopsHold DEF Raises, ArrayInv

\* make-array.
LEMMA MakeKeeps ==
    ASSUME ArrayInv, NEW n \in -1..MaxLen, NEW v \in Val, Make(n, v)
    PROVE  ArrayInv'
  <1>1. CASE n >= 0 /\ ~MakeTooLong(n) /\ ary' = make_array([i \in 1..n |-> v]) /\ UNCHANGED loop
    <2>1. n \in Nat
      BY <1>1, InputAssumption
    <2>2. PICK s : s = [i \in 1..n |-> v]
      OBVIOUS
    <2>3. s \in Seq(Cell) /\ Len(s) = n
      BY <2>1, <2>2, ValuesAre
    <2>4. ary' \in Arrays
      BY <1>1, <2>2, <2>3, MakeHolds DEF Holds
    <2> QED
      BY <1>1, <2>4 DEF ArrayInv
  <1>2. CASE Raises("too-long") \/ Raises("out-of-range")
    BY <1>2, RaisesKeeps
  <1> QED
    BY <1>1, <1>2 DEF Make

\* array-set!.
LEMMA SetKeeps ==
    ASSUME ArrayInv, NEW idx \in Int, NEW v \in Val, Set(idx, v)
    PROVE  ArrayInv'
  <1>1. CASE InRange(idx) /\ ary' = [ary EXCEPT !.buf = Store(@, ary.top + Norm(idx), <<v>>)] /\ UNCHANGED loop
    <2>1. Holds(ary, Contents(ary)) /\ Norm(idx) \in 0..(Len(Contents(ary)) - 1) /\ v \in Cell
      BY <1>1, ArrayHolds, PlaceOf, ValuesAre
    <2>2. ary' \in Arrays
      BY <1>1, <2>1, SetHolds DEF Holds
    <2> QED
      BY <1>1, <2>2 DEF ArrayInv
  <1>2. CASE Raises("out-of-range")
    BY <1>2, RaisesKeeps
  <1> QED
    BY <1>1, <1>2 DEF Set

\* array-push.
LEMMA PushKeeps ==
    ASSUME ArrayInv, NEW v \in Val, Push(v)
    PROVE  ArrayInv'
  <1>1. CASE ~TooLong(ary, PushNeed(ary)) /\ ary' = fth_array_push(ary, v) /\ UNCHANGED loop
    <2>1. Holds(ary, Contents(ary)) /\ v \in Cell
      BY ArrayHolds, ValuesAre
    <2>2. ary' \in Arrays
      BY <1>1, <2>1, PushHolds DEF Holds
    <2> QED
      BY <1>1, <2>2 DEF ArrayInv
  <1>2. CASE Raises("too-long")
    BY <1>2, RaisesKeeps
  <1> QED
    BY <1>1, <1>2 DEF Push

\* array-unshift.
LEMMA UnshiftKeeps ==
    ASSUME ArrayInv, NEW v \in Val, Unshift(v)
    PROVE  ArrayInv'
  <1>1. CASE ~TooLong(ary, UnshiftNeed(ary)) /\ ary' = fth_array_unshift(ary, v) /\ UNCHANGED loop
    <2>1. Holds(ary, Contents(ary)) /\ v \in Cell
      BY ArrayHolds, ValuesAre
    <2>2. ary' \in Arrays
      BY <1>1, <2>1, UnshiftHolds DEF Holds
    <2> QED
      BY <1>1, <2>2 DEF ArrayInv
  <1>2. CASE Raises("too-long")
    BY <1>2, RaisesKeeps
  <1> QED
    BY <1>1, <1>2 DEF Unshift

\* array-pop, array-shift.
LEMMA EndsKeep ==
    ASSUME ArrayInv, Pop \/ Shift
    PROVE  ArrayInv'
  <1>1. Holds(ary, Contents(ary)) /\ Len(Contents(ary)) = ary.length /\ ary.length \in Nat
    BY ArrayHolds
  <1>2. ASSUME ary.length # 0 PROVE fth_array_pop(ary) \in Arrays /\ fth_array_shift(ary) \in Arrays
    <2>1. Len(Contents(ary)) > 0
      BY <1>1, <1>2
    <2>2. fth_array_pop(ary) \in Arrays
      BY <1>1, <2>1, PopHolds DEF Holds
    <2>3. fth_array_shift(ary) \in Arrays
      BY <1>1, <2>1, ShiftHolds DEF Holds
    <2> QED
      BY <2>2, <2>3
  <1> QED
    BY <1>2 DEF Pop, Shift, ArrayInv

\* An element goes.
LEMMA DeletedIs ==
    ASSUME ArrayInv, NEW k \in Int, 0 <= k, k < ary.length
    PROVE  fth_array_delete(ary, k) \in Arrays
  <1>1. Holds(ary, Contents(ary)) /\ Len(Contents(ary)) = ary.length /\ ary.length \in Nat
    BY ArrayHolds
  <1>2. k \in 0..(Len(Contents(ary)) - 1)
    BY <1>1
  <1> QED
    BY <1>1, <1>2, DeleteHolds DEF Holds

\* array-delete!.
LEMMA DeleteKeeps ==
    ASSUME ArrayInv, NEW idx \in Int, Delete(idx)
    PROVE  ArrayInv'
  <1>1. CASE InRange(idx) /\ ary' = fth_array_delete(ary, Norm(idx)) /\ UNCHANGED loop
    BY <1>1, PlaceOf, DeletedIs DEF ArrayInv, InRange
  <1>2. CASE Raises(DeleteError)
    BY <1>2, RaisesKeeps
  <1> QED
    BY <1>1, <1>2 DEF Delete

\* array-index gives a place, or -1.
LEMMA IndexIs ==
    ASSUME ArrayInv, NEW v
    PROVE  IndexOf(v) = -1 \/ IndexOf(v) \in 0..(ary.length - 1)
  <1>1. PICK at : at = {k \in 0..(ary.length - 1) : Rd(ary.buf, ary.top + k) = v}
    OBVIOUS
  <1>2. ary.length \in Nat
    BY ArrayHolds
  <1>3. CASE at = {}
    BY <1>1, <1>3 DEF IndexOf
  <1>4. CASE at # {}
    <2>1. at \in SUBSET Nat
      BY <1>1, <1>2
    <2>2. \E k \in at : \A m \in at : k <= m
      BY <1>4, <2>1, Least
    <2>3. (CHOOSE k \in at : \A m \in at : k <= m) \in at
      BY <2>2
    <2>4. IndexOf(v) \in at
      BY <1>1, <1>4, <2>3 DEF IndexOf
    <2> QED
      BY <1>1, <2>4
  <1> QED
    BY <1>3, <1>4

\* array-delete-key.
LEMMA DeleteKeyKeeps ==
    ASSUME ArrayInv, NEW v, DeleteKey(v)
    PROVE  ArrayInv'
  <1>1. IndexOf(v) >= 0 => IndexOf(v) \in Int /\ 0 <= IndexOf(v) /\ IndexOf(v) < ary.length
    BY IndexIs, ArrayHolds
  <1> QED
    BY <1>1, DeletedIs DEF DeleteKey, ArrayInv


\* A sequence is inserted.
LEMMA InsertedFits ==
    ASSUME ArrayInv, NEW k \in 0..ary.length, NEW ins \in Seq(Cell), ~TooLong(ary, InsertNeed(ary, Len(ins)))
    PROVE  fth_array_insert(ary, k, ins) \in Arrays
  <1>1. Holds(ary, Contents(ary)) /\ k \in 0..Len(Contents(ary))
    BY ArrayHolds
  <1> QED
    BY <1>1, InsertHolds DEF Holds

\* array-insert! behind the first element.
LEMMA InsertAtKeeps ==
    ASSUME ArrayInv, NEW idx \in Int, NEW ins \in Inserted \cup {Contents(ary)}, InsertAt(idx, ins)
    PROVE  ArrayInv'
  <1>1. CASE /\ InRange(idx) /\ ~TooLong(ary, InsertNeed(ary, Len(ins)))
             /\ ary' = fth_array_insert(ary, Norm(idx), ins) /\ UNCHANGED loop
    <2>1. Norm(idx) \in 0..ary.length
      BY <1>1, PlaceOf, ArrayHolds
    <2>2. ins \in Seq(Cell)
      BY ValuesAre, ArrayHolds
    <2> QED
      BY <1>1, <2>1, <2>2, InsertedFits DEF ArrayInv
  <1>2. CASE Raises("too-long") \/ Raises("out-of-range")
    BY <1>2, RaisesKeeps
  <1> QED
    BY <1>1, <1>2 DEF InsertAt

\* assoc.
LEMMA InsertCellKeeps ==
    ASSUME ArrayInv, NEW i \in 0..MaxLen, NEW cell \in Val, InsertCell(i, cell)
    PROVE  ArrayInv'
  <1>1. CASE /\ i <= ary.length /\ CellLength(ary) <= MAX_SEQ_LENGTH
             /\ ary' = InsertOne(ary, i, cell) /\ UNCHANGED loop
    <2>1. Holds(ary, Contents(ary)) /\ i \in 0..Len(Contents(ary)) /\ cell \in Cell
      BY <1>1, ArrayHolds, ValuesAre, InputAssumption
    <2>2. ary' \in Arrays
      BY <1>1, <2>1, InsertOneHolds DEF Holds
    <2> QED
      BY <1>1, <2>2 DEF ArrayInv
  <1>2. CASE Raises("too-long")
    BY <1>2, RaisesKeeps
  <1> QED
    BY <1>1, <1>2 DEF InsertCell

\* array-insert! at the front begins, with an array or with itself.
LEMMA InsertFrontKeeps ==
    ASSUME ArrayInv, (\E ins \in Inserted : InsertFront(ins)) \/ InsertFrontSelf
    PROVE  ArrayInv'
  <1>1. ary.length \in Nat
    BY ArrayHolds
  <1> QED
    BY <1>1, ValuesAre, LoopsHold DEF InsertFront, InsertFrontSelf, ArrayInv

\* A turn of array-insert! at the front reads an element of the inserted array, or of the array itself.
LEMMA InsertStepKeeps ==
    ASSUME ArrayInv, InsertStep
    PROVE  ArrayInv'
  <1>1. CASE TooLong(ary, UnshiftNeed(ary)) /\ loop' = NoLoop /\ UNCHANGED ary
    BY <1>1, LoopsHold DEF ArrayInv
  <1>2. CASE /\ ~TooLong(ary, UnshiftNeed(ary))
             /\ ary' = fth_array_unshift(ary, IF loop.op = "insert" THEN loop.vals[loop.i]
                                              ELSE Rd(ary.buf, ary.top + loop.i - 1))
             /\ loop' = [loop EXCEPT !.i = @ - 1]
    <2>1. PICK v : v = IF loop.op = "insert" THEN loop.vals[loop.i] ELSE Rd(ary.buf, ary.top + loop.i - 1)
      OBVIOUS
    <2>2. loop \in Loops /\ loop.i > 0
      BY DEF ArrayInv, InsertStep
    <2>3. loop.i \in Nat /\ loop.vals \in Seq(Cell) /\ (loop.op = "insert" => loop.i <= Len(loop.vals))
      BY <2>2 DEF Loops
    <2>4. loop.op = "insert" => loop.vals[loop.i] \in Cell
      BY <2>2, <2>3
    <2>5. Rd(ary.buf, ary.top + loop.i - 1) \in Cell
      <3>1. PICK n, b, j : n = ary.buf_length /\ b = ary.buf /\ j = ary.top + loop.i - 1
        OBVIOUS
      <3>2. n \in Nat /\ b \in [0..(n - 1) -> Cell] /\ j \in Int
        BY <2>3, <3>1, ArrayHolds
      <3> QED
        BY <3>1, <3>2, Reading
    <2>6. v \in Cell
      BY <2>1, <2>4, <2>5
    <2>7. ary' \in Arrays
      BY <1>2, <2>1, <2>6, ArrayHolds, UnshiftHolds DEF Holds
    <2>8. loop' \in Loops
      <3>1. PICK m : m = loop.i - 1
        OBVIOUS
      <3>2. m \in Nat /\ m <= loop.i
        BY <2>2, <2>3, <3>1
      <3>3. [loop EXCEPT !.i = m] \in [op : {"none", "insert", "insert-self", "reject", "callback"}, i : Nat, vals : Seq(Cell)]
        BY <2>2, <3>2 DEF Loops
      <3>4. [loop EXCEPT !.i = m].i = m /\ [loop EXCEPT !.i = m].op = loop.op /\ [loop EXCEPT !.i = m].vals = loop.vals
        BY <2>2 DEF Loops
      <3>5. Len(loop.vals) \in Nat
        BY <2>3
      <3> QED
        BY <1>2, <2>3, <3>1, <3>2, <3>3, <3>4, <3>5 DEF Loops
    <2> QED
      BY <2>7, <2>8 DEF ArrayInv
  <1> QED
    BY <1>1, <1>2 DEF InsertStep

\* The loop of array-reject! but for its deletion, and the end of array-insert!.
LEMMA LoopKeeps ==
    ASSUME ArrayInv, InsertDone \/ RejectStart \/ RejectCall \/ RejectKeep \/ RejectDone
    PROVE  ArrayInv'
  <1>1. ary' = ary
    BY DEF InsertDone, RejectStart, RejectCall, RejectKeep, RejectDone
  <1>2. loop.i \in Nat /\ loop.i + 1 \in Nat
    BY DEF ArrayInv, Loops
  <1>3. [loop EXCEPT !.op = "callback"] \in Loops
    <2>1. loop \in [op : {"none", "insert", "insert-self", "reject", "callback"}, i : Nat, vals : Seq(Cell)]
      BY DEF ArrayInv, Loops
    <2>2. [loop EXCEPT !.op = "callback"] \in [op : {"none", "insert", "insert-self", "reject", "callback"}, i : Nat, vals : Seq(Cell)]
      BY <2>1
    <2>3. [loop EXCEPT !.op = "callback"].op # "insert"
      BY <2>1
    <2> QED
      BY <2>2, <2>3 DEF Loops
  <1>4. Loop("reject", 0, <<>>) \in Loops /\ Loop("reject", loop.i + 1, <<>>) \in Loops
    BY <1>2, LoopsHold
  <1>5. loop' \in Loops
    BY <1>3, <1>4, LoopsHold DEF InsertDone, RejectStart, RejectCall, RejectKeep, RejectDone, ArrayInv
  <1> QED
    BY <1>1, <1>5 DEF ArrayInv

\* The deletion of array-reject!, at the place where the loop was before the callback.
LEMMA RejectDeleteKeeps ==
    ASSUME ArrayInv, RejectDelete
    PROVE  ArrayInv'
  <1>1. loop.i \in Nat
    BY DEF ArrayInv, Loops
  <1>2. Loop("reject", loop.i, <<>>) \in Loops
    BY <1>1, LoopsHold
  <1>3. loop.i < ary.length => fth_array_delete(ary, loop.i) \in Arrays
    BY <1>1, DeletedIs
  <1> QED
    BY <1>2, <1>3, LoopsHold DEF RejectDelete, ArrayInv


\* Words that rewrite the array, when what they leave is an array.
LEMMA RewriteKeeps ==
    ASSUME ArrayInv, NEW a, ~MakeTooLong(ary.length) => a \in Arrays, Rewrite(a)
    PROVE  ArrayInv'
  <1>1. CASE ~MakeTooLong(ary.length) /\ ary' = a /\ UNCHANGED loop
    BY <1>1 DEF ArrayInv
  <1>2. CASE Raises("too-long")
    BY <1>2, RaisesKeeps
  <1> QED
    BY <1>1, <1>2 DEF Rewrite

\* No more elements than before, in place.
LEMMA OverwrittenIs ==
    ASSUME ArrayInv, NEW w \in Seq(Cell), Len(w) <= ary.length
    PROVE  Overwrite(ary, w) \in Arrays
  BY OverwriteHolds DEF ArrayInv, Holds

\* array-reverse!, array-compact!, array-uniq! and array-copy.
LEMMA RewritesKeep ==
    ASSUME ArrayInv, Reverse \/ Compact \/ Uniq \/ Copy
    PROVE  ArrayInv'
  <1>1. PICK s, l : s = Contents(ary) /\ l = ary.length
    OBVIOUS
  <1>2. s \in Seq(Cell) /\ Len(s) = l /\ l \in Nat
    BY <1>1, ArrayHolds
  <1>3. CASE Reverse
    <2>1. PICK w : w = [i \in 1..l |-> s[l + 1 - i]]
      OBVIOUS
    <2>2. w \in Seq(Cell) /\ Len(w) = l
      BY <1>2, <2>1
    <2>3. Overwrite(ary, w) \in Arrays
      BY <1>1, <1>2, <2>2, OverwrittenIs
    <2>4. Rewrite(Overwrite(ary, w))
      BY <1>1, <1>3, <2>1 DEF Reverse
    <2> QED
      BY <2>3, <2>4, RewriteKeeps
  <1>4. CASE Compact
    <2>1. PICK w : w = WithoutNil(s)
      OBVIOUS
    <2>2. w \in Seq(Cell) /\ Len(w) <= l
      BY <1>2, <2>1, NotNilKept DEF WithoutNil
    <2>3. Overwrite(ary, w) \in Arrays
      BY <1>1, <1>2, <2>2, OverwrittenIs
    <2>4. Rewrite(Overwrite(ary, w))
      BY <1>1, <1>4, <2>1 DEF Compact, WithoutNil
    <2> QED
      BY <2>3, <2>4, RewriteKeeps
  <1>5. CASE Uniq
    <2>1. PICK w : w = OnceEach(s)
      OBVIOUS
    <2>2. w \in Seq(Cell) /\ Len(w) <= l
      BY <1>2, <2>1, NotMemberKept DEF OnceEach
    <2>3. Overwrite(ary, w) \in Arrays
      BY <1>1, <1>2, <2>2, OverwrittenIs
    <2>4. Rewrite(Overwrite(ary, w))
      BY <1>1, <1>5, <2>1 DEF Uniq, OnceEach
    <2> QED
      BY <2>3, <2>4, RewriteKeeps
  <1>6. CASE Copy
    <2>1. ~MakeTooLong(l) => make_array(s) \in Arrays
      BY <1>2, MakeHolds DEF Holds
    <2>2. Rewrite(make_array(s))
      BY <1>1, <1>6 DEF Copy
    <2> QED
      BY <1>1, <2>1, <2>2, RewriteKeeps
  <1> QED
    BY <1>3, <1>4, <1>5, <1>6

\* array-fill, array-clear.
LEMMA FillKeeps ==
    ASSUME ArrayInv, NEW v \in Cell, Fill(v)
    PROVE  ArrayInv'
  <1>1. PICK w, l : l = ary.length /\ w = [i \in 1..l |-> v]
    OBVIOUS
  <1>2. l \in Nat
    BY <1>1, ArrayHolds
  <1>3. w \in Seq(Cell) /\ Len(w) = l
    BY <1>1, <1>2
  <1>4. Overwrite(ary, w) \in Arrays
    BY <1>1, <1>2, <1>3, OverwrittenIs
  <1> QED
    BY <1>1, <1>4 DEF Fill, ArrayInv

\* A sub-array that is built in its block.
LEMMA SubarrayIs ==
    ASSUME ArrayInv, NEW start \in Int, 0 <= start, start < ary.length, NEW end \in Int,
           ~MakeTooLong(SubarrayEnd(ary, start, end) - start), InBlock(fth_array_subarray(ary, start, end))
    PROVE  fth_array_subarray(ary, start, end) \in Arrays
  <1>1. PICK s, e : s = Contents(ary) /\ e = SubarrayEnd(ary, start, end)
    OBVIOUS
  <1>2. Holds(ary, s) /\ start \in 0..(Len(s) - 1)
    BY <1>1, ArrayHolds
  <1> QED
    BY <1>1, <1>2, SubarrayHolds DEF Holds

\* One that is not: it is shorter than its array by two elements and more.
LEMMA CutIs ==
    ASSUME ArrayInv, NEW start \in Int, 0 <= start, start < ary.length, NEW end \in Int,
           ~MakeTooLong(SubarrayEnd(ary, start, end) - start), ~InBlock(fth_array_subarray(ary, start, end))
    PROVE  fth_array_subarray(ary, start, end).length + 2 <= ary.length
  <1>1. PICK a, s, e, l : a = ary /\ s = Contents(ary) /\ e = SubarrayEnd(ary, start, end) /\ l = ary.length
    OBVIOUS
  <1>2. Holds(a, s) /\ start \in 0..(Len(s) - 1) /\ l = Len(s) /\ l \in Nat \ {0}
    BY <1>1, ArrayHolds
  <1>3. PICK k, x : k = e - start /\ x = fth_array_subarray(a, start, end)
    OBVIOUS
  <1>4. e \in start..l
    BY <1>1, <1>2, PartIs
  <1>5. PICK m, p, c, d : IsPart(a, start, k, m, p, c, d, x)
    BY <1>1, <1>2, <1>3, PartIs
  <1>6. ~InBlock(x)
    BY <1>1, <1>3
  <1>7. ~(p + l <= m)
    BY <1>1, <1>2, <1>5, <1>6, PartInBlock
  <1>8. k \in Nat /\ m \in Nat /\ p \in Nat /\ p + k < m
    BY <1>2, <1>3, <1>4, <1>5 DEF IsPart, Room
  <1>9. x.length = k
    BY <1>5 DEF IsPart, ARR
  <1>10. k + 2 <= l
    BY <1>2, <1>7, <1>8
  <1> QED
    BY <1>1, <1>3, <1>9, <1>10

\* The step after which nothing is known: the sub-array has been written beyond its block.
CutsPart ==
    /\ Overrun' /\ ~InBlock(ary') /\ loop' = loop /\ loop.op = "none"
    /\ ary'.length + 2 <= ary.length

\* A sub-array replaces the array, or is written beyond its block.
LEMMA PartKeeps ==
    ASSUME ArrayInv, NEW start \in Int, 0 <= start, start < ary.length, NEW end \in Int, Idle, Part(start, end)
    PROVE  ArrayInv' \/ CutsPart
  <1>1. PICK part, long : part = fth_array_subarray(ary, start, end)
                          /\ long = MakeTooLong(SubarrayEnd(ary, start, end) - start)
    OBVIOUS
  <1>2. IF long THEN Raises("too-long")
        ELSE ary' = part /\ Returns(IF InBlock(part) THEN "ok" ELSE "overrun", None) /\ UNCHANGED loop
    BY <1>1 DEF Part
  <1>3. CASE long
    BY <1>2, <1>3, RaisesKeeps
  <1>4. CASE ~long /\ InBlock(part)
    <2>1. part \in Arrays
      BY <1>1, <1>4, SubarrayIs
    <2> QED
      BY <1>2, <1>4, <2>1 DEF ArrayInv
  <1>5. CASE ~long /\ ~InBlock(part)
    <2>1. part.length + 2 <= ary.length
      BY <1>1, <1>5, CutIs
    <2>2. ary' = part /\ result' = <<"overrun", None>> /\ loop' = loop
      BY <1>2, <1>5 DEF Returns
    <2>3. Overrun'
      BY <2>2 DEF Overrun
    <2>4. ~InBlock(ary')
      BY <1>5, <2>2
    <2> QED
      BY <2>1, <2>2, <2>3, <2>4 DEF CutsPart, Idle
  <1> QED
    BY <1>3, <1>4, <1>5

\* array-subarray.
LEMMA SubarrayKeeps ==
    ASSUME ArrayInv, NEW start \in Int, NEW end \in Int, Subarray(start, end)
    PROVE  ArrayInv' \/ CutsPart
  <1>1. CASE InRange(start) /\ Part(Norm(start), end)
    <2>1. Norm(start) \in Int /\ 0 <= Norm(start) /\ Norm(start) < ary.length
      BY <1>1, PlaceOf DEF InRange
    <2>2. Idle
      BY DEF Subarray
    <2> QED
      BY <1>1, <2>1, <2>2, PartKeeps
  <1>2. CASE Raises("out-of-range")
    BY <1>2, RaisesKeeps
  <1> QED
    BY <1>1, <1>2 DEF Subarray

\* array-ref, array-index.
LEMMA LooksKeep ==
    ASSUME ArrayInv, (\E idx \in Index : Ref(idx)) \/ (\E v \in Val : Find(v))
    PROVE  ArrayInv'
  <1>1. CASE \E idx \in Index : Ref(idx)
    <2>1. CASE UNCHANGED <<ary, loop>>
      BY <2>1 DEF ArrayInv
    <2>2. CASE Raises("out-of-range")
      BY <2>2, RaisesKeeps
    <2> QED
      BY <1>1, <2>1, <2>2 DEF Ref
  <1>2. CASE \E v \in Val : Find(v)
    BY <1>2 DEF Find, ArrayInv
  <1> QED
    BY <1>1, <1>2

\* Each word on arrays keeps the invariant, or makes a sub-array beyond its block.
LEMMA NextKeeps ==
    ASSUME ArrayInv, Next
    PROVE  ArrayInv' \/ CutsPart
  <1>1. \A idx \in Index : idx \in Int
    BY InputAssumption
  <1>2. CASE \E n \in -1..MaxLen, v \in Val : Make(n, v)
    BY <1>2, MakeKeeps
  <1>3. CASE (\E idx \in Index : Ref(idx)) \/ (\E v \in Val : Find(v))
    BY <1>3, LooksKeep
  <1>4. CASE \E idx \in Index, v \in Val : Set(idx, v)
    BY <1>1, <1>4, SetKeeps
  <1>5. CASE \E idx \in Index : Delete(idx)
    BY <1>1, <1>5, DeleteKeeps
  <1>6. CASE \E v \in Val : Push(v)
    BY <1>6, PushKeeps
  <1>7. CASE \E v \in Val : Unshift(v)
    BY <1>7, UnshiftKeeps
  <1>8. CASE Pop \/ Shift
    BY <1>8, EndsKeep
  <1>9. CASE \E v \in Val : DeleteKey(v)
    BY <1>9, DeleteKeyKeeps
  <1>10. CASE (\E v \in Val : Fill(v)) \/ Clear
    BY <1>10, FillKeeps, ValuesAre DEF Clear
  <1>11. CASE \E idx \in Index, ins \in Inserted \cup {Contents(ary)} : InsertAt(idx, ins)
    BY <1>1, <1>11, InsertAtKeeps
  <1>12. CASE \E i \in 0..MaxLen, v \in Val : InsertCell(i, v)
    BY <1>12, InsertCellKeeps
  <1>13. CASE \E start, end \in Index : Subarray(start, end)
    BY <1>1, <1>13, SubarrayKeeps
  <1>14. CASE (\E ins \in Inserted : InsertFront(ins)) \/ InsertFrontSelf
    BY <1>14, InsertFrontKeeps
  <1>15. CASE InsertStep
    BY <1>15, InsertStepKeeps
  <1>16. CASE InsertDone \/ RejectStart \/ RejectCall \/ RejectKeep \/ RejectDone
    BY <1>16, LoopKeeps
  <1>17. CASE RejectDelete
    BY <1>17, RejectDeleteKeeps
  <1>18. CASE Reverse \/ Compact \/ Uniq \/ Copy
    BY <1>18, RewritesKeep
  <1>19. CASE Lost
    BY <1>19 DEF Lost, vars, ArrayInv
  <1> QED
    BY <1>2, <1>3, <1>4, <1>5, <1>6, <1>7, <1>8, <1>9, <1>10, <1>11, <1>12, <1>13, <1>14, <1>15,
       <1>16, <1>17, <1>18, <1>19 DEF Next


-----------------------------------------------------------------------------
(* The words on lists. *)

\* A list word that leaves a list,
LEMMA GivesKeeps ==
    ASSUME ArrayInv, NEW a \in Arrays, Gives(a)
    PROVE  ArrayInv'
  BY DEF ArrayInv, Gives

\* that answers,
LEMMA AnswersKeeps ==
    ASSUME ArrayInv, NEW v, Answers(v)
    PROVE  ArrayInv'
  BY DEF ArrayInv, Answers

\* that makes a list or raises,
LEMMA NewKeeps ==
    ASSUME ArrayInv, NEW r, r.ok => r.a \in Arrays, New(r)
    PROVE  ArrayInv'
  BY GivesKeeps, RaisesKeeps DEF New

\* and one whose loop has left an array in any case.
LEMMA NewListKeeps ==
    ASSUME ArrayInv, NEW r \in Lists, New(r)
    PROVE  ArrayInv'
  <1>1. r.a \in Arrays
    BY DEF Lists
  <1> QED
    BY <1>1, NewKeeps

\* A list word that raises when its work is done in part.
LEMMA RaisesWithKeeps ==
    ASSUME ArrayInv, NEW kind, NEW a \in Arrays, RaisesWith(kind, a)
    PROVE  ArrayInv'
  BY LoopsHold DEF ArrayInv, RaisesWith

\* The element at a place is a cell.
LEMMA AtIs ==
    ASSUME ArrayInv, NEW k \in Int
    PROVE  At(k) \in Cell
  <1>1. PICK n, b, t : n = ary.buf_length /\ b = ary.buf /\ t = ary.top + k
    OBVIOUS
  <1>2. n \in Nat /\ b \in [0..(n - 1) -> Cell] /\ t \in Int
    BY <1>1, ArrayHolds
  <1> QED
    BY <1>1, <1>2, Reading DEF At

\* What is known of a list made from a sequence.
LEMMA ListIs ==
    ASSUME NEW s \in Seq(Cell)
    PROVE  /\ List(s).ok \in BOOLEAN /\ List(s).a = make_array(s)
           /\ List(s).ok => List(s).a \in Arrays /\ Holds(List(s).a, s)
  BY MakeHolds DEF List, Made, Holds

\* car and its kin.
LEMMA CarKeeps ==
    ASSUME ArrayInv, NEW k, Car(k)
    PROVE  ArrayInv'
  BY AnswersKeeps DEF Car

\* cdr and cddr.
LEMMA CdrKeeps ==
    ASSUME ArrayInv, NEW k \in 1..2, Cdr(k)
    PROVE  ArrayInv' \/ CutsPart
  <1>1. CASE ~(ary.length > k)
    BY <1>1, AnswersKeeps DEF Cdr
  <1>2. CASE ary.length > k
    <2>1. k \in Int /\ 0 <= k /\ -1 \in Int /\ k < ary.length
      BY <1>2, ArrayHolds
    <2>2. Idle /\ Part(k, -1)
      BY <1>2 DEF Cdr
    <2> QED
      BY <2>1, <2>2, PartKeeps
  <1> QED
    BY <1>1, <1>2

\* cons2.
LEMMA Cons2Keeps ==
    ASSUME ArrayInv, NEW v \in Val, NEW w \in Val, Cons2(v, w)
    PROVE  ArrayInv'
  <1>1. PICK s, u : s = <<w>> /\ u = <<v>>
    OBVIOUS
  <1>2. s \in Seq(Cell) /\ u \in Seq(Cell)
    BY <1>1, ValuesAre
  <1>3. PICK one, two : one = Unshifts(Made(ary, TRUE), s) /\ two = Unshifts(one, u)
    OBVIOUS
  <1>4. Made(ary, TRUE) \in Lists
    BY MadeIs DEF ArrayInv
  <1>5. one \in Lists
    BY <1>2, <1>3, <1>4, UnshiftsAre
  <1>6. two \in Lists
    BY <1>2, <1>3, <1>5, UnshiftsAre
  <1>7. two.a \in Arrays
    BY <1>6 DEF Lists
  <1>8. Gives(two.a) \/ RaisesWith("too-long", two.a)
    BY <1>1, <1>3 DEF Cons2
  <1> QED
    BY <1>7, <1>8, GivesKeeps, RaisesWithKeeps

\* set-car!.
LEMMA SetCarKeeps ==
    ASSUME ArrayInv, NEW v \in Val, SetCar(v)
    PROVE  ArrayInv'
  <1>1. CASE ary.length > 0 /\ Gives([ary EXCEPT !.buf = Store(@, ary.top, <<v>>)])
    <2>1. PICK s, k : s = Contents(ary) /\ k = 0
      OBVIOUS
    <2>2. Holds(ary, s) /\ k \in 0..(Len(s) - 1) /\ v \in Cell
      BY <1>1, <2>1, ArrayHolds, ValuesAre
    <2>3. [ary EXCEPT !.buf = Store(@, ary.top + k, <<v>>)] \in Arrays
      BY <2>2, SetHolds DEF Holds
    <2>4. ary.top + k = ary.top
      BY <2>1, ArrayHolds
    <2>5. [ary EXCEPT !.buf = Store(@, ary.top, <<v>>)] \in Arrays
      BY <2>3, <2>4
    <2> QED
      BY <1>1, <2>5, GivesKeeps
  <1>2. CASE Answers(Nil)
    BY <1>2, AnswersKeeps
  <1> QED
    BY <1>1, <1>2 DEF SetCar

\* set-cdr! on two and more: the second element is set and the others go.
LEMMA TwoLeftIs ==
    ASSUME ArrayInv, NEW v \in Cell, ary.length > 1
    PROVE  TwoLeft(v) \in Arrays
  <1>1. PICK l, n, t, b : l = ary.length /\ n = ary.buf_length /\ t = ary.top /\ b = ary.buf
    OBVIOUS
  <1>2. /\ ary \in Arrays /\ l \in Nat /\ n \in Nat /\ t \in Nat /\ b \in [0..(n - 1) -> Cell]
        /\ t + l <= n /\ n <= MAX_SEQ_LENGTH /\ 2 * t <= MAX_SEQ_LENGTH + 1
    BY <1>1, ArrayIs DEF ArrayInv
  <1>3. PICK c : c = Store(b, t + 1, <<v>>)
    OBVIOUS
  <1>4. c \in [0..(n - 1) -> Cell]
    <2>1. t + 1 \in Nat /\ t + 1 < n
      BY <1>1, <1>2
    <2> QED
      BY <1>2, <1>3, <2>1, StoredOne DEF IsSet
  <1>5. [ary EXCEPT !.buf = c, !.length = 2] = ARR(2, n, t, c)
    BY <1>1, <1>2, EditedData
  <1>6. ARR(2, n, t, c) \in Arrays
    <2>1. t + 2 <= n /\ 2 \in Nat
      BY <1>1, <1>2
    <2> QED
      BY <1>2, <1>4, <2>1, IsArray
  <1>7. Holds(ARR(2, n, t, c), Contents(ARR(2, n, t, c)))
    BY <1>6, HoldsContents
  <1>8. Settle(ARR(2, n, t, c)) \in Arrays
    BY <1>7, SettleHolds DEF Holds
  <1> QED
    BY <1>1, <1>3, <1>5, <1>8 DEF TwoLeft

\* set-cdr!.
LEMMA SetCdrKeeps ==
    ASSUME ArrayInv, NEW v \in Val, SetCdr(v)
    PROVE  ArrayInv'
  <1>1. CASE Raises("out-of-range") \/ Raises("too-long")
    BY <1>1, RaisesKeeps
  <1>2. CASE ary.length = 1 /\ ~TooLong(ary, PushNeed(ary)) /\ Gives(fth_array_push(ary, v))
    <2>1. Holds(ary, Contents(ary)) /\ v \in Cell
      BY ArrayHolds, ValuesAre
    <2>2. fth_array_push(ary, v) \in Arrays
      BY <1>2, <2>1, PushHolds DEF Holds
    <2> QED
      BY <1>2, <2>2, GivesKeeps
  <1>3. CASE ary.length # 0 /\ ary.length # 1 /\ Gives(TwoLeft(v))
    <2>1. ary.length > 1 /\ v \in Cell
      BY <1>3, ArrayHolds, ValuesAre
    <2> QED
      BY <1>3, <2>1, TwoLeftIs, GivesKeeps
  <1>4. CASE New(Pushes(WithoutNil(<<At(0), v>>)))
    <2>1. At(0) \in Cell /\ v \in Cell
      BY AtIs, ValuesAre
    <2>2. PICK p, w : p = <<At(0), v>> /\ w = WithoutNil(p)
      OBVIOUS
    <2>3. p \in Seq(Cell)
      BY <2>1, <2>2
    <2>4. Pushes(w) \in Lists
      BY <2>2, <2>3, NotNilKept, PushesAre
    <2> QED
      BY <1>4, <2>2, <2>4, NewListKeeps
  <1> QED
    BY <1>1, <1>2, <1>3, <1>4 DEF SetCdr, WithoutNil


\* list-append and list-reverse make a list of a sequence.
LEMMA NewFromKeeps ==
    ASSUME ArrayInv, NEW s \in Seq(Cell), New(List(s))
    PROVE  ArrayInv'
  BY ListIs, NewKeeps

\* list-append.
LEMMA ListAppendKeeps ==
    ASSUME ArrayInv, NEW ins \in Inserted, ListAppend(ins)
    PROVE  ArrayInv'
  <1>1. Contents(ary) \o ins \in Seq(Cell)
    BY ArrayHolds, ValuesAre
  <1> QED
    BY <1>1, NewFromKeeps DEF ListAppend, fth_array_append

\* list-reverse.
LEMMA ListReverseKeeps ==
    ASSUME ArrayInv, ListReverse
    PROVE  ArrayInv'
  <1>1. PICK s, w : s = Contents(ary) /\ w = S!Reverse(s)
    OBVIOUS
  <1>2. s \in Seq(Cell)
    BY <1>1, ArrayHolds
  <1>3. w \in Seq(Cell)
    BY <1>1, <1>2 DEF S!Reverse
  <1> QED
    BY <1>1, <1>3, NewFromKeeps DEF ListReverse

\* list-insert, into a copy.
LEMMA ListInsertKeeps ==
    ASSUME ArrayInv, NEW idx \in Int, NEW ins \in Inserted, ListInsert(idx, ins)
    PROVE  ArrayInv'
  <1>1. PICK s, copy : s = Contents(ary) /\ copy = List(s)
    OBVIOUS
  <1>2. s \in Seq(Cell) /\ Len(s) = ary.length /\ ins \in Seq(Cell)
    BY <1>1, ArrayHolds, ValuesAre
  <1>3. CASE Raises("too-long") \/ Raises("out-of-range")
    BY <1>3, RaisesKeeps
  <1>4. CASE copy.ok /\ New(Unshifts(copy, ins))
    <2>1. copy \in Lists
      BY <1>1, <1>2, <1>4, ListIs, MadeIs DEF List
    <2>2. Unshifts(copy, ins) \in Lists
      BY <1>2, <2>1, UnshiftsAre
    <2> QED
      BY <1>4, <2>2, NewListKeeps
  <1>5. CASE /\ copy.ok /\ InRange(idx) /\ ~TooLong(copy.a, InsertNeed(copy.a, Len(ins)))
             /\ New(Made(fth_array_insert(copy.a, Norm(idx), ins), TRUE))
    <2>1. Holds(copy.a, s)
      BY <1>1, <1>2, <1>5, ListIs
    <2>2. Norm(idx) \in 0..Len(s)
      BY <1>1, <1>2, <1>5, PlaceOf
    <2>3. fth_array_insert(copy.a, Norm(idx), ins) \in Arrays
      BY <1>2, <1>5, <2>1, <2>2, InsertHolds DEF Holds
    <2>4. Made(fth_array_insert(copy.a, Norm(idx), ins), TRUE) \in Lists
      BY <2>3, MadeIs
    <2> QED
      BY <1>5, <2>4, NewListKeeps
  <1> QED
    BY <1>1, <1>3, <1>4, <1>5 DEF ListInsert

\* list-delete.
LEMMA ListDeleteKeeps ==
    ASSUME ArrayInv, NEW v, ListDelete(v)
    PROVE  ArrayInv'
  <1>1. PICK s, w : s = Contents(ary) /\ w = Others(s, v)
    OBVIOUS
  <1>2. s \in Seq(Cell)
    BY <1>1, ArrayHolds
  <1>3. w \in Seq(Cell)
    BY <1>1, <1>2, OthersKept
  <1>4. New(Pushes(w))
    BY <1>1 DEF ListDelete, Others
  <1> QED
    BY <1>3, <1>4, PushesAre, NewListKeeps

\* list-delete!.
LEMMA ListDeleteBangKeeps ==
    ASSUME ArrayInv, NEW v, ListDeleteBang(v)
    PROVE  ArrayInv'
  <1>1. PICK eq \in BOOLEAN : LET r == DeleteLoop(v, eq)
                             IN  IF r.ok THEN Gives(Settle(r.a))
                                 ELSE RaisesWith(IF r.a.length = 0 THEN "wrong-type-arg" ELSE "out-of-range",
                                                 Settle(r.a))
    BY DEF ListDeleteBang
  <1>2. PICK r, a, kind : /\ r = DeleteLoop(v, eq) /\ a = r.a
                          /\ kind = IF r.a.length = 0 THEN "wrong-type-arg" ELSE "out-of-range"
    OBVIOUS
  <1>3. a \in Arrays
    BY <1>2, DeleteLoopIs DEF ArrayInv, Deleting
  <1>4. Holds(a, Contents(a))
    BY <1>3, HoldsContents
  <1>5. Settle(a) \in Arrays
    BY <1>4, SettleHolds DEF Holds
  <1>6. Gives(Settle(a)) \/ RaisesWith(kind, Settle(a))
    BY <1>1, <1>2
  <1> QED
    BY <1>5, <1>6, GivesKeeps, RaisesWithKeeps

\* list-slice and list-slice!.
LEMMA SlicesKeep ==
    ASSUME ArrayInv, NEW idx, NEW cnt, ListSlice(idx, cnt) \/ ListSliceBang(idx, cnt)
    PROVE  ArrayInv'
  <1>1. PICK w : w = Outside(idx, cnt)
    OBVIOUS
  <1>2. w \in Seq(Cell) /\ Len(w) <= ary.length
    BY <1>1, OutsideIs DEF ArrayInv
  <1>3. Pushes(w) \in Lists /\ Overwrite(ary, w) \in Arrays
    BY <1>2, PushesAre, OverwrittenIs
  <1>4. New(Pushes(w)) \/ Gives(Overwrite(ary, w)) \/ Raises("out-of-range")
    BY <1>1 DEF ListSlice, ListSliceBang
  <1> QED
    BY <1>3, <1>4, NewListKeeps, GivesKeeps, RaisesKeeps

\* list-head.
LEMMA HeadKeeps ==
    ASSUME ArrayInv, NEW n \in Int, ListHead(n)
    PROVE  ArrayInv' \/ CutsPart
  <1>1. CASE Raises("out-of-range")
    BY <1>1, RaisesKeeps
  <1>2. CASE InRange(0) /\ Idle /\ Part(0, n)
    <2>1. 0 \in Int /\ 0 <= 0 /\ 0 < ary.length
      BY <1>2, PlaceOf, ArrayHolds DEF InRange, Norm
    <2> QED
      BY <1>2, <2>1, PartKeeps
  <1> QED
    BY <1>1, <1>2 DEF ListHead

\* list-tail.
LEMMA TailKeeps ==
    ASSUME ArrayInv, NEW n \in Int, ListTail(n)
    PROVE  ArrayInv'
  <1>1. CASE n >= 0 /\ ary.length >= n /\ New(List(From(n)))
    <2>1. PICK s, l : s = Contents(ary) /\ l = ary.length
      OBVIOUS
    <2>2. s \in Seq(Cell) /\ Len(s) = l /\ l \in Nat
      BY <2>1, ArrayHolds
    <2>3. SubSeq(s, n + 1, l) \in Seq(Cell)
      BY <1>1, <2>1, <2>2
    <2>4. From(n) \in Seq(Cell)
      BY <2>1, <2>3 DEF From
    <2> QED
      BY <1>1, <2>4, NewFromKeeps
  <1>2. CASE Gives(ary)
    BY <1>2, GivesKeeps DEF ArrayInv
  <1> QED
    BY <1>1, <1>2 DEF ListTail

\* last-pair.
LEMMA LastPairKeeps ==
    ASSUME ArrayInv, LastPair
    PROVE  ArrayInv'
  <1>1. ary.length - 1 \in Int
    BY ArrayHolds
  <1>2. <<At(ary.length - 1)>> \in Seq(Cell)
    BY <1>1, AtIs
  <1> QED
    BY <1>2, NewFromKeeps, AnswersKeeps DEF LastPair

\* Each word on lists does likewise.
LEMMA ListNextKeeps ==
    ASSUME ArrayInv, ListNext
    PROVE  ArrayInv' \/ CutsPart
  <1>1. \A idx \in Index : idx \in Int
    BY InputAssumption
  <1>2. CASE \E k \in 0..3 : Car(k)
    BY <1>2, CarKeeps
  <1>3. CASE \E k \in 1..2 : Cdr(k)
    BY <1>3, CdrKeeps
  <1>4. CASE \E v, w \in Val : Cons2(v, w)
    BY <1>4, Cons2Keeps
  <1>5. CASE \E v \in Val : SetCar(v) \/ SetCdr(v) \/ ListDelete(v) \/ ListDeleteBang(v)
    BY <1>5, SetCarKeeps, SetCdrKeeps, ListDeleteKeeps, ListDeleteBangKeeps
  <1>6. CASE \E ins \in Inserted : ListAppend(ins) \/ \E idx \in Index : ListInsert(idx, ins)
    BY <1>1, <1>6, ListAppendKeeps, ListInsertKeeps
  <1>7. CASE \E idx \in Index, cnt \in 1..2 : ListSlice(idx, cnt) \/ ListSliceBang(idx, cnt)
    BY <1>7, SlicesKeep
  <1>8. CASE \E n \in Index : ListHead(n) \/ ListTail(n)
    BY <1>1, <1>8, HeadKeeps, TailKeeps
  <1>9. CASE ListReverse
    BY <1>9, ListReverseKeeps
  <1>10. CASE LastPair
    BY <1>10, LastPairKeeps
  <1> QED
    BY <1>2, <1>3, <1>4, <1>5, <1>6, <1>7, <1>8, <1>9, <1>10 DEF ListNext

-----------------------------------------------------------------------------
(* The theorems. *)

\* An array as the words rely on it, or the end of what is known.
ArraySafe == ArrayInv \/ (Overrun /\ loop.op = "none")

\* No word runs after a write beyond the block.
LEMMA NothingRuns ==
    ASSUME Overrun, loop.op = "none", Next \/ ListNext
    PROVE  UNCHANGED vars
  <1>1. ~Ready /\ ~Idle
    BY DEF Ready, Idle
  <1>2. ASSUME NEW a PROVE ~Rewrite(a)
    BY <1>1 DEF Rewrite
  <1>3. ASSUME NEW r PROVE ~New(r)
    BY <1>1 DEF New
  <1>4. CASE Next
    BY <1>1, <1>2, <1>4 DEF Next, Make, Ref, Set, Delete, Push, Unshift, Pop, Shift, DeleteKey, Find, Fill,
       InsertAt, InsertCell, Subarray, InsertFront, InsertFrontSelf, InsertStep, InsertDone, RejectStart,
       RejectCall, RejectKeep, RejectDelete, RejectDone, Reverse, Compact, Uniq, Copy, Clear, Lost
  <1>5. ~ListNext
    <2>1. ASSUME NEW k PROVE ~Car(k) /\ ~Cdr(k)
      BY <1>1 DEF Car, Cdr
    <2>2. ASSUME NEW v PROVE ~SetCar(v) /\ ~SetCdr(v) /\ ~ListDelete(v) /\ ~ListDeleteBang(v)
      BY <1>1, <1>3 DEF SetCar, SetCdr, ListDelete, ListDeleteBang
    <2>3. ASSUME NEW v, NEW w PROVE ~Cons2(v, w) /\ ~ListSlice(v, w) /\ ~ListSliceBang(v, w)
      BY <1>1, <1>3 DEF Cons2, ListSlice, ListSliceBang
    <2>4. ASSUME NEW ins PROVE ~ListAppend(ins)
      BY <1>3 DEF ListAppend
    <2>5. ASSUME NEW idx, NEW ins PROVE ~ListInsert(idx, ins)
      BY <1>1, <1>3 DEF ListInsert
    <2>6. ASSUME NEW n PROVE ~ListHead(n) /\ ~ListTail(n)
      BY <1>1, <1>3 DEF ListHead, ListTail
    <2>7. ~ListReverse /\ ~LastPair
      BY <1>1, <1>3 DEF ListReverse, LastPair
    <2> QED
      BY <2>1, <2>2, <2>3, <2>4, <2>5, <2>6, <2>7 DEF ListNext
  <1> QED
    BY <1>4, <1>5

\* The invariant and what a step may do to it.
LEMMA SafeStep ==
    ASSUME ArraySafe, [Next \/ ListNext]_vars
    PROVE  ArraySafe' /\ (ArrayInv => ArrayInv' \/ CutsPart)
  <1>1. CASE ArrayInv
    <2>1. ArrayInv' \/ CutsPart
      <3>1. CASE UNCHANGED vars
        BY <1>1, <3>1 DEF vars, ArrayInv
      <3> QED
        BY <1>1, <3>1, NextKeeps, ListNextKeeps
    <2>2. CutsPart => Overrun' /\ loop'.op = "none"
      BY DEF CutsPart
    <2> QED
      BY <2>1, <2>2 DEF ArraySafe
  <1>2. CASE ~ArrayInv
    <2>1. Overrun /\ loop.op = "none"
      BY <1>2 DEF ArraySafe
    <2>2. UNCHANGED vars
      BY <2>1, NothingRuns
    <2> QED
      BY <1>2, <2>1, <2>2 DEF ArraySafe, vars, Overrun
  <1> QED
    BY <1>1, <1>2

(* What the words rely on: the record is that of an array whose data fit   *)
(* its buffer, with a top that array-shift and array-unshift keep at half  *)
(* of the largest buffer at most, and the loop of array-insert! reads only *)
(* elements there are (fth_array_insert).  It holds until a sub-array is   *)
(* written beyond its block (fth_array_subarray), if one ever is.          *)
THEOREM ArrayInvHolds == Spec => []ArraySafe
  <1>1. Init => ArraySafe
    <2> SUFFICES ASSUME Init PROVE ArrayInv
      BY DEF ArraySafe
    <2>1. ary \in Arrays
      BY EmptyMade DEF Init, Holds
    <2>2. loop \in Loops
      BY LoopsHold DEF Init
    <2> QED
      BY <2>1, <2>2 DEF ArrayInv
  <1>2. ArraySafe /\ [Next \/ ListNext]_vars => ArraySafe'
    BY SafeStep
  <1> QED
    BY <1>1, <1>2, PTL DEF Spec

(* Whatever words run on an array or a list, and whatever their callbacks  *)
(* do to it in the middle of array-reject!, its elements lie inside its    *)
(* buffer and the buffer within MAX_SEQ_LENGTH (array.c): for every chunk, *)
(* every largest buffer and all values, indices and inserted arrays, as    *)
(* long as no sub-array has been written beyond its block.                 *)
THEOREM DataStaysInBuffer == Spec => []DataInBuffer
  <1>1. ArraySafe => DataInBuffer
    <2> SUFFICES ASSUME ArrayInv PROVE DataInBuffer
      BY DEF ArraySafe, DataInBuffer
    <2>1. /\ ary = ARR(ary.length, ary.buf_length, ary.top, ary.buf)
          /\ ary.length \in Nat /\ ary.buf_length \in Nat /\ ary.top \in Nat
          /\ ary.buf \in [0..(ary.buf_length - 1) -> Cell]
          /\ ary.top + ary.length <= ary.buf_length /\ ary.buf_length <= MAX_SEQ_LENGTH
      BY ArrayIs DEF ArrayInv
    <2>2. DOMAIN ary = {"length", "buf_length", "top", "buf"}
      BY <2>1 DEF ARR
    <2>3. loop.op \in {"none", "insert", "insert-self", "reject", "callback"} /\ loop.i \in Nat
      BY DEF ArrayInv, Loops
    <2>4. ary.top \in Int /\ 0 <= ary.top
      BY <2>1
    <2> QED
      BY <2>1, <2>2, <2>3, <2>4 DEF DataInBuffer, TypeOK
  <1> QED
    BY <1>1, ArrayInvHolds, PTL

(* No other word writes outside of the block of its array, for any values  *)
(* of the constants: fth_array_subarray's memmove (array.c) is the only    *)
(* one, and it spares the sub-arrays that leave out one element at most.   *)
THEOREM PartsAlone == Spec => OnlyPartsOverrun
  <1> DEFINE Spares == ~Overrun => \/ InBlock(ary')
                                   \/ Overrun' /\ ary'.length + 2 <= ary.length
  <1>1. ArraySafe /\ [Next \/ ListNext]_vars => [Spares]_vars
    <2> SUFFICES ASSUME ArraySafe, [Next \/ ListNext]_vars, ~Overrun PROVE Spares
      OBVIOUS
    <2>1. ArrayInv
      BY DEF ArraySafe
    <2>2. ArrayInv' \/ CutsPart
      BY <2>1, SafeStep
    <2>3. CASE ArrayInv'
      <3>1. ary' \in Arrays
        BY <2>3 DEF ArrayInv
      <3> QED
        BY <3>1, ArrayIs, NotBeyond
    <2>4. CASE CutsPart
      BY <2>4 DEF CutsPart
    <2> QED
      BY <2>2, <2>3, <2>4
  <1> QED
    BY <1>1, ArrayInvHolds, PTL DEF Spec, OnlyPartsOverrun
=============================================================================
