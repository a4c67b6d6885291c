---------------------------- MODULE FthHookProofs ----------------------------
(***************************************************************************)
(* Proofs about procs and hooks of FthHook, for any words, variables and   *)
(* hooks, any stack and any programs.                                      *)
(***************************************************************************)
EXTENDS FthHook, WellFoundedInduction, TLAPS

-----------------------------------------------------------------------------
(* The inductive invariant. *)

Kinds == {"apply", "hook", "again", "bool", "trace"}
Frame == [kind : Kinds, hook : Hooks \cup {0}, args : Seq(Cell), i : Nat, len : Nat, got : Seq(Cell),
          depth : Int, start : Seq(Words), called : Seq(Words), edits : SUBSET {"added", "removed"},
          below : Seq(Cell), low : Int]
Stack == [cells : [0..(StackSize - 1) -> Cell], size : {StackSize}, top : Int, frame : Int]
WordType == [kind : {"word", "proc", "variable", "trace"}, arity : Arities]
HookType == [made : BOOLEAN, arity : Arities, procs : Seq(Words)]
VarType == [val : Cell, hook : Hooks \cup {0}]
SiteType == [var : Vars, traced : BOOLEAN]

Tables ==
    /\ word \in [Words \cup Vars -> WordType]
    /\ hook \in [Hooks -> HookType]
    /\ var \in [Vars -> VarType]
    /\ sites \in Seq(SiteType)
\* Words of the program are words or procs, its variables are traced or not, by a hook there is.
Traced ==
    /\ \A w \in Words : word[w].kind \in {"word", "proc"}
    /\ \A v \in Vars : word[v].kind \in {"variable", "trace"} /\ (word[v].kind = "trace" <=> var[v].hook # 0)
    /\ \A v \in Vars : var[v].hook # 0 => hook[var[v].hook].made
\* What a hook has are procs of its arity, those aside that got another one.
HooksRight ==
    \A h \in Hooks :
        /\ ~hook[h].made => hook[h].procs = <<>>
        /\ \A k \in DOMAIN hook[h].procs : hook[h].procs[k] \in remade \/
              (word[hook[h].procs[k]].kind = "proc" /\ word[hook[h].procs[k]].arity = hook[h].arity)

\* F has called the first N of PROCS, if nobody has taken one away.
Ran(f, procs, n) ==
    "removed" \notin f.edits =>
        /\ n <= Len(procs) /\ f.called = SubSeq(procs, 1, n)
        /\ Len(f.start) <= Len(procs) /\ f.start = SubSeq(procs, 1, Len(f.start))
Running(f, hooks, n) ==
    f.kind # "apply" =>
        /\ f.hook \in Hooks /\ hooks[f.hook].made /\ Len(f.got) = f.i /\ f.len = Len(f.start)
        /\ f.kind \in {"hook", "trace"} => n <= f.len
        /\ f.kind = "again" => f.args # <<>>
        /\ Ran(f, hooks[f.hook].procs, n)
\* What was below the arguments of F when its proc began is there, or has been touched.
Stays(f, s) ==
    /\ f.depth = Len(f.below)
    /\ f.low >= Len(f.below) =>
          /\ Len(f.below) <= STKDEPTH(s)
          /\ \A j \in 1..Len(f.below) : s.cells[j - 1] = f.below[j]
Stacked ==
    /\ sess \in Sessions /\ st \in Stack /\ InBounds(st)
    /\ frames \in Seq(Frame) /\ Len(frames) <= MaxFrames
    /\ \A k \in DOMAIN frames : Running(frames[k], hook, frames[k].i + 1) /\ Stays(frames[k], st)

\* What RunsEachOnce and StackKept say of the word executed last, D, and the stack S it left.
OnceOf(f) ==
    /\ "removed" \notin f.edits =>
          /\ f.kind \in {"hook", "trace"} => Len(f.called) = f.len
          /\ f.len <= Len(f.called) /\ SubSeq(f.called, 1, f.len) = f.start
    /\ f.kind \in {"hook", "trace"} => Len(f.got) = f.len
RanOnce(d) == d.op = "hook-done" => OnceOf(d.v.frame)
Kept(d, s) ==
    /\ d.op = "proc-done" /\ d.v.frame.low >= Len(d.v.frame.below) =>
          Front(ficlStackWalk(s, TRUE)) = d.v.frame.below
    /\ d.op = "hook-done" /\ d.v.frame.called # <<>> /\ d.v.frame.low >= Len(d.v.frame.below) =>
          ficlStackWalk(d.v.s, TRUE) = d.v.frame.below

ProcInv == Tables /\ Traced /\ HooksRight /\ Stacked /\ RanOnce(did) /\ Kept(did, st)


-----------------------------------------------------------------------------
(* Numbers and folds. *)

\* A nonempty set of naturals has a least element (NatLessThanWellFounded).
LEMMA Least ==
    ASSUME NEW P \in SUBSET Nat, P # {}
    PROVE  \E k \in P : \A j \in P : k <= j
  <1>1. PICK k \in P : \A j \in P : ~(<<j, k>> \in OpToRel(<, Nat))
    BY WFMin, NatLessThanWellFounded
  <1>2. \A j \in P : ~(j < k)
    BY <1>1 DEF OpToRel
  <1> QED
    BY <1>2

\* Induction up to N: a set that holds 0 and with each number below N the next one.
LEMMA UpTo ==
    ASSUME NEW N \in Nat, NEW P, 0 \in P, \A n \in 1..N : n - 1 \in P => n \in P
    PROVE  \A n \in 0..N : n \in P
  <1> SUFFICES ASSUME (0..N) \ P # {} PROVE FALSE
    OBVIOUS
  <1>1. PICK k \in (0..N) \ P : \A j \in (0..N) \ P : k <= j
    BY Least, (0..N) \ P \in SUBSET Nat
  <1>2. k \in 1..N /\ k - 1 \in 0..N /\ ~(k <= k - 1)
    BY <1>1
  <1>3. k - 1 \in P
    BY <1>1, <1>2
  <1> QED
    BY <1>1, <1>2, <1>3

\* Max and Min are what they are called, on sets of naturals, bounded ones for Max.
LEMMA MaxIs ==
    ASSUME NEW N \in Nat, NEW S \in SUBSET (0..N), S # {}
    PROVE  Max(S) \in S /\ \A y \in S : y <= Max(S)
  <1> DEFINE P == {k \in Nat : \A y \in S : y <= k}
  <1>1. N \in P
    OBVIOUS
  <1>2. PICK k \in P : \A j \in P : k <= j
    BY <1>1, Least, P \in SUBSET Nat
  <1>3. k \in S
    <2> SUFFICES ASSUME k \notin S PROVE FALSE
      OBVIOUS
    <2>1. \A y \in S : y \in Nat /\ y < k
      BY <1>2
    <2>2. k \in Nat /\ k > 0
      <3>1. PICK y \in S : y \in Nat /\ y < k
        BY <2>1
      <3> QED
        BY <1>2, <3>1
    <2>3. k - 1 \in P
      BY <2>1, <2>2
    <2> QED
      BY <1>2, <2>2, <2>3
  <1>4. \E x \in S : \A y \in S : x >= y
    BY <1>2, <1>3
  <1>5. Max(S) \in S /\ \A y \in S : Max(S) >= y
    BY <1>4 DEF Max
  <1> QED
    BY <1>5

\* The least of a nonempty set.
LEMMA MinIs ==
    ASSUME NEW S \in SUBSET Nat, S # {}
    PROVE  Min(S) \in S /\ \A y \in S : Min(S) <= y
  <1>1. \E x \in S : \A y \in S : x =< y
    BY Least
  <1> QED
    BY <1>1 DEF Min

\* h is a fold: of the empty set BASE, and for its largest element k step k comes last.
FoldOf(base, step, Dom, N, h) ==
    /\ h[{}] = base
    /\ \A s \in SUBSET (1..N) : s # {} /\ h[s \ {Max(s)}] \in Dom => h[s] = step[Max(s)][h[s \ {Max(s)}]]
Folding(base, step, N, g) ==
    g = [s \in SUBSET (1..N) |-> IF s = {} THEN base ELSE step[Max(s)][g[s \ {Max(s)}]]]

\* There is such a function.
LEMMA FoldRuns ==
    ASSUME NEW N \in Nat, NEW Dom, NEW base \in Dom, NEW step \in [1..N -> [Dom -> Dom]]
    PROVE  \E g \in [SUBSET (1..N) -> Dom] : Folding(base, step, N, g)
  <1> DEFINE P == {n \in 0..N : \E g \in [SUBSET (1..n) -> Dom] : Folding(base, step, n, g)}
  <1>1. 0 \in P
    <2>1. PICK g : g = [s \in SUBSET (1..0) |-> base]
      OBVIOUS
    <2>2. 1..0 = {} /\ \A s \in SUBSET (1..0) : s = {}
      OBVIOUS
    <2>3. g \in [SUBSET (1..0) -> Dom]
      BY <2>1
    <2>4. Folding(base, step, 0, g)
      <3>1. g = [s \in SUBSET (1..0) |-> IF s = {} THEN base ELSE step[Max(s)][g[s \ {Max(s)}]]]
        BY <2>1, <2>2
      <3> QED
        BY <3>1 DEF Folding
    <2>5. 0 \in 0..N
      OBVIOUS
    <2> QED
      BY <2>3, <2>4, <2>5
  <1>2. \A n \in 1..N : n - 1 \in P => n \in P
    <2> SUFFICES ASSUME NEW n \in 1..N, n - 1 \in P PROVE n \in P
      OBVIOUS
    <2>1. PICK g \in [SUBSET (1..(n - 1)) -> Dom] : Folding(base, step, n - 1, g)
      OBVIOUS
    <2>2. PICK h : h = [s \in SUBSET (1..n) |-> IF n \in s THEN step[n][g[s \ {n}]] ELSE g[s]]
      OBVIOUS
    <2>3. /\ step[n] \in [Dom -> Dom] /\ n - 1 \in Nat /\ n \in Nat
          /\ \A s \in SUBSET (1..n) : s \ {n} \in SUBSET (1..(n - 1)) /\ (n \notin s => s \in SUBSET (1..(n - 1)))
          /\ \A s \in SUBSET (1..(n - 1)) : s \in SUBSET (1..n) /\ n \notin s
      OBVIOUS
    <2>4. h \in [SUBSET (1..n) -> Dom]
      BY <2>2, <2>3
    <2>5. \A s \in SUBSET (1..(n - 1)) : h[s] = g[s]
      BY <2>2, <2>3
    <2>6. ASSUME NEW s \in SUBSET (1..n)
          PROVE  h[s] = IF s = {} THEN base ELSE step[Max(s)][h[s \ {Max(s)}]]
      <3>1. CASE n \in s
        <4>1. s # {} /\ s \in SUBSET (0..n) /\ \A y \in s : y <= n
          BY <3>1
        <4>2. Max(s) = n
          <5>1. PICK m : m = Max(s) /\ m \in s /\ \A y \in s : y <= m
            BY <2>3, <4>1, MaxIs
          <5>2. m \in 1..n /\ n <= m
            BY <3>1, <5>1
          <5>3. m = n
            BY <2>3, <5>2
          <5> QED
            BY <5>1, <5>3
        <4>3. h[s] = step[n][g[s \ {n}]]
          BY <2>2, <3>1
        <4>4. h[s \ {n}] = g[s \ {n}]
          BY <2>3, <2>5
        <4> QED
          BY <4>1, <4>2, <4>3, <4>4
      <3>2. CASE n \notin s
        <4>1. s \in SUBSET (1..(n - 1)) /\ s \ {Max(s)} \in SUBSET (1..(n - 1))
          BY <2>3, <3>2
        <4>2. g[s] = IF s = {} THEN base ELSE step[Max(s)][g[s \ {Max(s)}]]
          BY <2>1, <4>1 DEF Folding
        <4>3. h[s] = g[s] /\ h[s \ {Max(s)}] = g[s \ {Max(s)}]
          BY <2>5, <4>1
        <4> QED
          BY <4>2, <4>3
      <3> QED
        BY <3>1, <3>2
    <2>7. Folding(base, step, n, h)
      BY <2>4, <2>6 DEF Folding
    <2> QED
      BY <2>4, <2>7
  <1> HIDE DEF P
  <1>3. \A n \in 0..N : n \in P
    BY <1>1, <1>2, UpTo
  <1>4. N \in P
    BY <1>3
  <1> QED
    BY <1>4 DEF P

\* A fold ends in D[N], when its base is in D[0] and each step n goes from D[n - 1] to D[n].
LEMMA FoldStays ==
    ASSUME NEW N \in Nat, NEW Dom, NEW step \in [1..N -> [Dom -> Dom]], NEW h,
           NEW D \in [0..N -> SUBSET Dom], NEW base \in D[0], \A n \in 1..N : \A x \in D[n - 1] : step[n][x] \in D[n],
           FoldOf(base, step, Dom, N, h)
    PROVE  h[1..N] \in D[N]
  <1> DEFINE P == {n \in 0..N : h[1..n] \in D[n]}
  <1>1. 0 \in P
    <2>1. 1..0 = {}
      OBVIOUS
    <2> QED
      BY <2>1 DEF FoldOf
  <1>2. \A n \in 1..N : n - 1 \in P => n \in P
    <2> SUFFICES ASSUME NEW n \in 1..N, n - 1 \in P PROVE n \in P
      OBVIOUS
    <2> HIDE DEF P
    <2>0. n \in Nat /\ n >= 1 /\ n <= N
      OBVIOUS
    <2>1. 1..n \in SUBSET (1..N) /\ 1..n # {} /\ 1..n \in SUBSET (0..n) /\ n \in Nat /\ n \in 1..n
      <3>1. \A i \in 1..n : i \in 1..N /\ i \in 0..n
        BY <2>0
      <3>2. n \in 1..n
        BY <2>0
      <3> QED
        BY <2>0, <3>1, <3>2
    <2>2. Max(1..n) = n
      <3>1. PICK m : m = Max(1..n) /\ m \in 1..n /\ \A y \in 1..n : y <= m
        BY <2>1, MaxIs
      <3>2. n <= m
        BY <2>1, <3>1
      <3> QED
        BY <3>1, <3>2
    <2>3. (1..n) \ {n} = 1..(n - 1)
      BY <2>0
    <2>4. step[n] \in [Dom -> Dom]
      OBVIOUS
    <2>5. h[1..(n - 1)] \in D[n - 1] /\ h[1..(n - 1)] \in Dom
      <3>1. h[1..(n - 1)] \in D[n - 1]
        BY DEF P
      <3>2. n - 1 \in 0..N
        BY <2>0
      <3> QED
        BY <3>1, <3>2
    <2>6. h[1..n] = step[n][h[1..(n - 1)]]
      BY <2>1, <2>2, <2>3, <2>5 DEF FoldOf
    <2>7. h[1..n] \in D[n]
      BY <2>5, <2>6
    <2> QED
      BY <2>0, <2>7 DEF P
  <1> HIDE DEF P
  <1>3. \A n \in 0..N : n \in P
    BY <1>1, <1>2, UpTo
  <1>4. N \in P
    BY <1>3
  <1> QED
    BY <1>4 DEF P

\* The function that a fold is a CHOOSE of, for steps that stay in a set.
FoldIn(base, step, Dom, N, g) ==
    /\ g \in [SUBSET (1..N) -> Dom]
    /\ \A s \in SUBSET (1..N) : g[s] = IF s = {} THEN base ELSE step[Max(s)][g[s \ {Max(s)}]]
    /\ \A s \in SUBSET (1..N) : s # {} => Max(s) \in 1..N /\ g[s \ {Max(s)}] \in Dom

\* There is a function that folds, with values where the steps have theirs.
LEMMA FoldChosen ==
    ASSUME NEW N \in Nat, NEW Dom, NEW base \in Dom, NEW step \in [1..N -> [Dom -> Dom]]
    PROVE  \E g : FoldIn(base, step, Dom, N, g)
  <1>1. PICK g \in [SUBSET (1..N) -> Dom] : Folding(base, step, N, g)
    BY FoldRuns
  <1>2. \A s \in SUBSET (1..N) : g[s] = IF s = {} THEN base ELSE step[Max(s)][g[s \ {Max(s)}]]
    BY <1>1 DEF Folding
  <1>3. ASSUME NEW s \in SUBSET (1..N), s # {} PROVE Max(s) \in 1..N /\ g[s \ {Max(s)}] \in Dom
    <2>1. Max(s) \in s
      <3>1. s \in SUBSET (0..N)
        OBVIOUS
      <3> QED
        BY <1>3, <3>1, MaxIs
    <2>2. s \ {Max(s)} \in SUBSET (1..N)
      OBVIOUS
    <2> QED
      BY <2>1, <2>2
  <1>4. FoldIn(base, step, Dom, N, g)
    BY <1>1, <1>2, <1>3 DEF FoldIn
  <1> QED
    BY <1>4

-----------------------------------------------------------------------------
(* Stacks. *)

\* What the constants are.
LEMMA Constants ==
    /\ Words \cap Vars = {} /\ Hooks \subseteq Nat /\ 0 \notin Hooks
    /\ MaxFrames \in Nat /\ MaxProcs \in Nat /\ MaxSites \in Nat /\ StackSize \in Nat
    /\ \A s \in Sessions :
          /\ s.cells \subseteq Cell /\ s.args \subseteq Seq(Cell) /\ s.arities \subseteq Arities
          /\ s.defs \subseteq Definitions /\ s.stacks \subseteq Seq(Cell)
          /\ \A q \in s.stacks : Len(q) <= StackSize
  BY ProcAssumption

\* The cells that words make.
LEMMA CellsMade ==
    /\ FTH_UNDEF \in Cell /\ Junk \in Cell /\ FTH_FALSE \in Cell
    /\ \A b : BOOL_TO_FTH(b) \in Cell
    /\ \A n \in Int : INT(n) \in Cell /\ CELL("array", n) \in Cell
  <1>2. FTH_UNDEF \in Cell /\ Junk \in Cell
    BY DEF FTH_UNDEF, Junk, CELL, Cell
  <1>3. \A b : BOOL_TO_FTH(b) \in Cell
    <2>1. CELL("bool", 1) \in Cell /\ CELL("bool", 0) \in Cell
      BY DEF CELL, Cell
    <2> QED
      BY <2>1 DEF BOOL_TO_FTH
  <1>4. FTH_FALSE \in Cell
    BY <1>3 DEF FTH_FALSE
  <1>5. \A n \in Int : INT(n) \in Cell /\ CELL("array", n) \in Cell
    BY DEF INT, CELL, Cell
  <1> QED
    BY <1>2, <1>3, <1>4, <1>5

\* A stack, field by field.
LEMMA StackParts ==
    ASSUME NEW s \in Stack
    PROVE  /\ s.top \in Int /\ s.frame \in Int /\ s.size = StackSize /\ StackSize \in Nat
           /\ s.cells \in [0..(StackSize - 1) -> Cell] /\ STKDEPTH(s) \in Int /\ STKDEPTH(s) = s.top + 1
  BY Constants DEF Stack, STKDEPTH

\* A stack with another top, or of other cells.
LEMMA TopWith ==
    ASSUME NEW s \in Stack, NEW top \in Int
    PROVE  [s EXCEPT !.top = top] \in Stack /\ [s EXCEPT !.top = top].top = top /\ [s EXCEPT !.top = top].cells = s.cells
  BY DEF Stack

\* Its cells.
LEMMA CellsWith ==
    ASSUME NEW s \in Stack, NEW cells \in [0..(StackSize - 1) -> Cell]
    PROVE  /\ [s EXCEPT !.cells = cells] \in Stack /\ [s EXCEPT !.cells = cells].top = s.top
           /\ [s EXCEPT !.cells = cells].cells = cells
  BY DEF Stack

\* ficlStackFetch reads a cell, wherever it looks.
LEMMA FetchIs ==
    ASSUME NEW s \in Stack, NEW n \in Int
    PROVE  ficlStackFetch(s, n) \in Cell
  <1>1. s.top - n \in DOMAIN s.cells => s.cells[s.top - n] \in Cell
    BY StackParts
  <1> QED
    BY <1>1, CellsMade DEF ficlStackFetch

\* ficlStackStore changes one cell at most.
LEMMA StoreIs ==
    ASSUME NEW s \in Stack, NEW n \in Int, NEW c \in Cell
    PROVE  /\ ficlStackStore(s, n, c) \in Stack /\ ficlStackStore(s, n, c).top = s.top
           /\ \A j \in DOMAIN s.cells : j # s.top - n => ficlStackStore(s, n, c).cells[j] = s.cells[j]
           /\ s.top - n \in DOMAIN s.cells => ficlStackStore(s, n, c).cells[s.top - n] = c
  <1>1. CASE s.top - n \in DOMAIN s.cells
    <2>1. PICK cells : cells = [s.cells EXCEPT ![s.top - n] = c]
      OBVIOUS
    <2>2. cells \in [0..(StackSize - 1) -> Cell]
      BY <1>1, <2>1, StackParts
    <2>3. ficlStackStore(s, n, c) = [s EXCEPT !.cells = cells]
      BY <1>1, <2>1, StackParts DEF ficlStackStore, Stack
    <2>4. [s EXCEPT !.cells = cells] \in Stack /\ [s EXCEPT !.cells = cells].top = s.top
          /\ [s EXCEPT !.cells = cells].cells = cells
      BY <2>2, CellsWith
    <2>5. cells[s.top - n] = c /\ \A j \in DOMAIN s.cells : j # s.top - n => cells[j] = s.cells[j]
      BY <1>1, <2>1
    <2> QED
      BY <2>3, <2>4, <2>5
  <1>2. CASE s.top - n \notin DOMAIN s.cells
    BY <1>2 DEF ficlStackStore
  <1> QED
    BY <1>1, <1>2

\* ficlStackPush adds a cell on top of the others.
LEMMA PushIs ==
    ASSUME NEW s \in Stack, NEW c \in Cell
    PROVE  /\ ficlStackPush(s, c) \in Stack /\ ficlStackPush(s, c).top = s.top + 1
           /\ \A j \in DOMAIN s.cells : j <= s.top => ficlStackPush(s, c).cells[j] = s.cells[j]
  <1>1. PICK t : t = [s EXCEPT !.top = @ + 1]
    OBVIOUS
  <1>2. t \in Stack /\ t.top = s.top + 1 /\ t.cells = s.cells
    <2>1. PICK n : n = s.top + 1 /\ n \in Int
      BY StackParts
    <2>2. t = [s EXCEPT !.top = n]
      BY <1>1, <2>1
    <2> QED
      BY <2>1, <2>2, TopWith
  <1>3. ficlStackPush(s, c) = ficlStackStore(t, 0, c)
    BY <1>1 DEF ficlStackPush
  <1>4. \A j \in DOMAIN s.cells : j <= s.top => j # t.top - 0
    BY <1>2, StackParts
  <1> QED
    BY <1>2, <1>3, <1>4, StoreIs

\* ficlStackDrop and ficlStackPop change the top only.
LEMMA DropIs ==
    ASSUME NEW s \in Stack, NEW n \in Int
    PROVE  /\ ficlStackDrop(s, n) \in Stack /\ ficlStackDrop(s, n).cells = s.cells
           /\ n > 0 => ficlStackDrop(s, n).top = s.top - n
           /\ ~(n > 0) => ficlStackDrop(s, n) = s
           /\ ficlStackPop(s) \in Stack
  <1>1. s.top - n \in Int /\ s.top - 1 \in Int /\ s.cells \in [0..(StackSize - 1) -> Cell]
    BY StackParts
  <1> QED
    BY <1>1, TopWith DEF ficlStackDrop, ficlStackPop

\* ficlStackRoll moves cells.
LEMMA RollIs ==
    ASSUME NEW s \in Stack, NEW n \in Int
    PROVE  ficlStackRoll(s, n) \in Stack
  <1> DEFINE lo == IF n > 0 THEN s.top - n ELSE s.top + n
             cells == [j \in DOMAIN s.cells |->
                IF n = 0 \/ j < lo \/ j > s.top THEN s.cells[j]
                ELSE IF n > 0 THEN IF j = s.top THEN ficlStackFetch(s, s.top - lo) ELSE ficlStackFetch(s, s.top - (j + 1))
                ELSE IF j = lo THEN ficlStackFetch(s, s.top - s.top) ELSE ficlStackFetch(s, s.top - (j - 1))]
  <1>1. /\ s.top \in Int /\ lo \in Int /\ DOMAIN s.cells = 0..(StackSize - 1)
        /\ \A j \in DOMAIN s.cells : j \in Int /\ s.cells[j] \in Cell
    BY StackParts
  <1>2. s.top - lo \in Int /\ s.top - s.top \in Int
    BY <1>1
  <1>3. \A j \in DOMAIN s.cells : s.top - (j + 1) \in Int /\ s.top - (j - 1) \in Int
    BY <1>1
  <1>4. cells \in [0..(StackSize - 1) -> Cell]
    <2> HIDE DEF lo
    <2>1. /\ ficlStackFetch(s, s.top - lo) \in Cell /\ ficlStackFetch(s, s.top - s.top) \in Cell
          /\ \A j \in DOMAIN s.cells : ficlStackFetch(s, s.top - (j + 1)) \in Cell /\ ficlStackFetch(s, s.top - (j - 1)) \in Cell
      BY <1>2, <1>3, FetchIs
    <2> QED
      BY <1>1, <2>1
  <1>5. ficlStackRoll(s, n) = [s EXCEPT !.cells = cells]
    BY DEF ficlStackRoll
  <1> HIDE DEF cells
  <1> QED
    BY <1>4, <1>5, CellsWith

\* The prompt finds an empty stack after an error.
LEMMA ResetIs ==
    ASSUME NEW s \in Stack
    PROVE  ficlStackReset(s) \in Stack /\ InBounds(ficlStackReset(s)) /\ ficlStackReset(s).top = -1
  <1>1. PICK t : t = [s EXCEPT !.top = -1]
    OBVIOUS
  <1>2. t \in Stack /\ t.top = -1
    BY <1>1, TopWith
  <1>3. PICK cells : cells = [j \in DOMAIN t.cells |-> IF j <= t.top THEN t.cells[j] ELSE Junk]
    OBVIOUS
  <1>4. cells \in [0..(StackSize - 1) -> Cell]
    BY <1>2, <1>3, StackParts, CellsMade
  <1>5. ficlStackReset(s) = [t EXCEPT !.cells = cells]
    BY <1>1, <1>3 DEF ficlStackReset, Settle
  <1>6. ficlStackReset(s) \in Stack /\ ficlStackReset(s).top = -1
    BY <1>2, <1>4, <1>5, CellsWith
  <1>7. ficlStackReset(s).size = StackSize /\ StackSize \in Nat
    BY <1>6, StackParts
  <1> QED
    BY <1>6, <1>7 DEF InBounds, STKDEPTH

\* A new stack is empty.
LEMMA CreateIs == ficlStackCreate(StackSize) \in Stack /\ ficlStackCreate(StackSize).top = -1
  BY Constants, CellsMade DEF ficlStackCreate, Stack

-----------------------------------------------------------------------------
(* Words that take their arguments off the stack. *)

\* Pushing cells one after another.
PushIter(s, args, g) ==
    g = [t \in SUBSET DOMAIN args |-> IF t = {} THEN s ELSE ficlStackPush(g[t \ {Max(t)}], args[Max(t)])]

\* The stack has them, above what it had.
LEMMA PushesIs ==
    ASSUME NEW s \in Stack, NEW args \in Seq(Cell)
    PROVE  /\ Pushes(s, args) \in Stack /\ Pushes(s, args).top = s.top + Len(args)
           /\ \A j \in DOMAIN s.cells : j <= s.top => Pushes(s, args).cells[j] = s.cells[j]
  <1>1. PICK N \in Nat : N = Len(args) /\ DOMAIN args = 1..N /\ \A n \in 1..N : args[n] \in Cell
    OBVIOUS
  <1>2. PICK step : step = [n \in 1..N |-> [x \in Stack |-> ficlStackPush(x, args[n])]]
    OBVIOUS
  <1>3. step \in [1..N -> [Stack -> Stack]]
    BY <1>1, <1>2, PushIs
  <1>0. PICK g : FoldIn(s, step, Stack, N, g)
    BY <1>3, FoldChosen
  <1>4. /\ g \in [SUBSET (1..N) -> Stack]
        /\ \A t \in SUBSET (1..N) : g[t] = IF t = {} THEN s ELSE step[Max(t)][g[t \ {Max(t)}]]
        /\ \A t \in SUBSET (1..N) : t # {} => Max(t) \in 1..N /\ g[t \ {Max(t)}] \in Stack
    BY <1>0 DEF FoldIn
  <1>5. PushIter(s, args, g)
    <2>1. \A t \in SUBSET (1..N) : g[t] = IF t = {} THEN s ELSE ficlStackPush(g[t \ {Max(t)}], args[Max(t)])
      BY <1>2, <1>4
    <2>2. g = [t \in SUBSET DOMAIN args |-> IF t = {} THEN s ELSE ficlStackPush(g[t \ {Max(t)}], args[Max(t)])]
      BY <1>1, <1>4, <2>1
    <2> QED
      BY <2>2 DEF PushIter
  <1>6. PICK h : h = (CHOOSE x : PushIter(s, args, x))
    OBVIOUS
  <1>7. PushIter(s, args, h)
    BY <1>5, <1>6
  <1>8. Pushes(s, args) = h[1..N]
    <2>1. Pushes(s, args) = (CHOOSE x : PushIter(s, args, x))[DOMAIN args]
      BY DEF Pushes, FoldLeft, MapThenFoldSet, PushIter
    <2> QED
      BY <1>1, <1>6, <2>1
  <1>9. PICK D : D = [n \in 0..N |-> {x \in Stack : x.top = s.top + n /\
                                    \A j \in DOMAIN s.cells : j <= s.top => x.cells[j] = s.cells[j]}]
    OBVIOUS
  <1>10. D \in [0..N -> SUBSET Stack] /\ s \in D[0]
    BY <1>9, StackParts
  <1>11. \A n \in 1..N : \A x \in D[n - 1] : step[n][x] \in D[n]
    <2> SUFFICES ASSUME NEW n \in 1..N, NEW x \in D[n - 1] PROVE step[n][x] \in D[n]
      OBVIOUS
    <2>1. n - 1 \in 0..N /\ n \in 0..N /\ n \in Int
      OBVIOUS
    <2>2. x \in Stack /\ x.top = s.top + (n - 1) /\ \A j \in DOMAIN s.cells : j <= s.top => x.cells[j] = s.cells[j]
      BY <1>9, <2>1
    <2>3. ficlStackPush(x, args[n]) \in Stack /\ ficlStackPush(x, args[n]).top = x.top + 1
      BY <1>1, <2>2, PushIs
    <2>4. x.top + 1 = s.top + n
      BY <2>1, <2>2, StackParts
    <2>a. \A j \in DOMAIN s.cells : j <= s.top => ficlStackPush(x, args[n]).cells[j] = s.cells[j]
      <3>1. \A j \in DOMAIN s.cells : j \in DOMAIN x.cells /\ j \in Int /\ (j <= s.top => j <= x.top)
        BY <2>1, <2>2, StackParts
      <3>2. \A j \in DOMAIN x.cells : j <= x.top => ficlStackPush(x, args[n]).cells[j] = x.cells[j]
        BY <1>1, <2>2, PushIs
      <3> QED
        BY <2>2, <3>1, <3>2
    <2>5. ficlStackPush(x, args[n]) \in D[n]
      BY <1>9, <2>1, <2>3, <2>4, <2>a
    <2> QED
      BY <1>2, <2>2, <2>5
  <1>12. FoldOf(s, step, Stack, N, h)
    <2>1. \A t \in SUBSET (1..N) : h[t] = IF t = {} THEN s ELSE ficlStackPush(h[t \ {Max(t)}], args[Max(t)])
      BY <1>1, <1>7 DEF PushIter
    <2>2. \A t \in SUBSET (1..N) : t # {} => Max(t) \in 1..N
      BY <1>4
    <2>3. h[{}] = s
      BY <2>1
    <2>4. \A t \in SUBSET (1..N) : t # {} /\ h[t \ {Max(t)}] \in Stack => h[t] = step[Max(t)][h[t \ {Max(t)}]]
      BY <1>2, <2>1, <2>2
    <2> QED
      BY <2>3, <2>4 DEF FoldOf
  <1>13. h[1..N] \in D[N]
    BY <1>3, <1>10, <1>11, <1>12, FoldStays
  <1> QED
    BY <1>1, <1>8, <1>9, <1>13

-----------------------------------------------------------------------------
(* The words on arguments leave a stack. *)

\* A fold stays in the set that its steps stay in.
LEMMA FoldIsIn ==
    ASSUME NEW N \in Nat, NEW Dom, NEW step \in [1..N -> [Dom -> Dom]], NEW base \in Dom, NEW h,
           FoldOf(base, step, Dom, N, h)
    PROVE  h[1..N] \in Dom
  <1>1. PICK D : D = [n \in 0..N |-> Dom]
    OBVIOUS
  <1>2. D \in [0..N -> SUBSET Dom] /\ base \in D[0] /\ D[N] = Dom
    BY <1>1
  <1>3. \A n \in 1..N : \A x \in D[n - 1] : step[n][x] \in D[n]
    <2> SUFFICES ASSUME NEW n \in 1..N, NEW x \in D[n - 1] PROVE step[n][x] \in D[n]
      OBVIOUS
    <2>1. n - 1 \in 0..N /\ n \in 0..N
      OBVIOUS
    <2>2. x \in Dom /\ D[n] = Dom
      BY <1>1, <2>1
    <2> QED
      BY <2>2
  <1>4. h[1..N] \in D[N]
    BY <1>2, <1>3, FoldStays
  <1> QED
    BY <1>2, <1>4

\* KeyIndex is an index.
LEMMA KeyIndexIs ==
    ASSUME NEW s \in Stack, NEW key, NEW i \in Nat
    PROVE  KeyIndex(s, key, i) \in Nat
  <1>1. PICK at : at = {j \in i..s.top : ficlStackFetch(s, j) = key}
    OBVIOUS
  <1>2. at \in SUBSET Nat
    BY <1>1, StackParts
  <1>3. at # {} => Min(at) \in Nat
    BY <1>2, MinIs
  <1>4. KeyIndex(s, key, i) = IF at = {} THEN 0 ELSE Min(at)
    BY <1>1 DEF KeyIndex
  <1> QED
    BY <1>3, <1>4

\* Rolling, and dropping one cell.
LEMMA ValueUpIs ==
    ASSUME NEW s \in Stack, NEW j \in Int
    PROVE  ValueUp(s, j) \in Stack
  <1>1. PICK n : n = j - 1 /\ n \in Int
    OBVIOUS
  <1>2. ficlStackDrop(ficlStackRoll(s, j), 1) \in Stack
    BY RollIs, DropIs, 1 \in Int
  <1>3. ficlStackRoll(ficlStackDrop(ficlStackRoll(s, j), 1), n) \in Stack
    BY <1>1, <1>2, RollIs
  <1> QED
    BY <1>1, <1>3 DEF ValueUp

\* NIP_DEFAULT: the value or the default stays.
LEMMA NipDefaultIs ==
    ASSUME NEW s \in Stack
    PROVE  NipDefault(s) \in Stack
  <1>1. ficlStackRoll(s, 1) \in Stack /\ 1 \in Int
    BY RollIs
  <1>2. PICK t \in Stack : t = IF ficlStackFetch(s, 0) # FTH_UNDEF THEN ficlStackRoll(s, 1) ELSE s
    BY <1>1
  <1>3. NipDefault(s) = ficlStackDrop(t, 1)
    BY <1>2 DEF NipDefault
  <1> QED
    BY <1>1, <1>3, DropIs

\* The value of a keyword, wherever it is on the stack.
LEMMA KeyOrDefaultIs ==
    ASSUME NEW s \in Stack, NEW key
    PROVE  KeyOrDefault(s, key) \in Stack
  <1>1. PICK j \in Nat : j = KeyIndex(s, key, 2)
    BY KeyIndexIs, 2 \in Nat
  <1>2. ValueUp(s, j) \in Stack
    BY ValueUpIs, j \in Int
  <1>3. NipDefault(ValueUp(s, j)) \in Stack
    BY <1>2, NipDefaultIs
  <1> QED
    BY <1>1, <1>3 DEF KeyOrDefault

\* fth_get_optkey and fth_get_optarg return a cell.
LEMMA OptkeyCIs ==
    ASSUME NEW s \in Stack, NEW key, NEW def \in Cell
    PROVE  fth_get_optkey(s, key, def).s \in Stack /\ fth_get_optkey(s, key, def).v \in Cell
  <1>1. PICK j \in Nat : j = KeyIndex(s, key, 1)
    BY KeyIndexIs, 1 \in Nat
  <1>2. PICK up \in Stack : up = ValueUp(s, j)
    BY ValueUpIs, j \in Int
  <1>3. ficlStackFetch(up, 0) \in Cell /\ ficlStackPop(up) \in Stack
    BY FetchIs, DropIs, 0 \in Int
  <1> QED
    BY <1>1, <1>2, <1>3 DEF fth_get_optkey

\* fth_get_optarg leaves a stack and gives a cell.
LEMMA OptargCIs ==
    ASSUME NEW s \in Stack, NEW req, NEW def \in Cell
    PROVE  fth_get_optarg(s, req, def).s \in Stack /\ fth_get_optarg(s, req, def).v \in Cell
  <1>1. ficlStackFetch(s, 0) \in Cell /\ ficlStackPop(s) \in Stack
    BY FetchIs, DropIs, 0 \in Int
  <1> QED
    BY <1>1 DEF fth_get_optarg

\* get-optkey and get-optarg.
LEMMA SwapsIs ==
    ASSUME NEW s \in Stack
    PROVE  ficlStackPop(ficlStackRoll(s, 1)) \in Stack
  <1>1. ficlStackRoll(s, 1) \in Stack /\ 1 \in Int
    BY RollIs
  <1> QED
    BY <1>1, DropIs

\* get-optkey.
LEMMA OptkeyIs ==
    ASSUME NEW s \in Stack
    PROVE  ficl_get_optkey(s).s \in Stack
  <1>1. KeyOrDefault(ficlStackPop(ficlStackRoll(s, 1)), ficlStackFetch(s, 1)) \in Stack
    BY SwapsIs, KeyOrDefaultIs
  <1> QED
    BY <1>1 DEF ficl_get_optkey, FTH_STACK_CHECK, Raise, Ok

\* get-optarg.
LEMMA OptargIs ==
    ASSUME NEW s \in Stack
    PROVE  ficl_get_optarg(s).s \in Stack
  <1>1. PICK d \in Stack : d = ficlStackPop(ficlStackRoll(s, 1))
    BY SwapsIs
  <1>2. PICK e \in Stack : e = IF ficlStackFetch(d, 1) = FTH_UNDEF THEN ficlStackRoll(d, 1) ELSE d
    BY RollIs, 1 \in Int
  <1>3. ficlStackDrop(e, 1) \in Stack
    BY DropIs, 1 \in Int
  <1> QED
    BY <1>1, <1>2, <1>3 DEF ficl_get_optarg, FTH_STACK_CHECK, Raise, Ok

\* One pair of get-optkeys, one of (args-keys), and one optional argument.
Pairs == [key : Cell, default : Cell]
OptkeysStep(t, pairs, n) ==
    LET p == ficlStackPush(t, pairs[n].default)
        j == KeyIndex(p, pairs[n].key, 2)
    IN  IF j = 0 THEN p
        ELSE NipDefault(ficlStackRoll(ficlStackDrop(ficlStackRoll(p, j), 1), 2 * (n - 1) - 1))
ArgsKeysStep(t, pair) == KeyOrDefault(ficlStackPush(t, pair.default), pair.key)
OptionalsStep(t, defs, req, given, n) ==
    LET j == given - n
        u == IF ficlStackFetch(t, j) = FTH_UNDEF THEN ficlStackStore(t, j, defs[n]) ELSE t
    IN  IF Missing(u, req, n) THEN ficlStackPush(u, defs[n]) ELSE u

\* One keyword of get-optkeys.
LEMMA OptkeysStepIs ==
    ASSUME NEW t \in Stack, NEW pairs \in Seq(Pairs), NEW n \in DOMAIN pairs
    PROVE  OptkeysStep(t, pairs, n) \in Stack
  <1>1. PICK p \in Stack : p = ficlStackPush(t, pairs[n].default)
    <2>1. pairs[n] \in Pairs
      OBVIOUS
    <2>2. pairs[n].default \in Cell
      BY <2>1 DEF Pairs
    <2> QED
      BY <2>2, PushIs
  <1>2. PICK j \in Nat : j = KeyIndex(p, pairs[n].key, 2)
    BY KeyIndexIs, 2 \in Nat
  <1>3. PICK m \in Int : m = 2 * (n - 1) - 1
    OBVIOUS
  <1>4. ficlStackRoll(p, j) \in Stack /\ 1 \in Int
    BY RollIs, j \in Int
  <1>5. PICK q \in Stack : q = ficlStackDrop(ficlStackRoll(p, j), 1)
    BY <1>4, DropIs
  <1>6. NipDefault(ficlStackRoll(q, m)) \in Stack
    BY RollIs, NipDefaultIs
  <1> QED
    BY <1>1, <1>2, <1>3, <1>5, <1>6 DEF OptkeysStep

\* One keyword of (args-keys).
LEMMA ArgsKeysStepIs ==
    ASSUME NEW t \in Stack, NEW pair \in Pairs
    PROVE  ArgsKeysStep(t, pair) \in Stack
  <1>1. ficlStackPush(t, pair.default) \in Stack
    BY PushIs DEF Pairs
  <1> QED
    BY <1>1, KeyOrDefaultIs DEF ArgsKeysStep

\* One optional argument.
LEMMA OptionalsStepIs ==
    ASSUME NEW t \in Stack, NEW defs \in Seq(Cell), NEW req, NEW given \in Int, NEW n \in DOMAIN defs
    PROVE  OptionalsStep(t, defs, req, given, n) \in Stack
  <1>1. PICK j \in Int : j = given - n
    OBVIOUS
  <1>2. defs[n] \in Cell
    OBVIOUS
  <1>3. PICK u \in Stack : u = IF ficlStackFetch(t, j) = FTH_UNDEF THEN ficlStackStore(t, j, defs[n]) ELSE t
    BY <1>2, StoreIs
  <1>4. ficlStackPush(u, defs[n]) \in Stack
    BY <1>2, PushIs
  <1> QED
    BY <1>1, <1>3, <1>4 DEF OptionalsStep

\* get-optkeys, pair by pair.
OptkeysIter(s, pairs, g) ==
    g = [t \in SUBSET DOMAIN [i \in DOMAIN pairs |-> i] |-> IF t = {} THEN s ELSE OptkeysStep(g[t \ {Max(t)}], pairs,
                  [i \in DOMAIN pairs |-> i][Max(t)])]

\* All keywords of get-optkeys.
LEMMA GetOptkeysIs ==
    ASSUME NEW s \in Stack, NEW pairs \in Seq(Pairs)
    PROVE  GetOptkeys(s, pairs) \in Stack
  <1>1. PICK N \in Nat : N = Len(pairs) /\ DOMAIN [i \in DOMAIN pairs |-> i] = 1..N /\ DOMAIN pairs = 1..N
    OBVIOUS
  <1>2. PICK step : step = [n \in 1..N |-> [x \in Stack |-> OptkeysStep(x, pairs, [i \in DOMAIN pairs |-> i][n])]]
    OBVIOUS
  <1>3. step \in [1..N -> [Stack -> Stack]]
    <2>1. \A n \in 1..N, x \in Stack : OptkeysStep(x, pairs, [i \in DOMAIN pairs |-> i][n]) \in Stack
      BY <1>1, OptkeysStepIs
    <2> QED
      BY <1>2, <2>1
  <1>4. PICK f : FoldIn(s, step, Stack, N, f)
    BY <1>3, FoldChosen
  <1>5. /\ f \in [SUBSET (1..N) -> Stack]
        /\ \A t \in SUBSET (1..N) : f[t] = IF t = {} THEN s ELSE step[Max(t)][f[t \ {Max(t)}]]
        /\ \A t \in SUBSET (1..N) : t # {} => Max(t) \in 1..N /\ f[t \ {Max(t)}] \in Stack
    BY <1>4 DEF FoldIn
  <1>6. OptkeysIter(s, pairs, f)
    <2>1. \A t \in SUBSET (1..N) :
             f[t] = IF t = {} THEN s ELSE OptkeysStep(f[t \ {Max(t)}], pairs, [i \in DOMAIN pairs |-> i][Max(t)])
      BY <1>2, <1>5
    <2>2. f = [t \in SUBSET DOMAIN [i \in DOMAIN pairs |-> i] |->
                 IF t = {} THEN s ELSE OptkeysStep(f[t \ {Max(t)}], pairs, [i \in DOMAIN pairs |-> i][Max(t)])]
      BY <1>1, <1>5, <2>1
    <2> QED
      BY <2>2 DEF OptkeysIter
  <1>7. PICK h : h = (CHOOSE x : OptkeysIter(s, pairs, x))
    OBVIOUS
  <1>8. OptkeysIter(s, pairs, h)
    BY <1>6, <1>7
  <1>9. GetOptkeys(s, pairs) = h[1..N]
    <2>1. GetOptkeys(s, pairs) = (CHOOSE x : OptkeysIter(s, pairs, x))[DOMAIN [i \in DOMAIN pairs |-> i]]
      BY DEF GetOptkeys, FoldLeftDomain, FoldLeft, MapThenFoldSet, OptkeysIter, OptkeysStep
    <2> QED
      BY <1>1, <1>7, <2>1
  <1>10. FoldOf(s, step, Stack, N, h)
    <2>1. \A t \in SUBSET (1..N) :
             h[t] = IF t = {} THEN s ELSE OptkeysStep(h[t \ {Max(t)}], pairs, [i \in DOMAIN pairs |-> i][Max(t)])
      BY <1>1, <1>8 DEF OptkeysIter
    <2>2. h[{}] = s
      BY <2>1
    <2>3. \A t \in SUBSET (1..N) :
             t # {} /\ h[t \ {Max(t)}] \in Stack => h[t] = step[Max(t)][h[t \ {Max(t)}]]
      BY <1>2, <1>5, <2>1
    <2> QED
      BY <2>2, <2>3 DEF FoldOf
  <1>11. h[1..N] \in Stack
    BY <1>3, <1>10, FoldIsIn
  <1> QED
    BY <1>9, <1>11

\* (args-keys), key by key.
ArgsKeysIter(s, pairs, g) ==
    g = [t \in SUBSET DOMAIN pairs |-> IF t = {} THEN s ELSE ArgsKeysStep(g[t \ {Max(t)}], pairs[Max(t)])]

\* All keywords of (args-keys).
LEMMA ArgsKeysIs ==
    ASSUME NEW s \in Stack, NEW pairs \in Seq(Pairs), NEW req
    PROVE  args_keys_paren(s, pairs, req).s \in Stack
  <1>1. PICK N \in Nat : N = Len(pairs) /\ DOMAIN pairs = 1..N /\ DOMAIN pairs = 1..N
    OBVIOUS
  <1>2. PICK step : step = [n \in 1..N |-> [x \in Stack |-> ArgsKeysStep(x, pairs[n])]]
    OBVIOUS
  <1>3. step \in [1..N -> [Stack -> Stack]]
    <2>1. \A n \in 1..N, x \in Stack : ArgsKeysStep(x, pairs[n]) \in Stack
      BY <1>1, ArgsKeysStepIs
    <2> QED
      BY <1>2, <2>1
  <1>4. PICK f : FoldIn(s, step, Stack, N, f)
    BY <1>3, FoldChosen
  <1>5. /\ f \in [SUBSET (1..N) -> Stack]
        /\ \A t \in SUBSET (1..N) : f[t] = IF t = {} THEN s ELSE step[Max(t)][f[t \ {Max(t)}]]
        /\ \A t \in SUBSET (1..N) : t # {} => Max(t) \in 1..N /\ f[t \ {Max(t)}] \in Stack
    BY <1>4 DEF FoldIn
  <1>6. ArgsKeysIter(s, pairs, f)
    <2>1. \A t \in SUBSET (1..N) :
             f[t] = IF t = {} THEN s ELSE ArgsKeysStep(f[t \ {Max(t)}], pairs[Max(t)])
      BY <1>2, <1>5
    <2>2. f = [t \in SUBSET DOMAIN pairs |->
                 IF t = {} THEN s ELSE ArgsKeysStep(f[t \ {Max(t)}], pairs[Max(t)])]
      BY <1>1, <1>5, <2>1
    <2> QED
      BY <2>2 DEF ArgsKeysIter
  <1>7. PICK h : h = (CHOOSE x : ArgsKeysIter(s, pairs, x))
    OBVIOUS
  <1>8. ArgsKeysIter(s, pairs, h)
    BY <1>6, <1>7
  <1>9. args_keys_paren(s, pairs, req) = FTH_STACK_CHECK(s, req, Ok(h[1..N]))
    <2>1. args_keys_paren(s, pairs, req)
             = FTH_STACK_CHECK(s, req, Ok((CHOOSE x : ArgsKeysIter(s, pairs, x))[DOMAIN pairs]))
      BY DEF args_keys_paren, FoldLeft, MapThenFoldSet, ArgsKeysIter, ArgsKeysStep
    <2> QED
      BY <1>1, <1>7, <2>1
  <1>10. FoldOf(s, step, Stack, N, h)
    <2>1. \A t \in SUBSET (1..N) :
             h[t] = IF t = {} THEN s ELSE ArgsKeysStep(h[t \ {Max(t)}], pairs[Max(t)])
      BY <1>1, <1>8 DEF ArgsKeysIter
    <2>2. h[{}] = s
      BY <2>1
    <2>3. \A t \in SUBSET (1..N) :
             t # {} /\ h[t \ {Max(t)}] \in Stack => h[t] = step[Max(t)][h[t \ {Max(t)}]]
      BY <1>2, <1>5, <2>1
    <2> QED
      BY <2>2, <2>3 DEF FoldOf
  <1>11. h[1..N] \in Stack
    BY <1>3, <1>10, FoldIsIn
  <1> QED
    BY <1>9, <1>11 DEF FTH_STACK_CHECK, Raise, Ok

\* How many of the optional arguments are there.
OptionalsGiven(s, defs, req) == Min({STKDEPTH(s) - req, Len(defs)})
\* The lesser of two integers.
LEMMA LesserIs ==
    ASSUME NEW a \in Int, NEW b \in Int
    PROVE  Min({a, b}) \in {a, b} /\ Min({a, b}) <= a /\ Min({a, b}) <= b
  <1>1. \E x \in {a, b} : \A y \in {a, b} : x =< y
    <2>1. CASE a <= b
      BY <2>1
    <2>2. CASE b <= a
      BY <2>2
    <2> QED
      BY <2>1, <2>2
  <1>2. Min({a, b}) \in {a, b} /\ \A y \in {a, b} : Min({a, b}) =< y
    BY <1>1 DEF Min
  <1> QED
    BY <1>2
\* A number of arguments is an integer.
LEMMA GivenIs ==
    ASSUME NEW s \in Stack, NEW defs \in Seq(Cell), NEW req \in Nat
    PROVE  OptionalsGiven(s, defs, req) \in Int
  <1>1. PICK a \in Int : a = STKDEPTH(s) - req
    BY StackParts
  <1>2. PICK b \in Int : b = Len(defs)
    OBVIOUS
  <1>3. Min({a, b}) \in {a, b}
    BY LesserIs
  <1> QED
    BY <1>1, <1>2, <1>3 DEF OptionalsGiven

\* (args-optional), one by one.
OptionalsIter(s, defs, req, g) ==
    g = [t \in SUBSET DOMAIN [i \in DOMAIN defs |-> i] |->
        IF t = {} THEN s
        ELSE OptionalsStep(g[t \ {Max(t)}], defs, req, OptionalsGiven(s, defs, req),
                  [i \in DOMAIN defs |-> i][Max(t)])]

\* All optional arguments.
LEMMA OptionalsIs ==
    ASSUME NEW s \in Stack, NEW defs \in Seq(Cell), NEW req \in Nat
    PROVE  Optionals(s, defs, req) \in Stack
  <1>0. OptionalsGiven(s, defs, req) \in Int
    BY GivenIs
  <1>1. PICK N \in Nat : N = Len(defs) /\ DOMAIN [i \in DOMAIN defs |-> i] = 1..N /\ DOMAIN defs = 1..N
    OBVIOUS
  <1>2. PICK step : step = [n \in 1..N |-> [x \in Stack |-> OptionalsStep(x, defs, req, OptionalsGiven(s, defs, req),
                [i \in DOMAIN defs |-> i][n])]]
    OBVIOUS
  <1>3. step \in [1..N -> [Stack -> Stack]]
    <2>1. \A n \in 1..N, x \in Stack : OptionalsStep(x, defs, req, OptionalsGiven(s, defs, req),
                  [i \in DOMAIN defs |-> i][n]) \in Stack
      BY <1>1, <1>0, OptionalsStepIs
    <2> QED
      BY <1>2, <2>1
  <1>4. PICK f : FoldIn(s, step, Stack, N, f)
    BY <1>3, FoldChosen
  <1>5. /\ f \in [SUBSET (1..N) -> Stack]
        /\ \A t \in SUBSET (1..N) : f[t] = IF t = {} THEN s ELSE step[Max(t)][f[t \ {Max(t)}]]
        /\ \A t \in SUBSET (1..N) : t # {} => Max(t) \in 1..N /\ f[t \ {Max(t)}] \in Stack
    BY <1>4 DEF FoldIn
  <1>6. OptionalsIter(s, defs, req, f)
    <2>1. \A t \in SUBSET (1..N) :
             f[t] = IF t = {} THEN s ELSE OptionalsStep(f[t \ {Max(t)}], defs, req, OptionalsGiven(s, defs, req),
                           [i \in DOMAIN defs |-> i][Max(t)])
      BY <1>2, <1>5
    <2>2. f = [t \in SUBSET DOMAIN [i \in DOMAIN defs |-> i] |->
                 IF t = {} THEN s ELSE OptionalsStep(f[t \ {Max(t)}], defs, req, OptionalsGiven(s, defs, req),
                               [i \in DOMAIN defs |-> i][Max(t)])]
      BY <1>1, <1>5, <2>1
    <2> QED
      BY <2>2 DEF OptionalsIter
  <1>7. PICK h : h = (CHOOSE x : OptionalsIter(s, defs, req, x))
    OBVIOUS
  <1>8. OptionalsIter(s, defs, req, h)
    BY <1>6, <1>7
  <1>9. Optionals(s, defs, req) = h[1..N]
    <2>1. Optionals(s, defs, req) = (CHOOSE x : OptionalsIter(s, defs, req, x))[DOMAIN [i \in DOMAIN defs |-> i]]
      BY DEF Optionals, FoldLeftDomain, FoldLeft, MapThenFoldSet, OptionalsIter, OptionalsStep, OptionalsGiven
    <2> QED
      BY <1>1, <1>7, <2>1
  <1>10. FoldOf(s, step, Stack, N, h)
    <2>1. \A t \in SUBSET (1..N) :
             h[t] = IF t = {} THEN s ELSE OptionalsStep(h[t \ {Max(t)}], defs, req, OptionalsGiven(s, defs, req),
                           [i \in DOMAIN defs |-> i][Max(t)])
      BY <1>1, <1>8 DEF OptionalsIter
    <2>2. h[{}] = s
      BY <2>1
    <2>3. \A t \in SUBSET (1..N) :
             t # {} /\ h[t \ {Max(t)}] \in Stack => h[t] = step[Max(t)][h[t \ {Max(t)}]]
      BY <1>2, <1>5, <2>1
    <2> QED
      BY <2>2, <2>3 DEF FoldOf
  <1>11. h[1..N] \in Stack
    BY <1>3, <1>10, FoldIsIn
  <1> QED
    BY <1>9, <1>11

\* get-optkeys, get-optargs and (args-optional).
LEMMA OptkeysIs ==
    ASSUME NEW s \in Stack, NEW pairs \in Seq(Pairs), NEW req
    PROVE  ficl_get_optkeys(s, pairs, req).s \in Stack
  BY GetOptkeysIs DEF ficl_get_optkeys, FTH_STACK_CHECK, Raise, Ok

\* (args-optional).
LEMMA ArgsOptionalIs ==
    ASSUME NEW s \in Stack, NEW defs \in Seq(Cell), NEW req \in Nat
    PROVE  args_optional_paren(s, defs, req).s \in Stack
  BY OptionalsIs DEF args_optional_paren, FTH_STACK_CHECK, Raise, Ok

-----------------------------------------------------------------------------
(* A word with <{ ... }> begins. *)

\* The locals it may have, and the code that makes them.
NamesOf(names, n) == {names[Len(names) - k + 1] : k \in 1..n}
LocalNames(def) ==
    LET req == Names(ReqName, def.req)
        keys == Names(KeyName, Len(def.keys))
        opts == Names(OptName, Len(def.opts))
    IN  NamesOf(req \o keys, Len(keys)) \cup NamesOf(req \o opts, Len(opts)) \cup NamesOf(req, Len(req))
Instrs(def) ==
    {Instr("(args-keys)", def.keys, ""), Instr("(args-optional)", def.opts, "")}
    \cup {Instr("local", <<>>, name) : name \in LocalNames(def)}

\* The instructions for some of the locals of a definition.
LEMMA LocalsOfIs ==
    ASSUME NEW def, NEW names, NEW n \in Nat, NamesOf(names, n) \subseteq LocalNames(def)
    PROVE  LocalsOf(names, n) \in Seq(Instrs(def))
  <1>1. \A k \in 1..n : names[Len(names) - k + 1] \in LocalNames(def)
    BY DEF NamesOf
  <1>2. \A k \in 1..n : Instr("local", <<>>, names[Len(names) - k + 1]) \in Instrs(def)
    BY <1>1 DEF Instrs
  <1> QED
    BY <1>2 DEF LocalsOf

\* The instructions a definition begins with.
LEMMA CodeIs ==
    ASSUME NEW def \in Definitions
    PROVE  ficl_extended_args(def) \in Seq(Instrs(def))
  <1>1. PICK req, keys, opts :
           req = Names(ReqName, def.req) /\ keys = Names(KeyName, Len(def.keys)) /\ opts = Names(OptName, Len(def.opts))
    OBVIOUS
  <1>2. Len(req) \in Nat /\ Len(keys) \in Nat /\ Len(opts) \in Nat
    <2>1. def.req \in Nat /\ Len(def.keys) \in Nat /\ Len(def.opts) \in Nat
      BY DEF Definitions
    <2>2. Len(req) = def.req
      BY <1>1, <2>1 DEF Names
    <2>3. Len(keys) = Len(def.keys)
      BY <1>1, <2>1 DEF Names
    <2>4. Len(opts) = Len(def.opts)
      BY <1>1, <2>1 DEF Names
    <2> QED
      BY <2>1, <2>2, <2>3, <2>4
  <1>3. LocalNames(def) = NamesOf(req \o keys, Len(keys)) \cup NamesOf(req \o opts, Len(opts)) \cup NamesOf(req, Len(req))
    BY <1>1 DEF LocalNames
  <1>4. PICK a, b, c : /\ a = LocalsOf(req \o keys, Len(keys)) /\ b = LocalsOf(req \o opts, Len(opts))
                       /\ c = LocalsOf(req, Len(req))
    OBVIOUS
  <1>5. a \in Seq(Instrs(def)) /\ b \in Seq(Instrs(def)) /\ c \in Seq(Instrs(def))
    <2>1. /\ NamesOf(req \o keys, Len(keys)) \subseteq LocalNames(def)
          /\ NamesOf(req \o opts, Len(opts)) \subseteq LocalNames(def) /\ NamesOf(req, Len(req)) \subseteq LocalNames(def)
      BY <1>3
    <2> QED
      BY <1>2, <1>4, <2>1, LocalsOfIs
  <1>6. PICK d, e : /\ d = Instr("(args-keys)", def.keys, "") /\ e = Instr("(args-optional)", def.opts, "")
    OBVIOUS
  <1>i. d \in Instrs(def) /\ e \in Instrs(def)
    BY <1>6 DEF Instrs
  <1>7. PICK p \in Seq(Instrs(def)) : p = IF def.keys = <<>> THEN <<>> ELSE <<d>> \o a
    <2>0. <<d>> \in Seq(Instrs(def))
      BY <1>i
    <2>1. PICK one \in Seq(Instrs(def)) : one = <<d>>
      BY <2>0
    <2>2. one \o a \in Seq(Instrs(def)) /\ <<>> \in Seq(Instrs(def))
      BY <1>5
    <2> QED
      BY <2>1, <2>2
  <1>8. PICK q \in Seq(Instrs(def)) : q = IF def.opts = <<>> THEN <<>> ELSE <<e>> \o b
    <2>0. <<e>> \in Seq(Instrs(def))
      BY <1>i
    <2>1. PICK one \in Seq(Instrs(def)) : one = <<e>>
      BY <2>0
    <2>2. one \o b \in Seq(Instrs(def)) /\ <<>> \in Seq(Instrs(def))
      BY <1>5
    <2> QED
      BY <2>1, <2>2
  <1>9. ficl_extended_args(def) = p \o q \o c
    BY <1>1, <1>4, <1>6, <1>7, <1>8 DEF ficl_extended_args
  <1> QED
    BY <1>5, <1>7, <1>8, <1>9

\* The stack and the locals while the code runs.
Envs(names) == UNION {[D -> Cell] : D \in SUBSET names}
RunState(names) == [s : Stack, env : Envs(names), ok : BOOLEAN]
LocalsStep(x, i, req) ==
    IF ~x.ok THEN x
    ELSE CASE i.op = "(args-keys)" ->
            [x EXCEPT !.s = args_keys_paren(x.s, i.args, req).s, !.ok = args_keys_paren(x.s, i.args, req).ok]
      [] i.op = "(args-optional)" ->
            [x EXCEPT !.s = args_optional_paren(x.s, i.args, req).s, !.ok = args_optional_paren(x.s, i.args, req).ok]
      [] OTHER -> IF StackUnderflow(x.s, 1) THEN [x EXCEPT !.ok = FALSE]
                  ELSE [x EXCEPT !.s = ficlStackPop(@), !.env = WithLocal(@, i.name, ficlStackFetch(x.s, 0))]

\* One more local has its value.
LEMMA EnvWith ==
    ASSUME NEW names, NEW env \in Envs(names), NEW name \in names, NEW c \in Cell
    PROVE  WithLocal(env, name, c) \in Envs(names)
  <1>1. PICK D \in SUBSET names : env \in [D -> Cell]
    BY DEF Envs
  <1>2. WithLocal(env, name, c) \in [D \cup {name} -> Cell]
    BY <1>1 DEF WithLocal
  <1>3. D \cup {name} \in SUBSET names
    BY <1>1
  <1> QED
    BY <1>2, <1>3 DEF Envs

\* What an instruction may change: the stack, and whether it raised,
LEMMA RunStateWith ==
    ASSUME NEW names, NEW x \in RunState(names), NEW s \in Stack, NEW ok \in BOOLEAN
    PROVE  [x EXCEPT !.s = s, !.ok = ok] \in RunState(names)
  BY DEF RunState

\* or the stack and a local.
LEMMA RunStateLocal ==
    ASSUME NEW names, NEW x \in RunState(names), NEW s \in Stack, NEW env \in Envs(names)
    PROVE  [x EXCEPT !.s = s, !.env = env] \in RunState(names) /\ [x EXCEPT !.ok = FALSE] \in RunState(names)
  BY DEF RunState

\* One instruction.
LEMMA LocalsStepIs ==
    ASSUME NEW def \in Definitions, NEW x \in RunState(LocalNames(def)), NEW i \in Instrs(def)
    PROVE  LocalsStep(x, i, def.req) \in RunState(LocalNames(def))
  <1>1. /\ x.s \in Stack /\ x.env \in Envs(LocalNames(def)) /\ x.ok \in BOOLEAN
        /\ def.req \in Nat /\ def.keys \in Seq(Pairs) /\ def.opts \in Seq(Cell)
    BY DEF RunState, Definitions, Pairs
  <1>2. /\ i.op = "(args-keys)" => i.args = def.keys
        /\ i.op = "(args-optional)" => i.args = def.opts
        /\ i.op # "(args-keys)" /\ i.op # "(args-optional)" => i.name \in LocalNames(def)
    <2>1. CASE i = Instr("(args-keys)", def.keys, "")
      BY <2>1 DEF Instr
    <2>2. CASE i = Instr("(args-optional)", def.opts, "")
      BY <2>2 DEF Instr
    <2>3. CASE \E name \in LocalNames(def) : i = Instr("local", <<>>, name)
      BY <2>3 DEF Instr
    <2> QED
      BY <2>1, <2>2, <2>3 DEF Instrs
  <1>3. CASE ~x.ok
    BY <1>3 DEF LocalsStep
  <1>4. CASE x.ok /\ i.op = "(args-keys)"
    <2>1. PICK r : r = args_keys_paren(x.s, i.args, def.req)
      OBVIOUS
    <2>2. r.s \in Stack
      BY <1>1, <1>2, <1>4, <2>1, ArgsKeysIs
    <2>3. r.ok \in BOOLEAN
      BY <2>1 DEF args_keys_paren, FTH_STACK_CHECK, Raise, Ok
    <2>4. LocalsStep(x, i, def.req) = [x EXCEPT !.s = r.s, !.ok = r.ok]
      BY <1>4, <2>1 DEF LocalsStep
    <2>5. [x EXCEPT !.s = r.s, !.ok = r.ok] \in RunState(LocalNames(def))
      BY <2>2, <2>3, RunStateWith
    <2> QED
      BY <2>4, <2>5
  <1>5. CASE x.ok /\ i.op = "(args-optional)"
    <2>1. PICK r : r = args_optional_paren(x.s, i.args, def.req)
      OBVIOUS
    <2>2. r.s \in Stack
      BY <1>1, <1>2, <1>5, <2>1, ArgsOptionalIs
    <2>3. r.ok \in BOOLEAN
      BY <2>1 DEF args_optional_paren, FTH_STACK_CHECK, Raise, Ok
    <2>4. LocalsStep(x, i, def.req) = [x EXCEPT !.s = r.s, !.ok = r.ok]
      BY <1>5, <2>1 DEF LocalsStep
    <2>5. [x EXCEPT !.s = r.s, !.ok = r.ok] \in RunState(LocalNames(def))
      BY <2>2, <2>3, RunStateWith
    <2> QED
      BY <2>4, <2>5
  <1>6. CASE x.ok /\ i.op # "(args-keys)" /\ i.op # "(args-optional)"
    <2>1. PICK env : env = WithLocal(x.env, i.name, ficlStackFetch(x.s, 0))
      OBVIOUS
    <2>2. ficlStackFetch(x.s, 0) \in Cell /\ ficlStackPop(x.s) \in Stack
      BY <1>1, FetchIs, DropIs, 0 \in Int
    <2>3. env \in Envs(LocalNames(def))
      BY <1>1, <1>2, <1>6, <2>1, <2>2, EnvWith
    <2>4. LocalsStep(x, i, def.req) =
             IF StackUnderflow(x.s, 1) THEN [x EXCEPT !.ok = FALSE] ELSE [x EXCEPT !.s = ficlStackPop(x.s), !.env = env]
      BY <1>6, <2>1 DEF LocalsStep
    <2>5. [x EXCEPT !.ok = FALSE] \in RunState(LocalNames(def))
      BY <1>1, RunStateLocal
    <2>6. [x EXCEPT !.s = ficlStackPop(x.s), !.env = env] \in RunState(LocalNames(def))
      BY <2>2, <2>3, RunStateLocal
    <2> QED
      BY <2>4, <2>5, <2>6
  <1> QED
    BY <1>3, <1>4, <1>5, <1>6

\* The code, instruction by instruction.
LocalsIter(start, code, def, g) ==
    g = [t \in SUBSET DOMAIN code |-> IF t = {} THEN start ELSE LocalsStep(g[t \ {Max(t)}], code[Max(t)], def.req)]

\* A word with <{ ... }> leaves a stack.
LEMMA LocalsRunIs ==
    ASSUME NEW s \in Stack, NEW def \in Definitions
    PROVE  RunLocals(s, def).s \in Stack
  <1>0. PICK code \in Seq(Instrs(def)) : code = ficl_extended_args(def)
    BY CodeIs
  <1>a. PICK start : start = [s |-> s, env |-> <<>>, ok |-> TRUE]
    OBVIOUS
  <1>b. start \in RunState(LocalNames(def))
    <2>1. <<>> \in [{} -> Cell] /\ {} \in SUBSET LocalNames(def)
      OBVIOUS
    <2>2. <<>> \in Envs(LocalNames(def))
      BY <2>1 DEF Envs
    <2> QED
      BY <1>a, <2>2 DEF RunState
  <1>1. PICK N \in Nat : N = Len(code) /\ DOMAIN code = 1..N /\ DOMAIN code = 1..N
    OBVIOUS
  <1>2. PICK step : step = [n \in 1..N |-> [x \in RunState(LocalNames(def)) |-> LocalsStep(x, code[n], def.req)]]
    OBVIOUS
  <1>3. step \in [1..N -> [RunState(LocalNames(def)) -> RunState(LocalNames(def))]]
    <2>1. \A n \in 1..N, x \in RunState(LocalNames(def)) : LocalsStep(x, code[n], def.req) \in RunState(LocalNames(def))
      BY <1>1, LocalsStepIs
    <2> QED
      BY <1>2, <2>1
  <1>4. PICK f : FoldIn(start, step, RunState(LocalNames(def)), N, f)
    BY <1>3, <1>b, FoldChosen
  <1>5. /\ f \in [SUBSET (1..N) -> RunState(LocalNames(def))]
        /\ \A t \in SUBSET (1..N) : f[t] = IF t = {} THEN start ELSE step[Max(t)][f[t \ {Max(t)}]]
        /\ \A t \in SUBSET (1..N) : t # {} => Max(t) \in 1..N /\ f[t \ {Max(t)}] \in RunState(LocalNames(def))
    BY <1>4 DEF FoldIn
  <1>6. LocalsIter(start, code, def, f)
    <2>1. \A t \in SUBSET (1..N) :
             f[t] = IF t = {} THEN start ELSE LocalsStep(f[t \ {Max(t)}], code[Max(t)], def.req)
      BY <1>2, <1>5
    <2>2. f = [t \in SUBSET DOMAIN code |->
                 IF t = {} THEN start ELSE LocalsStep(f[t \ {Max(t)}], code[Max(t)], def.req)]
      BY <1>1, <1>5, <2>1
    <2> QED
      BY <2>2 DEF LocalsIter
  <1>7. PICK h : h = (CHOOSE x : LocalsIter(start, code, def, x))
    OBVIOUS
  <1>8. LocalsIter(start, code, def, h)
    BY <1>6, <1>7
  <1>9. RunLocals(s, def) = h[1..N]
    <2>1. RunLocals(s, def) = (CHOOSE x : LocalsIter(start, code, def, x))[DOMAIN code]
      BY <1>0, <1>a DEF RunLocals, FoldLeft, MapThenFoldSet, LocalsIter, LocalsStep
    <2> QED
      BY <1>1, <1>7, <2>1
  <1>10. FoldOf(start, step, RunState(LocalNames(def)), N, h)
    <2>1. \A t \in SUBSET (1..N) :
             h[t] = IF t = {} THEN start ELSE LocalsStep(h[t \ {Max(t)}], code[Max(t)], def.req)
      BY <1>1, <1>8 DEF LocalsIter
    <2>2. h[{}] = start
      BY <2>1
    <2>3. \A t \in SUBSET (1..N) :
             t # {} /\ h[t \ {Max(t)}] \in RunState(LocalNames(def)) => h[t] = step[Max(t)][h[t \ {Max(t)}]]
      BY <1>2, <1>5, <2>1
    <2> QED
      BY <2>2, <2>3 DEF FoldOf
  <1>11. h[1..N] \in RunState(LocalNames(def))
    BY <1>3, <1>b, <1>10, FoldIsIn
  <1> QED
    BY <1>9, <1>11 DEF RunState

-----------------------------------------------------------------------------
(* What a word leaves: the stack, the frames, and what it says it did. *)

\* Untouched cells are on both stacks and the same.
LEMMA UntouchedIs ==
    ASSUME NEW s \in Stack, NEW t \in Stack, InBounds(s), InBounds(t)
    PROVE  /\ Untouched(s, t) \in Nat /\ Untouched(s, t) <= STKDEPTH(t)
           /\ \A j \in 0..(Untouched(s, t) - 1) : t.cells[j] = s.cells[j]
  <1>1. PICK a \in Nat, b \in Nat : a = STKDEPTH(s) /\ b = STKDEPTH(t)
    BY StackParts DEF InBounds
  <1>2. PICK m \in Nat : m = Min({a, b}) /\ m <= b
    <2>1. Min({a, b}) \in {a, b} /\ Min({a, b}) <= b
      BY LesserIs, a \in Int, b \in Int
    <2> QED
      BY <2>1
  <1>3. PICK S : S = {n \in 0..m : \A j \in 0..(n - 1) : t.cells[j] = s.cells[j]}
    OBVIOUS
  <1>4. S \in SUBSET (0..m) /\ 0 \in S
    BY <1>3
  <1>5. Max(S) \in S
    BY <1>4, MaxIs
  <1>6. Untouched(s, t) = Max(S)
    BY <1>1, <1>2, <1>3 DEF Untouched
  <1>7. PICK u : u = Untouched(s, t) /\ u \in S
    BY <1>5, <1>6
  <1>8. u \in 0..m /\ \A j \in 0..(u - 1) : t.cells[j] = s.cells[j]
    BY <1>3, <1>7
  <1>9. u \in Nat /\ u <= b
    BY <1>2, <1>8
  <1> QED
    BY <1>1, <1>7, <1>8, <1>9

\* A frame with another `low' or with more edits.
LEMMA LowWith ==
    ASSUME NEW f \in Frame, NEW low \in Int
    PROVE  /\ [f EXCEPT !.low = low] \in Frame /\ [f EXCEPT !.low = low].i = f.i
           /\ \A hooks, n : Running(f, hooks, n) => Running([f EXCEPT !.low = low], hooks, n)
  BY DEF Frame, Running, Ran

\* What a frame says of the stack below it is so after a word that touches less or more.
LEMMA StaysLow ==
    ASSUME NEW f \in Frame, NEW s \in Stack, NEW t \in Stack, InBounds(s), InBounds(t), Stays(f, s) \/ Stays(f, t)
    PROVE  Stays([f EXCEPT !.low = Min({@, Untouched(s, t)})], t) /\ Min({f.low, Untouched(s, t)}) \in Int
  <1>1. PICK u : u = Untouched(s, t) /\ u \in Nat /\ u <= STKDEPTH(t) /\ \A j \in 0..(u - 1) : t.cells[j] = s.cells[j]
    BY UntouchedIs
  <1>2. f.low \in Int /\ Len(f.below) \in Nat
    BY DEF Frame
  <1>3. PICK low \in Int : low = Min({f.low, u}) /\ low <= f.low /\ low <= u
    <2>1. Min({f.low, u}) \in {f.low, u} /\ Min({f.low, u}) <= f.low /\ Min({f.low, u}) <= u
      BY <1>1, <1>2, LesserIs, u \in Int
    <2> QED
      BY <1>1, <1>2, <2>1
  <1>4. PICK g : g = [f EXCEPT !.low = low]
    OBVIOUS
  <1>5. g.depth = f.depth /\ g.below = f.below /\ g.low = low
    BY <1>4 DEF Frame
  <1>6. f.depth = Len(f.below)
    BY DEF Stays
  <1>7. ASSUME low >= Len(f.below)
        PROVE  Len(f.below) <= STKDEPTH(t) /\ \A j \in 1..Len(f.below) : t.cells[j - 1] = f.below[j]
    <2>1. f.low >= Len(f.below) /\ Len(f.below) <= u
      <3>1. PICK n \in Nat, k \in Int : n = Len(f.below) /\ k = f.low
        BY <1>2
      <3>2. low <= k /\ low <= u /\ low >= n
        BY <1>3, <1>7, <3>1
      <3>3. k >= n /\ n <= u
        BY <1>1, <3>2
      <3> QED
        BY <3>1, <3>3
    <2>2. CASE Stays(f, s)
      <3>1. Len(f.below) <= STKDEPTH(t)
        BY <1>1, <1>2, <2>1, StackParts
      <3>2. \A j \in 1..Len(f.below) : s.cells[j - 1] = f.below[j]
        BY <2>1, <2>2 DEF Stays
      <3>3. \A j \in 1..Len(f.below) : j - 1 \in 0..(u - 1)
        BY <1>1, <1>2, <2>1
      <3> QED
        BY <1>1, <3>1, <3>2, <3>3
    <2>3. CASE Stays(f, t)
      BY <2>1, <2>3 DEF Stays
    <2> QED
      BY <2>2, <2>3
  <1>8. Stays(g, t)
    BY <1>5, <1>6, <1>7 DEF Stays
  <1> QED
    BY <1>1, <1>3, <1>4, <1>8

\* A word that ends: its stack and its frames FS are right, if they are for the stack from before
\* or for the new one.
FramesOn(fs, hooks, s) ==
    \A k \in DOMAIN fs : Running(fs[k], hooks, fs[k].i + 1) /\ (Stays(fs[k], st) \/ Stays(fs[k], s))

\* A word that ends well leaves frames that are right about its stack.
LEMMA EndsIs ==
    ASSUME Stacked, NEW s \in Stack, NEW fs \in Seq(Frame), Len(fs) <= MaxFrames, NEW op, NEW v,
           FramesOn(fs, hook', s), Ends(op, s, fs, v)
    PROVE  Stacked' /\ did' = [op |-> op, ok |-> TRUE, v |-> v] /\ st' = s /\ InBounds(s)
  <1>1. /\ InBounds(s) /\ st' = s /\ sess' = sess /\ sess \in Sessions /\ st \in Stack /\ InBounds(st)
        /\ did' = [op |-> op, ok |-> TRUE, v |-> v]
    BY DEF Ends, Stacked
  <1>2. frames' = [k \in DOMAIN fs |-> [fs[k] EXCEPT !.low = Min({@, Untouched(st, s)})]]
    BY DEF Ends
  <1>3. ASSUME NEW k \in DOMAIN fs
        PROVE  /\ frames'[k] \in Frame /\ Running(frames'[k], hook', frames'[k].i + 1) /\ Stays(frames'[k], s)
    <2>1. PICK f \in Frame : f = fs[k]
      OBVIOUS
    <2>2. Running(f, hook', f.i + 1) /\ (Stays(f, st) \/ Stays(f, s))
      BY <2>1 DEF FramesOn
    <2>3. Stays([f EXCEPT !.low = Min({@, Untouched(st, s)})], s) /\ Min({f.low, Untouched(st, s)}) \in Int
      BY <1>1, <2>2, StaysLow
    <2>4. PICK low \in Int : low = Min({f.low, Untouched(st, s)})
      BY <2>3
    <2>5. frames'[k] = [f EXCEPT !.low = low]
      BY <1>2, <2>1, <2>4
    <2>6. [f EXCEPT !.low = low] \in Frame /\ [f EXCEPT !.low = low].i = f.i
          /\ Running([f EXCEPT !.low = low], hook', f.i + 1)
      BY <2>2, LowWith
    <2>7. Stays([f EXCEPT !.low = low], s)
      BY <2>3, <2>4
    <2> QED
      BY <2>5, <2>6, <2>7
  <1>4. DOMAIN fs = 1..Len(fs) /\ Len(fs) \in Nat
    OBVIOUS
  <1>5. frames' \in Seq(Frame) /\ Len(frames') = Len(fs) /\ DOMAIN frames' = DOMAIN fs
    <2>1. DOMAIN frames' = DOMAIN fs /\ frames' = [k \in 1..Len(fs) |-> frames'[k]]
      BY <1>2, <1>4
    <2>2. \A k \in 1..Len(fs) : frames'[k] \in Frame
      BY <1>3, <1>4
    <2>3. frames' \in Seq(Frame)
      BY <1>4, <2>1, <2>2
    <2> QED
      BY <1>4, <2>1, <2>3
  <1> QED
    BY <1>1, <1>3, <1>5 DEF Stacked

\* A word that raises leaves nothing.
LEMMA RaisesIs ==
    ASSUME Stacked, NEW op, Raises(op)
    PROVE  Stacked' /\ did' = [op |-> op, ok |-> FALSE, v |-> <<>>]
  <1>1. st' = ficlStackReset(st) /\ frames' = <<>> /\ sess' = sess /\ did' = [op |-> op, ok |-> FALSE, v |-> <<>>]
    BY DEF Raises
  <1>2. st' \in Stack /\ InBounds(st')
    BY <1>1, ResetIs DEF Stacked
  <1>3. frames' \in Seq(Frame) /\ Len(frames') = 0 /\ DOMAIN frames' = {}
    BY <1>1
  <1> QED
    BY <1>1, <1>2, <1>3, Constants DEF Stacked

\* Words that say nothing of a proc or a hook that is done.
Quiet(d) == d.op # "hook-done" /\ d.op # "proc-done"

\* They are right about both.
LEMMA QuietIs ==
    ASSUME NEW d, Quiet(d), NEW s
    PROVE  RanOnce(d) /\ Kept(d, s)
  BY DEF Quiet, RanOnce, Kept

\* The words that change only the stack.
LEMMA SameTables ==
    ASSUME Tables, Traced, HooksRight, UNCHANGED <<word, hook, var, sites, remade>>
    PROVE  Tables' /\ Traced' /\ HooksRight'
  BY DEF Tables, Traced, HooksRight

\* A word that only has another stack.
LEMMA HereKeeps ==
    ASSUME ProcInv, NEW s \in Stack, NEW op, NEW v, op # "hook-done" /\ op # "proc-done", Here(op, s, v)
    PROVE  ProcInv'
  <1>1. Ends(op, s, frames, v) /\ UNCHANGED <<word, hook, var, sites, remade>>
    BY DEF Here
  <1>2. Stacked /\ frames \in Seq(Frame) /\ Len(frames) <= MaxFrames /\ FramesOn(frames, hook', s)
    BY <1>1 DEF ProcInv, Stacked, FramesOn
  <1>3. Stacked' /\ did' = [op |-> op, ok |-> TRUE, v |-> v]
    BY <1>1, <1>2, EndsIs
  <1>4. Quiet(did')
    BY <1>3 DEF Quiet
  <1>5. Tables' /\ Traced' /\ HooksRight'
    BY <1>1, SameTables DEF ProcInv
  <1> QED
    BY <1>3, <1>4, <1>5, QuietIs DEF ProcInv

\* A word that raises, and has changed nothing.
LEMMA FailsKeeps ==
    ASSUME ProcInv, NEW op, op # "hook-done" /\ op # "proc-done", Fails(op)
    PROVE  ProcInv'
  <1>1. Raises(op) /\ UNCHANGED <<word, hook, var, sites, remade>>
    BY DEF Fails
  <1>2. Stacked' /\ did' = [op |-> op, ok |-> FALSE, v |-> <<>>]
    BY <1>1, RaisesIs DEF ProcInv
  <1>3. Quiet(did')
    BY <1>2 DEF Quiet
  <1>4. Tables' /\ Traced' /\ HooksRight'
    BY <1>1, SameTables DEF ProcInv
  <1> QED
    BY <1>2, <1>3, <1>4, QuietIs DEF ProcInv

-----------------------------------------------------------------------------
(* The words on the stack. *)

\* What a program of the session uses.
LEMMA SessIs ==
    ASSUME ProcInv
    PROVE  /\ st \in Stack /\ InBounds(st) /\ sess.cells \subseteq Cell /\ sess.args \subseteq Seq(Cell)
           /\ sess.arities \subseteq Arities /\ sess.defs \subseteq Definitions
  BY Constants DEF ProcInv, Stacked

\* A word on its arguments.
LEMMA OnStackKeeps ==
    ASSUME ProcInv, NEW op, op # "hook-done" /\ op # "proc-done", NEW given, NEW r, r.s \in Stack, OnStack(op, given, r)
    PROVE  ProcInv'
  <1>1. CASE r.ok
    BY <1>1, HereKeeps DEF OnStack
  <1>2. CASE ~r.ok
    BY <1>2, FailsKeeps DEF OnStack
  <1> QED
    BY <1>1, <1>2

\* A cell is pushed.
LEMMA PushKeeps == ProcInv /\ Push => ProcInv'
  <1> SUFFICES ASSUME ProcInv, NEW c \in sess.cells, Here("push", ficlStackPush(st, c), <<>>) PROVE ProcInv'
    BY DEF Push
  <1>1. ficlStackPush(st, c) \in Stack
    BY SessIs, PushIs
  <1> QED
    BY <1>1, HereKeeps

\* A cell is dropped.
LEMMA DropKeeps == ProcInv /\ Drop => ProcInv'
  <1> SUFFICES ASSUME ProcInv, Here("drop", ficlStackDrop(st, 1), <<>>) PROVE ProcInv'
    BY DEF Drop
  <1>1. ficlStackDrop(st, 1) \in Stack
    BY SessIs, DropIs, 1 \in Int
  <1> QED
    BY <1>1, HereKeeps

\* get-optkey.
LEMMA GetOptkeyKeeps == ProcInv /\ GetOptkey => ProcInv'
  <1> SUFFICES ASSUME ProcInv, NEW key \in sess.cells, NEW def \in sess.cells,
                      OnStack("get-optkey", [key |-> key, default |-> def],
                              ficl_get_optkey(ficlStackPush(ficlStackPush(st, key), def)))
               PROVE  ProcInv'
    BY DEF GetOptkey
  <1>1. ficlStackPush(st, key) \in Stack
    BY SessIs, PushIs
  <1>2. ficlStackPush(ficlStackPush(st, key), def) \in Stack
    BY <1>1, SessIs, PushIs
  <1>3. ficl_get_optkey(ficlStackPush(ficlStackPush(st, key), def)).s \in Stack
    BY <1>2, OptkeyIs
  <1> QED
    BY <1>3, OnStackKeeps

\* get-optarg.
LEMMA GetOptargKeeps == ProcInv /\ GetOptarg => ProcInv'
  <1> SUFFICES ASSUME ProcInv, NEW req \in 0..2, NEW def \in sess.cells,
                      OnStack("get-optarg", [req |-> req, default |-> def],
                              ficl_get_optarg(ficlStackPush(ficlStackPush(st, INT(req)), def)))
               PROVE  ProcInv'
    BY DEF GetOptarg
  <1>0. INT(req) \in Cell
    BY CellsMade, req \in Int
  <1>1. ficlStackPush(st, INT(req)) \in Stack
    BY <1>0, SessIs, PushIs
  <1>2. ficlStackPush(ficlStackPush(st, INT(req)), def) \in Stack
    BY <1>1, SessIs, PushIs
  <1>3. ficl_get_optarg(ficlStackPush(ficlStackPush(st, INT(req)), def)).s \in Stack
    BY <1>2, OptargIs
  <1> QED
    BY <1>3, OnStackKeeps

\* What C has found is pushed.
LEMMA PushedIs ==
    ASSUME NEW r, r.s \in Stack, r.v \in Cell
    PROVE  Pushed(r).s \in Stack
  <1>1. ficlStackPush(r.s, r.v) \in Stack
    BY PushIs
  <1> QED
    BY <1>1 DEF Pushed, Ok

\* fth_get_optkey.
LEMMA OptkeyCKeeps == ProcInv /\ OptkeyC => ProcInv'
  <1> SUFFICES ASSUME ProcInv, NEW key \in sess.cells, NEW def \in sess.cells,
                      OnStack("get-optkey", [key |-> key, default |-> def], Pushed(fth_get_optkey(st, key, def)))
               PROVE  ProcInv'
    BY DEF OptkeyC
  <1>1. fth_get_optkey(st, key, def).s \in Stack /\ fth_get_optkey(st, key, def).v \in Cell
    BY SessIs, OptkeyCIs
  <1>2. Pushed(fth_get_optkey(st, key, def)).s \in Stack
    BY <1>1, PushedIs
  <1> QED
    BY <1>2, OnStackKeeps

\* fth_get_optarg.
LEMMA OptargCKeeps == ProcInv /\ OptargC => ProcInv'
  <1> SUFFICES ASSUME ProcInv, NEW req \in 0..2, NEW def \in sess.cells,
                      OnStack("get-optarg", [req |-> req, default |-> def], Pushed(fth_get_optarg(st, req, def)))
               PROVE  ProcInv'
    BY DEF OptargC
  <1>1. fth_get_optarg(st, req, def).s \in Stack /\ fth_get_optarg(st, req, def).v \in Cell
    BY SessIs, OptargCIs
  <1>2. Pushed(fth_get_optarg(st, req, def)).s \in Stack
    BY <1>1, PushedIs
  <1> QED
    BY <1>2, OnStackKeeps

\* A definition that a program has.
LEMMA DefIs ==
    ASSUME ProcInv, NEW d \in sess.defs
    PROVE  d \in Definitions /\ d.req \in Nat /\ d.keys \in Seq(Pairs) /\ d.opts \in Seq(Cell)
  <1>1. d \in Definitions
    BY SessIs
  <1> QED
    BY <1>1 DEF Definitions, Pairs

\* get-optkeys.
LEMMA GetOptkeysKeeps == ProcInv /\ GetOptkeysWord => ProcInv'
  <1> SUFFICES ASSUME ProcInv, NEW d \in sess.defs, OnStack("get-optkeys", d, ficl_get_optkeys(st, d.keys, d.req))
               PROVE  ProcInv'
    BY DEF GetOptkeysWord
  <1>1. ficl_get_optkeys(st, d.keys, d.req).s \in Stack
    BY SessIs, DefIs, OptkeysIs
  <1> QED
    BY <1>1, OnStackKeeps

\* get-optargs.
LEMMA GetOptargsKeeps == ProcInv /\ GetOptargs => ProcInv'
  <1> SUFFICES ASSUME ProcInv, NEW d \in sess.defs, OnStack("get-optargs", d, args_optional_paren(st, d.opts, d.req))
               PROVE  ProcInv'
    BY DEF GetOptargs
  <1>1. args_optional_paren(st, d.opts, d.req).s \in Stack
    BY SessIs, DefIs, ArgsOptionalIs
  <1> QED
    BY <1>1, OnStackKeeps

\* A word with <{ ... }> begins.
LEMMA EnterLocalsKeeps == ProcInv /\ EnterLocals => ProcInv'
  <1> SUFFICES ASSUME ProcInv, EnterLocals PROVE ProcInv'
    OBVIOUS
  <1>a. PICK d \in sess.defs : \E r \in {RunLocals(st, d)} :
           IF r.ok THEN Here("locals", r.s, [given |-> d, before |-> ficlStackWalk(st, TRUE), env |-> r.env])
           ELSE Fails("locals")
    BY DEF EnterLocals
  <1>1. PICK r : /\ r = RunLocals(st, d)
                 /\ IF r.ok THEN Here("locals", r.s, [given |-> d, before |-> ficlStackWalk(st, TRUE), env |-> r.env])
                    ELSE Fails("locals")
    BY <1>a
  <1>2. r.s \in Stack
    <2>1. st \in Stack /\ d \in Definitions
      BY SessIs, DefIs
    <2> QED
      BY <1>1, <2>1, LocalsRunIs
  <1>3. CASE r.ok
    BY <1>1, <1>2, <1>3, HereKeeps
  <1>4. CASE ~r.ok
    BY <1>1, <1>4, FailsKeeps
  <1> QED
    BY <1>3, <1>4

\* proc?, thunk?, xt?, word? and proc-arity.
LEMMA AskProcKeeps == ProcInv /\ AskProc => ProcInv'
  <1> SUFFICES ASSUME ProcInv, AskProc PROVE ProcInv'
    OBVIOUS
  <1>1. PICK w \in Words \cup Vars :
           \E c \in {BOOL_TO_FTH(FTH_PROC_P(w)), BOOL_TO_FTH(Thunk(w)), BOOL_TO_FTH(word[w].kind = "word"),
                     BOOL_TO_FTH(FICL_WORD_P(w)), IF FTH_PROC_P(w) THEN CELL("array", 3) ELSE FTH_FALSE} :
              Here("proc?", ficlStackPush(st, c), <<>>)
    BY DEF AskProc
  <1>0. PICK c : /\ c \in {BOOL_TO_FTH(FTH_PROC_P(w)), BOOL_TO_FTH(Thunk(w)), BOOL_TO_FTH(word[w].kind = "word"),
                           BOOL_TO_FTH(FICL_WORD_P(w)), IF FTH_PROC_P(w) THEN CELL("array", 3) ELSE FTH_FALSE}
                 /\ Here("proc?", ficlStackPush(st, c), <<>>)
    BY <1>1
  <1>2. c \in Cell
    BY <1>0, CellsMade, 3 \in Int
  <1>3. ficlStackPush(st, c) \in Stack
    BY <1>2, SessIs, PushIs
  <1> QED
    BY <1>0, <1>3, HereKeeps

-----------------------------------------------------------------------------
(* Running procs. *)

\* The cells of a stack, from the bottom.
LEMMA WalkIs ==
    ASSUME NEW s \in Stack, InBounds(s)
    PROVE  /\ STKDEPTH(s) \in Nat /\ STKDEPTH(s) <= StackSize
           /\ ficlStackWalk(s, TRUE) \in Seq(Cell) /\ Len(ficlStackWalk(s, TRUE)) = STKDEPTH(s)
           /\ \A j \in 1..STKDEPTH(s) : ficlStackWalk(s, TRUE)[j] = s.cells[j - 1]
  <1>1. PICK n \in Nat : n = STKDEPTH(s) /\ n <= StackSize
    BY StackParts DEF InBounds
  <1>2. \A j \in 1..n : s.cells[j - 1] \in Cell
    <2>1. \A j \in 1..n : j - 1 \in 0..(StackSize - 1)
      BY <1>1, StackParts
    <2> QED
      BY <2>1, StackParts
  <1>3. PICK walk : walk = [j \in 1..n |-> s.cells[j - 1]]
    OBVIOUS
  <1>4. ficlStackWalk(s, TRUE) = walk
    BY <1>1, <1>3 DEF ficlStackWalk
  <1>5. walk \in Seq(Cell) /\ Len(walk) = n /\ \A j \in 1..n : walk[j] = s.cells[j - 1]
    BY <1>2, <1>3
  <1> QED
    BY <1>1, <1>4, <1>5

\* The frames below the one that runs.
RestRight(rest) ==
    /\ rest \in Seq(Frame) /\ Len(rest) <= MaxFrames
    /\ \A k \in DOMAIN rest : Running(rest[k], hook, rest[k].i + 1) /\ Stays(rest[k], st)

\* A proc begins: its frame knows what is below its arguments.
LEMMA RunsIs ==
    ASSUME Stacked, UNCHANGED hook, NEW op, NEW w \in Words, NEW f \in Frame, NEW rest, RestRight(rest),
           Running([f EXCEPT !.called = Append(@, w)], hook, f.i + 1),
           NEW s \in Stack, InBounds(s), NEW given \in Seq(Cell), Runs(op, w, f, rest, s, given)
    PROVE  Stacked' /\ did' = [op |-> op, ok |-> TRUE, v |-> <<>>]
  <1>1. PICK t \in Stack : /\ t = Pushes(s, given) /\ t.top = s.top + Len(given)
                           /\ \A j \in DOMAIN s.cells : j <= s.top => t.cells[j] = s.cells[j]
    BY PushesIs
  <1>2. PICK walk \in Seq(Cell) : walk = ficlStackWalk(s, TRUE) /\ Len(walk) = STKDEPTH(s) /\ STKDEPTH(s) <= StackSize
                                  /\ \A j \in 1..STKDEPTH(s) : walk[j] = s.cells[j - 1]
    BY WalkIs
  <1>3. PICK g : g = [f EXCEPT !.depth = STKDEPTH(s), !.called = Append(@, w), !.below = walk, !.low = STKDEPTH(t)]
    OBVIOUS
  <1>4. Len(rest) < MaxFrames /\ Ends(op, t, Append(rest, g), <<>>)
    BY <1>1, <1>2, <1>3 DEF Runs, DepthBefore
  <1>5. g \in Frame /\ g.i = f.i
    <2>1. STKDEPTH(s) \in Int /\ STKDEPTH(t) \in Int
      BY <1>1, StackParts
    <2>2. Append(f.called, w) \in Seq(Words)
      BY DEF Frame
    <2> QED
      BY <1>2, <1>3, <2>1, <2>2 DEF Frame
  <1>6. Running(g, hook, g.i + 1)
    <2>1. PICK e : e = [f EXCEPT !.called = Append(@, w)]
      OBVIOUS
    <2>2. /\ g.kind = e.kind /\ g.hook = e.hook /\ g.got = e.got /\ g.i = e.i /\ g.len = e.len /\ g.start = e.start
          /\ g.args = e.args /\ g.edits = e.edits /\ g.called = e.called /\ e.i = f.i
      BY <1>3, <2>1 DEF Frame
    <2>3. Running(e, hook, g.i + 1)
      BY <2>1, <2>2
    <2> QED
      BY <2>2, <2>3 DEF Running, Ran
  <1>7. Stays(g, t)
    <2>1. g.depth = STKDEPTH(s) /\ g.below = walk
      BY <1>3 DEF Frame
    <2>2. STKDEPTH(s) <= STKDEPTH(t) /\ STKDEPTH(s) \in Int
      <3>1. Len(given) \in Nat /\ STKDEPTH(s) = s.top + 1 /\ STKDEPTH(t) = t.top + 1 /\ s.top \in Int
        BY <1>1, StackParts
      <3> QED
        BY <1>1, <3>1
    <2>3. ASSUME NEW j \in 1..STKDEPTH(s) PROVE t.cells[j - 1] = walk[j]
      <3>1. j - 1 \in DOMAIN s.cells /\ j - 1 <= s.top
        BY <1>2, <2>2, StackParts
      <3> QED
        BY <1>1, <1>2, <3>1
    <2> QED
      BY <1>2, <2>1, <2>2, <2>3 DEF Stays
  <1>8. PICK fs : fs = Append(rest, g)
    OBVIOUS
  <1>9. fs \in Seq(Frame) /\ Len(fs) <= MaxFrames /\ FramesOn(fs, hook', t)
    <2>1. rest \in Seq(Frame) /\ Len(rest) \in Nat
      BY DEF RestRight
    <2>2. fs \in Seq(Frame) /\ Len(fs) = Len(rest) + 1 /\ DOMAIN fs = 1..(Len(rest) + 1)
          /\ fs[Len(rest) + 1] = g /\ \A k \in 1..Len(rest) : fs[k] = rest[k] /\ k \in DOMAIN rest
      BY <1>5, <1>8, <2>1
    <2>3. Len(fs) <= MaxFrames
      BY <1>4, <2>1, <2>2, Constants
    <2>4. ASSUME NEW k \in DOMAIN fs
          PROVE  Running(fs[k], hook', fs[k].i + 1) /\ (Stays(fs[k], st) \/ Stays(fs[k], t))
      <3>1. CASE k = Len(rest) + 1
        BY <1>6, <1>7, <2>2, <3>1
      <3>2. CASE k \in 1..Len(rest)
        BY <2>2, <3>2 DEF RestRight
      <3> QED
        BY <2>1, <2>2, <3>1, <3>2
    <2> QED
      BY <2>2, <2>3, <2>4 DEF FramesOn
  <1> QED
    BY <1>4, <1>8, <1>9, EndsIs

\* fth_proc_apply runs the proc or raises.
LEMMA CallsIs ==
    ASSUME Stacked, UNCHANGED hook, NEW op, NEW w \in Words, NEW a \in Arities, NEW f \in Frame, NEW rest, RestRight(rest),
           Running([f EXCEPT !.called = Append(@, w)], hook, f.i + 1),
           NEW s \in Stack, InBounds(s), Calls(op, w, a, f, rest, s)
    PROVE  Stacked' /\ did'.op = op
  <1>1. CASE a.req > Len(f.args)
    <2>1. Raises(op)
      BY <1>1 DEF Calls
    <2> QED
      BY <2>1, RaisesIs
  <1>2. CASE ~(a.req > Len(f.args))
    <2>1. PICK n : n = Min({Len(f.args), FICL_WORD_LENGTH(a)})
      OBVIOUS
    <2>2. Runs(op, w, f, rest, s, SubSeq(f.args, 1, n))
      BY <1>2, <2>1 DEF Calls
    <2>3. f.args \in Seq(Cell) /\ Len(f.args) \in Nat /\ FICL_WORD_LENGTH(a) \in Nat
      BY DEF Frame, Arities, FICL_WORD_LENGTH
    <2>4. n \in Int /\ n <= Len(f.args)
      <3>1. PICK x \in Int, y \in Int : x = Len(f.args) /\ y = FICL_WORD_LENGTH(a)
        BY <2>3
      <3>2. Min({x, y}) \in {x, y} /\ Min({x, y}) <= x
        BY LesserIs
      <3> QED
        BY <2>1, <3>1, <3>2
    <2>5. SubSeq(f.args, 1, n) \in Seq(Cell)
      BY <2>3, <2>4
    <2>6. Stacked' /\ did' = [op |-> op, ok |-> TRUE, v |-> <<>>]
      BY <2>2, <2>5, RunsIs
    <2> QED
      BY <2>6
  <1> QED
    BY <1>1, <1>2

-----------------------------------------------------------------------------
(* A run of a hook. *)

\* Its results: as many as the hook had procs, or one, or none.
LEMMA HookResultIs ==
    ASSUME Tables, NEW f \in Frame, f.kind # "apply", f.hook \in Hooks, f.kind = "again" => f.args # <<>>
    PROVE  HookResult(f) \in Seq(Cell)
  <1>1. Limit(f) \in Int
    BY DEF Limit, Frame, Tables, HookType
  <1>2. CELL("array", Limit(f)) \in Cell
    BY <1>1, CellsMade
  <1>3. f.kind = "again" => f.args[1] \in Cell
    BY DEF Frame
  <1>4. BOOL_TO_FTH(FTH_FALSE \notin Range(f.got)) \in Cell
    BY CellsMade
  <1>5. PICK a, b, c : a = CELL("array", Limit(f)) /\ b = f.args[1] /\ c = BOOL_TO_FTH(FTH_FALSE \notin Range(f.got))
    OBVIOUS
  <1>6. <<a>> \in Seq(Cell) /\ (f.kind = "again" => <<b>> \in Seq(Cell)) /\ <<c>> \in Seq(Cell) /\ <<>> \in Seq(Cell)
    BY <1>2, <1>3, <1>4, <1>5
  <1> QED
    BY <1>5, <1>6 DEF HookResult

\* What the frame of a run is that has gone through F.i procs.
LEMMA RunOf ==
    ASSUME Tables, NEW f \in Frame, f.kind # "apply", Running(f, hook, f.i)
    PROVE  /\ f.hook \in Hooks /\ f.i \in Nat /\ f.len \in Nat /\ Len(f.got) = f.i /\ f.len = Len(f.start)
           /\ hook[f.hook].procs \in Seq(Words) /\ Len(hook[f.hook].procs) \in Nat
           /\ Limit(f) = IF f.kind \in {"hook", "trace"} THEN f.len ELSE Len(hook[f.hook].procs)
           /\ f.kind \in {"hook", "trace"} => f.i <= f.len
           /\ f.kind = "again" => f.args # <<>>
           /\ "removed" \notin f.edits =>
                 /\ f.i <= Len(hook[f.hook].procs) /\ f.called = SubSeq(hook[f.hook].procs, 1, f.i)
                 /\ f.len <= Len(hook[f.hook].procs) /\ f.start = SubSeq(hook[f.hook].procs, 1, f.len)
  <1>1. /\ f.hook \in Hooks /\ Len(f.got) = f.i /\ f.len = Len(f.start)
        /\ f.kind \in {"hook", "trace"} => f.i <= f.len
        /\ f.kind = "again" => f.args # <<>>
        /\ Ran(f, hook[f.hook].procs, f.i)
    BY DEF Running
  <1>2. f.i \in Nat /\ f.len \in Nat
    BY DEF Frame
  <1>3. hook[f.hook].procs \in Seq(Words) /\ Len(hook[f.hook].procs) \in Nat
    BY <1>1 DEF Tables, HookType
  <1>4. Limit(f) = IF f.kind \in {"hook", "trace"} THEN f.len ELSE Len(hook[f.hook].procs)
    BY DEF Limit
  <1>5. "removed" \notin f.edits =>
           /\ f.i <= Len(hook[f.hook].procs) /\ f.called = SubSeq(hook[f.hook].procs, 1, f.i)
           /\ f.len <= Len(hook[f.hook].procs) /\ f.start = SubSeq(hook[f.hook].procs, 1, f.len)
    BY <1>1 DEF Ran
  <1> QED
    BY <1>1, <1>2, <1>3, <1>4, <1>5

\* The length of two sequences.
LEMMA BothLen ==
    ASSUME NEW a \in Seq(Cell), NEW b \in Seq(Cell)
    PROVE  Len(a \o b) = Len(a) + Len(b)
  OBVIOUS

\* Procs that are gone give #f.
LEMMA PadIs ==
    ASSUME NEW m \in Nat
    PROVE  [k \in 1..m |-> FTH_FALSE] \in Seq(Cell) /\ Len([k \in 1..m |-> FTH_FALSE]) = m
  <1>1. PICK c \in Cell : c = FTH_FALSE
    BY CellsMade
  <1>2. [k \in 1..m |-> c] \in Seq(Cell) /\ Len([k \in 1..m |-> c]) = m
    OBVIOUS
  <1> QED
    BY <1>1, <1>2

\* It is done: it has called those it had at the beginning.
LEMMA RunDone ==
    ASSUME Tables, NEW f \in Frame, f.kind # "apply", Running(f, hook, f.i),
           ~(f.i < Limit(f) /\ f.i < Len(hook[f.hook].procs)), NEW s, NEW d, NEW end,
           end = [f EXCEPT !.got = @ \o [k \in 1..Max({0, Limit(f) - f.i}) |-> FTH_FALSE]],
           d = [op |-> "hook-done", ok |-> TRUE, v |-> [frame |-> end, s |-> s]]
    PROVE  RanOnce(d)
  <1>1. PICK procs \in Seq(Words), i \in Nat, len \in Nat, N \in Nat :
           procs = hook[f.hook].procs /\ i = f.i /\ len = f.len /\ N = Len(procs)
    BY RunOf
  <1>2. /\ end.kind = f.kind /\ end.len = len /\ end.called = f.called /\ end.start = f.start /\ end.edits = f.edits
        /\ end.got = f.got \o [k \in 1..Max({0, Limit(f) - f.i}) |-> FTH_FALSE]
    BY <1>1 DEF Frame
  <1>3. /\ f.kind \in {"hook", "trace"} => Limit(f) = len /\ i <= len
        /\ f.kind \notin {"hook", "trace"} => Limit(f) = N
    BY <1>1, RunOf
  <1>4. "removed" \notin f.edits =>
           i <= N /\ f.called = SubSeq(procs, 1, i) /\ len <= N /\ f.start = SubSeq(procs, 1, len)
    BY <1>1, RunOf
  <1>5. ~(i < Limit(f) /\ i < N)
    BY <1>1
  <1>6. ASSUME "removed" \notin end.edits
        PROVE  /\ end.kind \in {"hook", "trace"} => Len(end.called) = end.len
               /\ end.len <= Len(end.called) /\ SubSeq(end.called, 1, end.len) = end.start
    <2>1. i <= N /\ f.called = SubSeq(procs, 1, i) /\ len <= N /\ f.start = SubSeq(procs, 1, len)
      BY <1>2, <1>4, <1>6
    <2>2. len <= i /\ (f.kind \in {"hook", "trace"} => i = len)
      <3>1. CASE f.kind \in {"hook", "trace"}
        <4>1. Limit(f) = len /\ i <= len
          BY <1>3, <3>1
        <4>2. ~(i < len /\ i < N)
          BY <1>5, <4>1
        <4> QED
          BY <2>1, <4>1, <4>2
      <3>2. CASE f.kind \notin {"hook", "trace"}
        <4>1. ~(i < N)
          BY <1>3, <1>5, <3>2
        <4> QED
          BY <2>1, <3>2, <4>1
      <3> QED
        BY <3>1, <3>2
    <2>3. Len(SubSeq(procs, 1, i)) = i
      BY <1>1, <2>1
    <2>4. SubSeq(SubSeq(procs, 1, i), 1, len) = SubSeq(procs, 1, len)
      BY <1>1, <2>1, <2>2
    <2> QED
      BY <1>2, <2>1, <2>2, <2>3, <2>4
  <1>7. end.kind \in {"hook", "trace"} => Len(end.got) = end.len
    <2> SUFFICES ASSUME end.kind \in {"hook", "trace"} PROVE Len(end.got) = end.len
      OBVIOUS
    <2>1. Limit(f) = len /\ i <= len /\ Len(f.got) = i
      BY <1>1, <1>2, <1>3, RunOf
    <2>2. PICK m \in Nat : m = len - i
      BY <2>1
    <2>3. Max({0, Limit(f) - f.i}) = m
      <3>1. {0, Limit(f) - f.i} = {0, m}
        BY <1>1, <2>1, <2>2
      <3>2. {0, m} \in SUBSET (0..m) /\ {0, m} # {} /\ m \in {0, m}
        OBVIOUS
      <3>3. PICK x : x = Max({0, m}) /\ x \in {0, m} /\ \A y \in {0, m} : y <= x
        BY <3>2, MaxIs
      <3>4. x = m
        BY <3>3
      <3> QED
        BY <3>1, <3>3, <3>4
    <2>4. PICK pad : pad = [k \in 1..m |-> FTH_FALSE]
      OBVIOUS
    <2>5. pad \in Seq(Cell) /\ Len(pad) = m
      BY <2>4, PadIs
    <2>6. end.got = f.got \o pad
      BY <1>2, <2>3, <2>4
    <2>7. f.got \in Seq(Cell)
      BY DEF Frame
    <2>8. PICK got \in Seq(Cell) : got = f.got /\ Len(got) = i
      BY <2>1, <2>7
    <2>9. Len(got \o pad) = i + m
      <3>1. Len(got \o pad) = Len(got) + Len(pad)
        BY <2>5, BothLen
      <3> QED
        BY <2>5, <2>8, <3>1
    <2>10. i + m = len
      BY <2>2
    <2>11. end.got = got \o pad /\ end.len = len
      BY <1>2, <2>6, <2>8
    <2> QED
      BY <2>9, <2>10, <2>11
  <1>9. OnceOf(end)
    BY <1>6, <1>7 DEF OnceOf
  <1>8. d.op = "hook-done" /\ d.v.frame = end
    OBVIOUS
  <1> QED
    BY <1>8, <1>9 DEF RanOnce

\* A run goes on with the next proc or is done.
LEMMA ContinuesIs ==
    ASSUME Tables, Stacked, UNCHANGED hook, NEW op, op # "hook-done" /\ op # "proc-done",
           NEW f \in Frame, f.kind # "apply", Running(f, hook, f.i), NEW rest, RestRight(rest),
           NEW s \in Stack, InBounds(s),
           f.called # <<>> /\ f.low >= Len(f.below) => ficlStackWalk(s, TRUE) = f.below, Continues(op, f, rest, s)
    PROVE  Stacked' /\ RanOnce(did') /\ Kept(did', st')
  <1>1. PICK procs \in Seq(Words), i \in Nat, len \in Nat, N \in Nat :
           procs = hook[f.hook].procs /\ i = f.i /\ len = f.len /\ N = Len(procs) /\ f.hook \in Hooks
    BY RunOf
  <1>2. CASE f.i < Limit(f) /\ f.i < Len(procs)
    <2>1. PICK w \in Words : w = procs[f.i + 1]
      BY <1>1, <1>2
    <2>2. Calls(op, w, Arity(w), f, rest, s)
      BY <1>1, <1>2, <2>1 DEF Continues
    <2>3. Arity(w) \in Arities
      BY DEF Tables, WordType, Arity
    <2>4. Running([f EXCEPT !.called = Append(@, w)], hook, f.i + 1)
      <3>1. PICK g : g = [f EXCEPT !.called = Append(@, w)]
        OBVIOUS
      <3>2. /\ g.kind = f.kind /\ g.hook = f.hook /\ g.got = f.got /\ g.i = i /\ g.len = len /\ g.start = f.start
            /\ g.args = f.args /\ g.edits = f.edits /\ g.called = Append(f.called, w)
        BY <1>1, <3>1 DEF Frame
      <3>3. f.kind \in {"hook", "trace"} => i + 1 <= len
        BY <1>1, <1>2 DEF Limit
      <3>4. /\ Len(f.got) = i /\ len = Len(f.start) /\ hook[f.hook].made /\ (f.kind = "again" => f.args # <<>>)
        BY <1>1 DEF Running
      <3>5. Ran(g, procs, i + 1)
        <4> SUFFICES ASSUME "removed" \notin f.edits
                     PROVE  /\ i + 1 <= N /\ Append(f.called, w) = SubSeq(procs, 1, i + 1)
                            /\ Len(f.start) <= N /\ f.start = SubSeq(procs, 1, Len(f.start))
          BY <1>1, <3>2 DEF Ran
        <4>1. f.called = SubSeq(procs, 1, i) /\ len <= N /\ f.start = SubSeq(procs, 1, len)
          BY <1>1, RunOf
        <4>2. i + 1 <= N /\ w = procs[i + 1]
          BY <1>1, <1>2, <2>1
        <4>3. Append(SubSeq(procs, 1, i), procs[i + 1]) = SubSeq(procs, 1, i + 1)
          BY <1>1, <4>2
        <4> QED
          BY <3>4, <4>1, <4>2, <4>3
      <3>6. Running(g, hook, i + 1)
        BY <1>1, <3>2, <3>3, <3>4, <3>5 DEF Running
      <3> QED
        BY <1>1, <3>1, <3>6
    <2>5. Stacked' /\ did'.op = op
      BY <2>2, <2>3, <2>4, CallsIs
    <2>6. Quiet(did')
      BY <2>5 DEF Quiet
    <2> QED
      BY <2>5, <2>6, QuietIs
  <1>3. CASE ~(f.i < Limit(f) /\ f.i < Len(procs))
    <2>1. PICK end : end = [f EXCEPT !.got = @ \o [k \in 1..Max({0, Limit(f) - f.i}) |-> FTH_FALSE]]
      OBVIOUS
    <2>2. Ends("hook-done", Pushes(s, HookResult(end)), rest, [frame |-> end, s |-> s])
      BY <1>1, <1>3, <2>1 DEF Continues
    <2>3. end \in Frame /\ end.kind = f.kind /\ end.hook = f.hook /\ end.args = f.args /\ end.called = f.called
          /\ end.low = f.low /\ end.below = f.below
      <3>1. Max({0, Limit(f) - f.i}) \in Nat
        <4>1. PICK x \in Int : x = Limit(f) - f.i
          BY <1>1, RunOf
        <4>2. CASE x <= 0
          <5>1. \E y \in {0, x} : \A z \in {0, x} : y >= z
            BY <4>2
          <5>2. Max({0, x}) \in {0, x} /\ \A z \in {0, x} : Max({0, x}) >= z
            BY <5>1 DEF Max
          <5> QED
            BY <4>1, <4>2, <5>2
        <4>3. CASE x > 0
          <5>1. \E y \in {0, x} : \A z \in {0, x} : y >= z
            BY <4>3
          <5>2. Max({0, x}) \in {0, x} /\ \A z \in {0, x} : Max({0, x}) >= z
            BY <5>1 DEF Max
          <5> QED
            BY <4>1, <4>3, <5>2
        <4> QED
          BY <4>2, <4>3
      <3>2. PICK pad : pad = [k \in 1..Max({0, Limit(f) - f.i}) |-> FTH_FALSE]
        OBVIOUS
      <3>3. pad \in Seq(Cell)
        BY <3>1, <3>2, PadIs
      <3>4. f.got \o pad \in Seq(Cell)
        BY <3>3 DEF Frame
      <3>5. PICK got \in Seq(Cell) : got = f.got \o pad
        BY <3>4
      <3>6. end = [f EXCEPT !.got = got]
        BY <2>1, <3>2, <3>5
      <3> QED
        BY <3>6 DEF Frame
    <2>4. HookResult(end) \in Seq(Cell)
      BY <1>1, <2>3, HookResultIs, RunOf
    <2>5. Pushes(s, HookResult(end)) \in Stack
      BY <2>4, PushesIs
    <2>6. rest \in Seq(Frame) /\ Len(rest) <= MaxFrames /\ FramesOn(rest, hook', Pushes(s, HookResult(end)))
      BY DEF RestRight, FramesOn
    <2>7. Stacked' /\ did' = [op |-> "hook-done", ok |-> TRUE, v |-> [frame |-> end, s |-> s]]
      BY <2>2, <2>5, <2>6, EndsIs
    <2>8. RanOnce(did')
      BY <1>1, <1>3, <2>1, <2>7, RunDone
    <2>9. Kept(did', st')
      <3>1. did'.op = "hook-done" /\ did'.v.frame = end /\ did'.v.s = s
        BY <2>7
      <3> QED
        BY <2>3, <3>1 DEF Kept
    <2> QED
      BY <2>7, <2>8, <2>9
  <1> QED
    BY <1>2, <1>3

-----------------------------------------------------------------------------
(* A proc returns. *)

\* Sequences of cells.
LEMMA SameCells ==
    ASSUME NEW a \in Seq(Cell), NEW b \in Seq(Cell), Len(a) = Len(b), \A j \in 1..Len(a) : a[j] = b[j]
    PROVE  a = b
  <1>1. a = [j \in 1..Len(a) |-> a[j]] /\ b = [j \in 1..Len(b) |-> b[j]]
    OBVIOUS
  <1> QED
    BY <1>1

\* Its first cell is another one.
LEMMA FirstIs ==
    ASSUME NEW a \in Seq(Cell), NEW c \in Cell
    PROVE  [a EXCEPT ![1] = c] \in Seq(Cell) /\ (a # <<>> => [a EXCEPT ![1] = c] # <<>>)
  <1>1. PICK n \in Nat : n = Len(a) /\ DOMAIN a = 1..n
    OBVIOUS
  <1>2. PICK b : b = [a EXCEPT ![1] = c]
    OBVIOUS
  <1>3. DOMAIN b = 1..n /\ \A j \in 1..n : b[j] \in Cell
    BY <1>1, <1>2
  <1>4. b = [j \in 1..n |-> b[j]]
    BY <1>1, <1>2
  <1>5. b \in Seq(Cell)
    BY <1>3, <1>4
  <1>6. a # <<>> => b # <<>>
    <2> SUFFICES ASSUME a # <<>> PROVE b # <<>>
      OBVIOUS
    <2>1. 1 \in 1..n
      BY <1>1
    <2>2. 1 \in DOMAIN b
      BY <1>3, <2>1
    <2> QED
      BY <2>2
  <1> QED
    BY <1>2, <1>5, <1>6

\* All but the last.
LEMMA FrontIs ==
    ASSUME NEW a \in Seq(Cell), NEW n \in Nat, Len(a) = n + 1
    PROVE  Front(a) \in Seq(Cell) /\ Len(Front(a)) = n /\ \A j \in 1..n : Front(a)[j] = a[j]
  <1>1. Len(a) - 1 = n
    OBVIOUS
  <1>2. Front(a) = SubSeq(a, 1, n)
    BY <1>1 DEF Front
  <1>3. SubSeq(a, 1, n) \in Seq(Cell) /\ Len(SubSeq(a, 1, n)) = n /\ \A j \in 1..n : SubSeq(a, 1, n)[j] = a[j]
    OBVIOUS
  <1> QED
    BY <1>2, <1>3

\* The frame that runs, and those below it.
LEMMA LastFrame ==
    ASSUME Stacked, frames # <<>>
    PROVE  /\ Last(frames) \in Frame /\ Running(Last(frames), hook, Last(frames).i + 1) /\ Stays(Last(frames), st)
           /\ RestRight(Front(frames))
  <1>1. PICK n \in Nat : n = Len(frames) /\ n > 0 /\ frames \in Seq(Frame) /\ n <= MaxFrames
    BY DEF Stacked
  <1>2. n \in DOMAIN frames /\ Last(frames) = frames[n]
    BY <1>1 DEF Last
  <1>3. PICK m \in Nat : m = n - 1
    BY <1>1
  <1>4. Front(frames) \in Seq(Frame) /\ Len(Front(frames)) = m /\ \A k \in 1..m : Front(frames)[k] = frames[k]
    BY <1>1, <1>3 DEF Front
  <1>5. \A k \in DOMAIN Front(frames) : Front(frames)[k] = frames[k] /\ k \in DOMAIN frames
    BY <1>1, <1>3, <1>4
  <1>6. m <= MaxFrames
    BY <1>1, <1>3, Constants
  <1>7. RestRight(Front(frames))
    BY <1>4, <1>5, <1>6 DEF RestRight, Stacked
  <1> QED
    BY <1>2, <1>7 DEF Stacked

\* Its result is taken off the stack, down to where its arguments were.
LEMMA ResultIs ==
    ASSUME NEW f \in Frame, NEW s \in Stack, InBounds(s), Stays(f, s)
    PROVE  /\ Result(s, f.depth).s \in Stack /\ Result(s, f.depth).v \in Cell /\ InBounds(Result(s, f.depth).s)
           /\ f.low >= Len(f.below) => ficlStackWalk(Result(s, f.depth).s, TRUE) = f.below
  <1>a. f.below \in Seq(Cell) /\ Len(f.below) \in Nat /\ f.depth = Len(f.below)
    BY DEF Frame, Stays
  <1>1. PICK below \in Seq(Cell), len \in Nat, top \in Int :
           below = f.below /\ len = Len(below) /\ f.depth = len /\ top = s.top
    BY <1>a, StackParts
  <1>2. STKDEPTH(s) = top + 1 /\ top + 1 \in 0..StackSize /\ StackSize \in Nat
    BY <1>1, StackParts DEF InBounds
  <1>3. PICK n \in Int : n = STKDEPTH(s) - f.depth /\ n = top + 1 - len
    BY <1>1, <1>2
  <1>4. PICK r : r = Result(s, f.depth)
    OBVIOUS
  <1>5. \A n1 \in Int : ficlStackFetch(s, 0) \in Cell /\ CELL("array", n1) \in Cell /\ FTH_FALSE \in Cell
    BY FetchIs, CellsMade, 0 \in Int
  <1>6. r.s \in Stack /\ r.v \in Cell /\ r.s.cells = s.cells
        /\ (n <= 0 => r.s = s) /\ (n > 0 => r.s.top + 1 = len)
    <2>1. CASE n <= 0
      <3>1. r = [s |-> s, v |-> FTH_FALSE]
        BY <1>3, <1>4, <2>1 DEF Result
      <3> QED
        BY <1>5, <2>1, <3>1
    <2>2. CASE n > 0
      <3>1. r = [s |-> ficlStackDrop(s, n), v |-> IF n = 1 THEN ficlStackFetch(s, 0) ELSE CELL("array", n)]
        BY <1>3, <1>4, <2>2 DEF Result
      <3>2. ficlStackDrop(s, n) \in Stack /\ ficlStackDrop(s, n).cells = s.cells /\ ficlStackDrop(s, n).top = top - n
        BY <1>1, <2>2, DropIs
      <3>3. (top - n) + 1 = len
        BY <1>3
      <3>4. r.v \in Cell
        BY <1>5, <3>1
      <3> QED
        BY <2>2, <3>1, <3>2, <3>3, <3>4
    <2> QED
      BY <2>1, <2>2
  <1>7. InBounds(r.s)
    <2>1. CASE n <= 0
      BY <1>6, <2>1
    <2>2. CASE n > 0
      <3>1. r.s.top + 1 = len /\ len \in 0..StackSize
        BY <1>2, <1>3, <1>6, <2>2
      <3>2. r.s.size = StackSize
        BY <1>6, StackParts
      <3> QED
        BY <3>1, <3>2 DEF InBounds, STKDEPTH
    <2> QED
      BY <2>1, <2>2
  <1>8. ASSUME f.low >= len PROVE ficlStackWalk(r.s, TRUE) = below
    <2>1. len <= STKDEPTH(s) /\ \A j \in 1..len : s.cells[j - 1] = below[j]
      BY <1>1, <1>8 DEF Stays
    <2>2. STKDEPTH(r.s) = len
      <3>1. CASE n <= 0
        BY <1>2, <1>3, <1>6, <2>1, <3>1
      <3>2. CASE n > 0
        BY <1>6, <3>2 DEF STKDEPTH
      <3> QED
        BY <3>1, <3>2
    <2>3. PICK walk \in Seq(Cell) : /\ walk = ficlStackWalk(r.s, TRUE) /\ Len(walk) = len
                                    /\ \A j \in 1..len : walk[j] = r.s.cells[j - 1]
      BY <1>6, <1>7, <2>2, WalkIs
    <2>4. \A j \in 1..len : walk[j] = below[j]
      BY <1>6, <2>1, <2>3
    <2>5. walk = below
      BY <1>1, <2>3, <2>4, SameCells
    <2> QED
      BY <2>3, <2>5
  <1> QED
    BY <1>1, <1>4, <1>6, <1>7, <1>8

\* One value is pushed: the others are those of before.
LEMMA FrontOfPush ==
    ASSUME NEW s \in Stack, InBounds(s), NEW c \in Cell, InBounds(ficlStackPush(s, c))
    PROVE  Front(ficlStackWalk(ficlStackPush(s, c), TRUE)) = ficlStackWalk(s, TRUE)
  <1>1. PICK t \in Stack : /\ t = ficlStackPush(s, c) /\ t.top = s.top + 1 /\ InBounds(t)
                           /\ \A j \in DOMAIN s.cells : j <= s.top => t.cells[j] = s.cells[j]
    BY PushIs
  <1>2. PICK n \in Nat, a \in Seq(Cell) : /\ n = STKDEPTH(s) /\ n <= StackSize /\ a = ficlStackWalk(s, TRUE)
                                          /\ Len(a) = n /\ \A j \in 1..n : a[j] = s.cells[j - 1]
    BY WalkIs
  <1>3. PICK b \in Seq(Cell) : /\ b = ficlStackWalk(t, TRUE) /\ Len(b) = STKDEPTH(t)
                               /\ \A j \in 1..STKDEPTH(t) : b[j] = t.cells[j - 1]
    BY <1>1, WalkIs
  <1>4. STKDEPTH(t) = n + 1
    BY <1>1, <1>2, StackParts DEF STKDEPTH
  <1>5. \A j \in 1..n : b[j] = a[j]
    <2> SUFFICES ASSUME NEW j \in 1..n PROVE b[j] = a[j]
      OBVIOUS
    <2>1. j - 1 \in DOMAIN s.cells /\ j - 1 <= s.top
      BY <1>2, StackParts
    <2>2. j \in 1..STKDEPTH(t)
      BY <1>4
    <2> QED
      BY <1>1, <1>2, <1>3, <2>1, <2>2
  <1>6. Front(b) = a
    <2>1. Len(b) = n + 1
      BY <1>3, <1>4
    <2>2. Front(b) \in Seq(Cell) /\ Len(Front(b)) = n /\ \A j \in 1..n : Front(b)[j] = b[j]
      BY <2>1, FrontIs
    <2> QED
      BY <1>2, <1>5, <2>2, SameCells
  <1> QED
    BY <1>1, <1>2, <1>3, <1>6

\* A run has the result of its proc.
LEMMA WentIs ==
    ASSUME NEW f \in Frame, f.kind # "apply", NEW hooks, Running(f, hooks, f.i + 1), NEW v \in Cell
    PROVE  /\ Went(f, v) \in Frame /\ Went(f, v).kind = f.kind /\ Went(f, v).hook = f.hook
           /\ Went(f, v).called = f.called /\ Went(f, v).low = f.low /\ Went(f, v).below = f.below
           /\ Running(Went(f, v), hooks, Went(f, v).i)
  <1>1. PICK args \in Seq(Cell) : /\ args = IF f.kind = "again" THEN [f.args EXCEPT ![1] = v] ELSE f.args
                                  /\ f.kind = "again" => args # <<>>
    <2>1. f.args \in Seq(Cell) /\ (f.kind = "again" => f.args # <<>>)
      BY DEF Frame, Running
    <2>2. [f.args EXCEPT ![1] = v] \in Seq(Cell) /\ (f.args # <<>> => [f.args EXCEPT ![1] = v] # <<>>)
      BY <2>1, FirstIs
    <2> QED
      BY <2>1, <2>2
  <1>2. PICK got \in Seq(Cell), i \in Nat : got = Append(f.got, v) /\ i = f.i + 1 /\ (Len(f.got) = f.i => Len(got) = i)
    <2>1. f.got \in Seq(Cell) /\ f.i \in Nat
      BY DEF Frame
    <2>2. Append(f.got, v) \in Seq(Cell) /\ Len(Append(f.got, v)) = Len(f.got) + 1 /\ f.i + 1 \in Nat
      BY <2>1
    <2> QED
      BY <2>2
  <1>3. PICK g : g = Went(f, v)
    OBVIOUS
  <1>4. g = [f EXCEPT !.i = i, !.got = got, !.args = args]
    BY <1>1, <1>2, <1>3 DEF Went
  <1>5. /\ g \in Frame /\ g.kind = f.kind /\ g.hook = f.hook /\ g.called = f.called /\ g.low = f.low /\ g.below = f.below
        /\ g.len = f.len /\ g.start = f.start /\ g.edits = f.edits /\ g.i = i /\ g.got = got /\ g.args = args
    BY <1>4 DEF Frame
  <1>6. Running(g, hooks, g.i)
    BY <1>1, <1>2, <1>5 DEF Running, Ran
  <1> QED
    BY <1>3, <1>5, <1>6

\* A proc comes back: its caller has its value, and a run goes on with the next proc.
LEMMA ReturnKeeps == ProcInv /\ Return => ProcInv'
  <1> SUFFICES ASSUME ProcInv, Return PROVE ProcInv'
    OBVIOUS
  <1>1. PICK f, rest, r : /\ f = Last(frames) /\ rest = Front(frames) /\ r = Result(st, f.depth) /\ frames # <<>>
           /\ IF f.kind = "apply" THEN Ends("proc-done", ficlStackPush(r.s, r.v), rest, [frame |-> f, s |-> r.s])
              ELSE Continues("hook-next", Went(f, r.v), rest, r.s)
    BY DEF Return
  <1>2. UNCHANGED <<word, hook, var, sites, remade>>
    BY DEF Return
  <1>3. Tables' /\ Traced' /\ HooksRight'
    BY <1>2, SameTables DEF ProcInv
  <1>4. Tables /\ Stacked /\ st \in Stack /\ InBounds(st)
    BY DEF ProcInv, Stacked
  <1>5. f \in Frame /\ Running(f, hook, f.i + 1) /\ Stays(f, st) /\ RestRight(rest)
    BY <1>1, <1>4, LastFrame
  <1>6. r.s \in Stack /\ r.v \in Cell /\ InBounds(r.s) /\ (f.low >= Len(f.below) => ficlStackWalk(r.s, TRUE) = f.below)
    BY <1>1, <1>4, <1>5, ResultIs
  <1>7. CASE f.kind = "apply"
    <2>1. PICK t \in Stack : t = ficlStackPush(r.s, r.v)
      BY <1>6, PushIs
    <2>2. Ends("proc-done", t, rest, [frame |-> f, s |-> r.s])
      BY <1>1, <1>7, <2>1
    <2>3. rest \in Seq(Frame) /\ Len(rest) <= MaxFrames /\ FramesOn(rest, hook', t)
      BY <1>2, <1>5 DEF RestRight, FramesOn
    <2>4. Stacked' /\ did' = [op |-> "proc-done", ok |-> TRUE, v |-> [frame |-> f, s |-> r.s]] /\ st' = t /\ InBounds(t)
      BY <1>4, <2>2, <2>3, EndsIs
    <2>5. Front(ficlStackWalk(t, TRUE)) = ficlStackWalk(r.s, TRUE)
      BY <1>6, <2>1, <2>4, FrontOfPush
    <2>6. did'.op = "proc-done" /\ did'.v.frame = f
      BY <2>4
    <2>7. RanOnce(did') /\ Kept(did', st')
      BY <1>6, <2>4, <2>5, <2>6 DEF RanOnce, Kept
    <2> QED
      BY <1>3, <2>4, <2>7 DEF ProcInv
  <1>8. CASE f.kind # "apply"
    <2>1. PICK g : g = Went(f, r.v)
      OBVIOUS
    <2>2. g \in Frame /\ g.kind # "apply" /\ Running(g, hook, g.i) /\ g.called = f.called /\ g.low = f.low
          /\ g.below = f.below
      BY <1>5, <1>6, <1>8, <2>1, WentIs
    <2>3. Continues("hook-next", g, rest, r.s)
      BY <1>1, <1>8, <2>1
    <2>4. Stacked' /\ RanOnce(did') /\ Kept(did', st')
      BY <1>2, <1>4, <1>5, <1>6, <2>2, <2>3, ContinuesIs
    <2> QED
      BY <1>3, <2>4 DEF ProcInv
  <1> QED
    BY <1>7, <1>8

-----------------------------------------------------------------------------
(* The words that make and run procs, and those that run hooks. *)

\* Only words of the program are words or procs.
LEMMA IsWord ==
    ASSUME ProcInv, NEW w \in Words \cup Vars, FICL_WORD_P(w)
    PROVE  w \in Words
  BY DEF ProcInv, Traced, FICL_WORD_P

\* The arity of a word.
LEMMA ArityIs ==
    ASSUME Tables, NEW w \in Words
    PROVE  Arity(w) \in Arities
  BY DEF Tables, WordType, Arity

\* A word becomes a proc: the hooks that have it and its old arity are those of `remade'.
LEMMA MadeProc ==
    ASSUME Tables, Traced, HooksRight, NEW w \in Words, NEW a \in Arities, word' = fth_make_proc(word, w, a),
           UNCHANGED <<hook, var, sites>>, remade \subseteq remade', FTH_PROC_P(w) /\ Arity(w) # a => w \in remade'
    PROVE  Tables' /\ Traced' /\ HooksRight'
  <1>1. word' = [word EXCEPT ![w] = [kind |-> "proc", arity |-> a]]
    BY DEF fth_make_proc
  <1>2. word \in [Words \cup Vars -> WordType] /\ [kind |-> "proc", arity |-> a] \in WordType
    BY DEF Tables, WordType
  <1>3. word' \in [Words \cup Vars -> WordType]
    BY <1>1, <1>2
  <1>4. word'[w] = [kind |-> "proc", arity |-> a] /\ \A x \in Words \cup Vars : x # w => word'[x] = word[x]
    BY <1>1, <1>2
  <1>5. Traced'
    <2>1. w \notin Vars
      BY Constants
    <2>2. \A v \in Vars : word'[v] = word[v]
      BY <1>4, <2>1
    <2>3. \A x \in Words : word'[x].kind \in {"word", "proc"}
      BY <1>4 DEF Traced
    <2> QED
      BY <2>2, <2>3 DEF Traced
  <1>6. HooksRight'
    <2> SUFFICES ASSUME NEW h \in Hooks
                 PROVE  /\ ~hook[h].made => hook[h].procs = <<>>
                        /\ \A k \in DOMAIN hook[h].procs : hook[h].procs[k] \in remade' \/
                              (word'[hook[h].procs[k]].kind = "proc" /\ word'[hook[h].procs[k]].arity = hook[h].arity)
      BY DEF HooksRight
    <2>1. ~hook[h].made => hook[h].procs = <<>>
      BY DEF HooksRight
    <2>2. ASSUME NEW k \in DOMAIN hook[h].procs
          PROVE  hook[h].procs[k] \in remade' \/
                    (word'[hook[h].procs[k]].kind = "proc" /\ word'[hook[h].procs[k]].arity = hook[h].arity)
      <3>1. PICK p \in Words : p = hook[h].procs[k]
        BY DEF Tables, HookType
      <3>2. p \in remade \/ (word[p].kind = "proc" /\ word[p].arity = hook[h].arity)
        BY <3>1 DEF HooksRight
      <3>3. CASE p # w
        BY <1>4, <3>1, <3>2, <3>3
      <3>4. CASE p = w
        <4>1. FTH_PROC_P(w) <=> word[w].kind = "proc"
          BY DEF FTH_PROC_P
        <4>2. Arity(w) = word[w].arity
          BY DEF Arity
        <4> QED
          BY <1>4, <3>1, <3>2, <3>4, <4>1, <4>2
      <3> QED
        BY <3>3, <3>4
    <2> QED
      BY <2>1, <2>2
  <1>7. Tables'
    BY <1>3 DEF Tables
  <1> QED
    BY <1>5, <1>6, <1>7

\* A word that leaves the stack and the frames.
LEMMA StaysKeeps ==
    ASSUME ProcInv, NEW op, op # "hook-done" /\ op # "proc-done", Ends(op, st, frames, <<>>), UNCHANGED hook
    PROVE  Stacked' /\ RanOnce(did') /\ Kept(did', st')
  <1>1. Stacked /\ st \in Stack /\ frames \in Seq(Frame) /\ Len(frames) <= MaxFrames /\ FramesOn(frames, hook', st)
    BY DEF ProcInv, Stacked, FramesOn
  <1>2. Stacked' /\ did' = [op |-> op, ok |-> TRUE, v |-> <<>>]
    BY <1>1, EndsIs
  <1>3. Quiet(did')
    BY <1>2 DEF Quiet
  <1> QED
    BY <1>2, <1>3, QuietIs

\* The same for a word that raises.
LEMMA RaisesKeeps ==
    ASSUME ProcInv, NEW op, op # "hook-done" /\ op # "proc-done", Raises(op)
    PROVE  Stacked' /\ RanOnce(did') /\ Kept(did', st')
  <1>1. Stacked' /\ did' = [op |-> op, ok |-> FALSE, v |-> <<>>]
    BY RaisesIs DEF ProcInv
  <1>2. Quiet(did')
    BY <1>1 DEF Quiet
  <1> QED
    BY <1>1, <1>2, QuietIs

\* A word becomes a proc, or has another arity.
LEMMA MakesKeeps ==
    ASSUME ProcInv, NEW op, op # "hook-done" /\ op # "proc-done", NEW w \in Words, NEW a \in Arities, Makes(op, w, a)
    PROVE  ProcInv'
  <1>1. /\ word' = fth_make_proc(word, w, a) /\ Ends(op, st, frames, <<>>) /\ UNCHANGED <<hook, var, sites>>
        /\ remade' = IF FTH_PROC_P(w) /\ Arity(w) # a THEN remade \cup {w} ELSE remade
    BY DEF Makes
  <1>2. remade \subseteq remade' /\ (FTH_PROC_P(w) /\ Arity(w) # a => w \in remade')
    BY <1>1
  <1>3. Tables' /\ Traced' /\ HooksRight'
    BY <1>1, <1>2, MadeProc DEF ProcInv
  <1>4. Stacked' /\ RanOnce(did') /\ Kept(did', st')
    BY <1>1, StaysKeeps
  <1> QED
    BY <1>3, <1>4 DEF ProcInv

\* make-proc.
LEMMA MakeProcKeeps == ProcInv /\ MakeProc => ProcInv'
  <1> SUFFICES ASSUME ProcInv, NEW w \in Words \cup Vars, NEW a \in sess.arities,
                      IF FICL_WORD_P(w) THEN Makes("make-proc", w, a) ELSE Fails("make-proc")
               PROVE  ProcInv'
    BY DEF MakeProc
  <1>1. a \in Arities
    BY SessIs
  <1>2. CASE FICL_WORD_P(w)
    BY <1>1, <1>2, IsWord, MakesKeeps
  <1>3. CASE ~FICL_WORD_P(w)
    BY <1>3, FailsKeeps
  <1> QED
    BY <1>2, <1>3

\* The arity of a definition with <{ ... }>.
LEMMA ExtendedArityIs ==
    ASSUME NEW d \in Definitions
    PROVE  ExtendedArity(d) \in Arities
  <1>1. d.req \in Nat /\ d.opts \in Seq(Cell)
    BY DEF Definitions
  <1>2. PICK opts \in Seq(Cell), n \in Nat : opts = d.opts /\ n = d.req
    BY <1>1
  <1>3. PICK m \in Nat : m = Len(opts)
    OBVIOUS
  <1>4. PICK b \in {0, 1} : b = IF d.keys # <<>> THEN 1 ELSE 0
    OBVIOUS
  <1>5. ExtendedArity(d) = [req |-> n, opt |-> m, rest |-> b]
    BY <1>2, <1>3, <1>4 DEF ExtendedArity
  <1>6. [req |-> n, opt |-> m, rest |-> b] \in Arities
    BY DEF Arities
  <1> QED
    BY <1>5, <1>6

\* <{}> and <{ ... }> in a definition.
LEMMA ExtendedArgsKeeps == ProcInv /\ ExtendedArgs => ProcInv'
  <1> SUFFICES ASSUME ProcInv, NEW w \in Words, NEW a \in {NoArity} \cup {ExtendedArity(d) : d \in sess.defs},
                      IF FTH_PROC_P(w) THEN Here("<{", st, <<>>) ELSE Makes("<{", w, a)
               PROVE  ProcInv'
    BY DEF ExtendedArgs
  <1>1. a \in Arities
    <2>1. NoArity \in Arities
      BY DEF NoArity, ARITY, Arities
    <2>2. \A d \in sess.defs : ExtendedArity(d) \in Arities
      BY DefIs, ExtendedArityIs
    <2> QED
      BY <2>1, <2>2
  <1>2. CASE FTH_PROC_P(w)
    BY <1>2, HereKeeps, SessIs
  <1>3. CASE ~FTH_PROC_P(w)
    BY <1>1, <1>3, MakesKeeps
  <1> QED
    BY <1>2, <1>3

\* A frame of a proc that is applied.
LEMMA ApplyFrame ==
    ASSUME NEW args \in Seq(Cell), NEW w \in Words, NEW hooks
    PROVE  /\ FRAME("apply", 0, args, 1) \in Frame
           /\ Running([FRAME("apply", 0, args, 1) EXCEPT !.called = Append(@, w)], hooks, FRAME("apply", 0, args, 1).i + 1)
  <1>a. <<>> \in Seq(Cell) /\ <<>> \in Seq(Words)
    OBVIOUS
  <1>1. PICK empty : empty = <<>> /\ empty \in Seq(Cell) /\ empty \in Seq(Words)
    BY <1>a
  <1>2. PICK f : f = FRAME("apply", 0, args, 1)
    OBVIOUS
  <1>3. f = [kind |-> "apply", hook |-> 0, args |-> args, i |-> 0, len |-> 1, got |-> empty, depth |-> 0,
             start |-> empty, called |-> empty, edits |-> {}, below |-> empty, low |-> 0]
    BY <1>1, <1>2 DEF FRAME
  <1>4. f \in Frame
    BY <1>1, <1>3 DEF Frame, Kinds
  <1>5. [f EXCEPT !.called = Append(@, w)].kind = "apply"
    BY <1>3
  <1>6. Running([f EXCEPT !.called = Append(@, w)], hooks, f.i + 1)
    BY <1>5 DEF Running
  <1> QED
    BY <1>2, <1>4, <1>6

\* All frames stay.
LEMMA AllRest ==
    ASSUME ProcInv
    PROVE  RestRight(frames) /\ Tables /\ Stacked /\ st \in Stack /\ InBounds(st)
  BY DEF ProcInv, RestRight, Stacked

\* fth_xt_call and fth_xt_apply.
LEMMA XtCallKeeps == ProcInv /\ XtCall => ProcInv'
  <1> SUFFICES ASSUME ProcInv, NEW w \in Words, NEW args \in sess.args,
                      Runs("xt-call", w, FRAME("apply", 0, args, 1), frames, st, args),
                      UNCHANGED <<word, hook, var, sites, remade>>
               PROVE  ProcInv'
    BY DEF XtCall
  <1>1. args \in Seq(Cell)
    BY SessIs
  <1>2. PICK f \in Frame : f = FRAME("apply", 0, args, 1) /\ Running([f EXCEPT !.called = Append(@, w)], hook, f.i + 1)
    BY <1>1, ApplyFrame
  <1>3. Stacked' /\ did' = [op |-> "xt-call", ok |-> TRUE, v |-> <<>>]
    BY <1>1, <1>2, AllRest, RunsIs
  <1>4. Quiet(did')
    BY <1>3 DEF Quiet
  <1>5. Tables' /\ Traced' /\ HooksRight'
    BY SameTables DEF ProcInv
  <1> QED
    BY <1>3, <1>4, <1>5, QuietIs DEF ProcInv

\* proc-apply, of a proc, an xt or something else.
LEMMA ProcApplyKeeps == ProcInv /\ ProcApply => ProcInv'
  <1> SUFFICES ASSUME ProcInv, ProcApply PROVE ProcInv'
    OBVIOUS
  <1>a. PICK w \in Words \cup Vars, args \in sess.args : \E a :
           /\ a = IF FTH_PROC_P(w) THEN Arity(w) ELSE ARITY(Len(args), 0, 0)
           /\ IF FICL_WORD_P(w)
              THEN word' = fth_make_proc(word, w, a) /\ Calls("proc-apply", w, a, FRAME("apply", 0, args, 1), frames, st)
              ELSE UNCHANGED word /\ Ends("proc-apply", ficlStackPush(st, FTH_FALSE), frames, <<>>)
           /\ UNCHANGED <<hook, var, sites, remade>>
    BY DEF ProcApply
  <1>1. PICK a :
           /\ a = IF FTH_PROC_P(w) THEN Arity(w) ELSE ARITY(Len(args), 0, 0)
           /\ IF FICL_WORD_P(w)
              THEN word' = fth_make_proc(word, w, a) /\ Calls("proc-apply", w, a, FRAME("apply", 0, args, 1), frames, st)
              ELSE UNCHANGED word /\ Ends("proc-apply", ficlStackPush(st, FTH_FALSE), frames, <<>>)
           /\ UNCHANGED <<hook, var, sites, remade>>
    BY <1>a
  <1>2. args \in Seq(Cell)
    BY SessIs
  <1>3. CASE FICL_WORD_P(w)
    <2>1. w \in Words
      BY <1>3, IsWord
    <2>2. a \in Arities
      <3>1. ARITY(Len(args), 0, 0) \in Arities
        <4>1. PICK n \in Nat : n = Len(args)
          BY <1>2
        <4>2. ARITY(n, 0, 0) \in Arities
          BY DEF ARITY, Arities
        <4> QED
          BY <4>1, <4>2
      <3>2. Arity(w) \in Arities
        BY <2>1, ArityIs, AllRest
      <3> QED
        BY <1>1, <3>1, <3>2
    <2>3. PICK f \in Frame : f = FRAME("apply", 0, args, 1) /\ Running([f EXCEPT !.called = Append(@, w)], hook, f.i + 1)
      BY <1>2, <2>1, ApplyFrame
    <2>4. word' = fth_make_proc(word, w, a) /\ Calls("proc-apply", w, a, f, frames, st)
      BY <1>1, <1>3, <2>3
    <2>5. Stacked' /\ did'.op = "proc-apply"
      BY <1>1, <2>1, <2>2, <2>3, <2>4, AllRest, CallsIs
    <2>6. Quiet(did')
      BY <2>5 DEF Quiet
    <2>7. remade \subseteq remade' /\ ~(FTH_PROC_P(w) /\ Arity(w) # a)
      BY <1>1
    <2>8. Tables' /\ Traced' /\ HooksRight'
      BY <1>1, <2>1, <2>2, <2>4, <2>7, MadeProc DEF ProcInv
    <2> QED
      BY <2>5, <2>6, <2>8, QuietIs DEF ProcInv
  <1>4. CASE ~FICL_WORD_P(w)
    <2>1. ficlStackPush(st, FTH_FALSE) \in Stack
      BY SessIs, PushIs, CellsMade
    <2>2. Here("proc-apply", ficlStackPush(st, FTH_FALSE), <<>>)
      BY <1>1, <1>4 DEF Here
    <2> QED
      BY <2>1, <2>2, HereKeeps
  <1> QED
    BY <1>3, <1>4

\* A proc raises.
LEMMA ThrowKeeps == ProcInv /\ Throw => ProcInv'
  BY FailsKeeps DEF Throw

\* A frame of a hook that begins.
LEMMA HookFrame ==
    ASSUME Tables, NEW h \in Hooks, hook[h].made, NEW kind \in {"hook", "again", "bool", "trace"}, NEW args \in Seq(Cell),
           kind = "again" => args # <<>>
    PROVE  /\ FRAME(kind, h, args, Len(hook[h].procs)) \in Frame
           /\ FRAME(kind, h, args, Len(hook[h].procs)).kind # "apply"
           /\ FRAME(kind, h, args, Len(hook[h].procs)).called = <<>>
           /\ Running(FRAME(kind, h, args, Len(hook[h].procs)), hook, FRAME(kind, h, args, Len(hook[h].procs)).i)
  <1>a. <<>> \in Seq(Cell) /\ <<>> \in Seq(Words) /\ Len(<<>>) = 0
    OBVIOUS
  <1>1. PICK empty : empty = <<>> /\ empty \in Seq(Cell) /\ empty \in Seq(Words) /\ Len(empty) = 0
    BY <1>a
  <1>2. PICK procs \in Seq(Words), n \in Nat : procs = hook[h].procs /\ n = Len(procs)
    BY DEF Tables, HookType
  <1>3. PICK f : f = FRAME(kind, h, args, Len(hook[h].procs))
    OBVIOUS
  <1>4. h # 0
    BY Constants
  <1>5. f = [kind |-> kind, hook |-> h, args |-> args, i |-> 0, len |-> n, got |-> empty, depth |-> 0,
             start |-> procs, called |-> empty, edits |-> {}, below |-> empty, low |-> 0]
    BY <1>1, <1>2, <1>3, <1>4 DEF FRAME
  <1>6. f \in Frame
    BY <1>1, <1>2, <1>5 DEF Frame, Kinds
  <1>7. SubSeq(procs, 1, 0) = <<>> /\ SubSeq(procs, 1, n) = procs
    BY <1>2
  <1>8. Ran(f, procs, 0)
    BY <1>1, <1>2, <1>5, <1>7 DEF Ran
  <1>9. /\ f.hook = h /\ f.kind = kind /\ f.kind # "apply" /\ f.called = <<>> /\ f.i = 0 /\ Len(f.got) = 0
        /\ f.len = n /\ f.start = procs /\ f.args = args
    BY <1>1, <1>5
  <1>10. Running(f, hook, 0)
    BY <1>2, <1>8, <1>9 DEF Running
  <1> QED
    BY <1>3, <1>6, <1>9, <1>10

\* A run of a hook begins.
LEMMA BeginsIs ==
    ASSUME ProcInv, NEW op, op # "hook-done" /\ op # "proc-done", NEW h \in Hooks, hook[h].made,
           NEW kind \in {"hook", "again", "bool", "trace"}, NEW args \in Seq(Cell), kind = "again" => args # <<>>,
           NEW s \in Stack, InBounds(s), UNCHANGED hook,
           Continues(op, FRAME(kind, h, args, Len(hook[h].procs)), frames, s)
    PROVE  Stacked' /\ RanOnce(did') /\ Kept(did', st')
  <1>1. PICK f \in Frame : /\ f = FRAME(kind, h, args, Len(hook[h].procs)) /\ f.kind # "apply" /\ f.called = <<>>
                           /\ Running(f, hook, f.i)
    BY AllRest, HookFrame
  <1>2. Continues(op, f, frames, s)
    BY <1>1
  <1> QED
    BY <1>1, <1>2, AllRest, ContinuesIs

\* run-hook.
LEMMA HookApplyKeeps == ProcInv /\ HookApply => ProcInv'
  <1> SUFFICES ASSUME ProcInv, NEW h \in Hooks, NEW args \in sess.args, hook[h].made,
                      UNCHANGED <<word, hook, var, sites, remade>>,
                      Continues("run-hook", FRAME("hook", h, args, Len(hook[h].procs)), frames, st)
               PROVE  ProcInv'
    BY DEF HookApply
  <1>1. args \in Seq(Cell) /\ st \in Stack /\ InBounds(st)
    BY SessIs
  <1>2. Stacked' /\ RanOnce(did') /\ Kept(did', st')
    BY <1>1, BeginsIs
  <1>3. Tables' /\ Traced' /\ HooksRight'
    BY SameTables DEF ProcInv
  <1> QED
    BY <1>2, <1>3 DEF ProcInv

\* fth_run_hook, fth_run_hook_again and fth_run_hook_bool.
LEMMA RunHookKeeps == ProcInv /\ RunHook => ProcInv'
  <1> SUFFICES ASSUME ProcInv, NEW h \in Hooks, NEW kind \in {"hook", "again", "bool"}, NEW args \in sess.args,
                      hook[h].made, args # <<>>, UNCHANGED <<word, hook, var, sites, remade>>,
                      IF hook[h].arity.req > Len(args) THEN Raises("run-hook")
                      ELSE Continues("run-hook", FRAME(kind, h, args, Len(hook[h].procs)), frames, st)
               PROVE  ProcInv'
    BY DEF RunHook
  <1>1. args \in Seq(Cell) /\ st \in Stack /\ InBounds(st)
    BY SessIs
  <1>2. Stacked' /\ RanOnce(did') /\ Kept(did', st')
    <2>1. CASE hook[h].arity.req > Len(args)
      BY <2>1, RaisesKeeps
    <2>2. CASE ~(hook[h].arity.req > Len(args))
      BY <1>1, <2>2, BeginsIs
    <2> QED
      BY <2>1, <2>2
  <1>3. Tables' /\ Traced' /\ HooksRight'
    BY SameTables DEF ProcInv
  <1> QED
    BY <1>2, <1>3 DEF ProcInv

\* hook=, hook-member?, hook-empty?, hook->array and hook-names.
LEMMA AskHookKeeps == ProcInv /\ AskHook => ProcInv'
  <1> SUFFICES ASSUME ProcInv, AskHook PROVE ProcInv'
    OBVIOUS
  <1>1. PICK h \in Hooks, k \in Hooks, w \in Words :
           \E c \in {BOOL_TO_FTH(hk_equal_p(h, k)), BOOL_TO_FTH(simple_array_index(hook[h].procs, w) # 0),
                     BOOL_TO_FTH(hook[h].procs = <<>>), CELL("array", Len(hook[h].procs))} :
              Here("hook=", ficlStackPush(st, c), <<>>)
    BY DEF AskHook
  <1>2. PICK c : /\ c \in {BOOL_TO_FTH(hk_equal_p(h, k)), BOOL_TO_FTH(simple_array_index(hook[h].procs, w) # 0),
                           BOOL_TO_FTH(hook[h].procs = <<>>), CELL("array", Len(hook[h].procs))}
                 /\ Here("hook=", ficlStackPush(st, c), <<>>)
    BY <1>1
  <1>3. c \in Cell
    <2>1. Len(hook[h].procs) \in Int
      BY AllRest DEF Tables, HookType
    <2>2. CELL("array", Len(hook[h].procs)) \in Cell
      BY <2>1, CellsMade
    <2> QED
      BY <1>2, <2>2, CellsMade
  <1>4. ficlStackPush(st, c) \in Stack
    BY <1>3, SessIs, PushIs
  <1> QED
    BY <1>2, <1>4, HereKeeps

-----------------------------------------------------------------------------
(* The words that make and change hooks. *)

\* A part of a list with one more.
LEMMA AppendedPart ==
    ASSUME NEW procs \in Seq(Words), NEW w \in Words
    PROVE  \A m \in Nat : m <= Len(procs) => SubSeq(Append(procs, w), 1, m) = SubSeq(procs, 1, m)
  <1> SUFFICES ASSUME NEW m \in Nat, m <= Len(procs) PROVE SubSeq(Append(procs, w), 1, m) = SubSeq(procs, 1, m)
    OBVIOUS
  <1>1. \A j \in 1..m : Append(procs, w)[j] = procs[j]
    OBVIOUS
  <1>2. SubSeq(Append(procs, w), 1, m) = [j \in 1..m |-> Append(procs, w)[j]]
    OBVIOUS
  <1>3. SubSeq(procs, 1, m) = [j \in 1..m |-> procs[j]]
    OBVIOUS
  <1> QED
    BY <1>1, <1>2, <1>3

\* A list of procs with one more: the frames that run it have it too.
LEMMA EditedIs ==
    ASSUME ProcInv, NEW h \in Hooks, NEW edit \in {"added", "removed"}, NEW hooks \in [Hooks -> HookType],
           \A x \in Hooks : hook[x].made => hooks[x].made, \A x \in Hooks : x # h /\ hook[x].made => hooks[x] = hook[x],
           edit = "added" => \E w \in Words : hooks[h].procs = Append(hook[h].procs, w), hook' = hooks
    PROVE  Edited(frames, h, edit) \in Seq(Frame) /\ Len(Edited(frames, h, edit)) <= MaxFrames
           /\ FramesOn(Edited(frames, h, edit), hook', st)
  <1>1. PICK n \in Nat : n = Len(frames) /\ n <= MaxFrames /\ DOMAIN frames = 1..n /\ \A k \in 1..n : frames[k] \in Frame
    BY DEF ProcInv, Stacked
  <1>2. PICK fs : fs = Edited(frames, h, edit)
    OBVIOUS
  <1>3. fs = [k \in 1..n |-> IF frames[k].hook = h THEN [frames[k] EXCEPT !.edits = @ \cup {edit}] ELSE frames[k]]
    BY <1>1, <1>2 DEF Edited
  <1>4. ASSUME NEW k \in 1..n
        PROVE  fs[k] \in Frame /\ Running(fs[k], hooks, fs[k].i + 1) /\ Stays(fs[k], st)
    <2>1. PICK f \in Frame : f = frames[k]
      BY <1>1
    <2>2. Running(f, hook, f.i + 1) /\ Stays(f, st)
      BY <1>1, <2>1 DEF ProcInv, Stacked
    <2>3. CASE f.hook # h
      <3>1. fs[k] = f
        BY <1>3, <2>1, <2>3
      <3>2. f.kind # "apply" => f.hook \in Hooks /\ hook[f.hook].made /\ hooks[f.hook] = hook[f.hook]
        BY <2>2, <2>3 DEF Running
      <3>3. Running(f, hooks, f.i + 1)
        BY <2>2, <3>2 DEF Running
      <3> QED
        BY <2>2, <3>1, <3>3
    <2>4. CASE f.hook = h
      <3>1. PICK g : g = [f EXCEPT !.edits = @ \cup {edit}]
        OBVIOUS
      <3>2. fs[k] = g
        BY <1>3, <2>1, <2>4, <3>1
      <3>3. /\ g \in Frame /\ g.kind = f.kind /\ g.hook = h /\ g.got = f.got /\ g.i = f.i /\ g.len = f.len
            /\ g.start = f.start /\ g.args = f.args /\ g.called = f.called /\ g.edits = f.edits \cup {edit}
            /\ g.low = f.low /\ g.below = f.below /\ g.depth = f.depth
        BY <2>4, <3>1 DEF Frame
      <3>4. Stays(g, st)
        BY <2>2, <3>3 DEF Stays
      <3>5. ASSUME f.kind # "apply" PROVE Ran(g, hooks[h].procs, f.i + 1)
        <4> SUFFICES ASSUME "removed" \notin g.edits
                     PROVE  /\ f.i + 1 <= Len(hooks[h].procs) /\ f.called = SubSeq(hooks[h].procs, 1, f.i + 1)
                            /\ Len(f.start) <= Len(hooks[h].procs)
                            /\ f.start = SubSeq(hooks[h].procs, 1, Len(f.start))
          BY <3>3 DEF Ran
        <4>1. edit = "added" /\ "removed" \notin f.edits
          BY <3>3
        <4>2. Ran(f, hook[h].procs, f.i + 1)
          BY <2>2, <2>4, <3>5 DEF Running
        <4>3. PICK procs \in Seq(Words), w \in Words, len \in Nat, i \in Nat :
                 procs = hook[h].procs /\ hooks[h].procs = Append(procs, w) /\ len = Len(f.start) /\ i = f.i + 1
          <5>1. hook[h].procs \in Seq(Words)
            BY AllRest DEF Tables, HookType
          <5>2. Len(f.start) \in Nat /\ f.i + 1 \in Nat
            BY DEF Frame
          <5> QED
            BY <4>1, <5>1, <5>2
        <4>4. i <= Len(procs) /\ f.called = SubSeq(procs, 1, i) /\ len <= Len(procs) /\ f.start = SubSeq(procs, 1, len)
          BY <4>1, <4>2, <4>3 DEF Ran
        <4>5. \A m \in Nat : m <= Len(procs) => SubSeq(Append(procs, w), 1, m) = SubSeq(procs, 1, m)
          BY AppendedPart
        <4>6. Len(Append(procs, w)) = Len(procs) + 1
          BY <4>3
        <4>7. i <= Len(procs) + 1 /\ len <= Len(procs) + 1
          <5>1. Len(procs) \in Nat
            BY <4>3
          <5> QED
            BY <4>3, <4>4, <5>1
        <4> QED
          BY <4>3, <4>4, <4>5, <4>6, <4>7
      <3>6. Running(g, hooks, g.i + 1)
        BY <2>2, <2>4, <3>3, <3>5 DEF Running
      <3> QED
        BY <3>2, <3>3, <3>4, <3>6
    <2> QED
      BY <2>3, <2>4
  <1>5. fs \in Seq(Frame) /\ Len(fs) = n /\ DOMAIN fs = 1..n
    <2>1. DOMAIN fs = 1..n /\ fs = [k \in 1..n |-> fs[k]]
      BY <1>3
    <2>2. fs \in Seq(Frame)
      BY <1>4, <2>1
    <2> QED
      BY <2>1, <2>2
  <1>6. FramesOn(fs, hook', st)
    BY <1>4, <1>5 DEF FramesOn
  <1> QED
    BY <1>1, <1>2, <1>5, <1>6

\* A word that adds a proc to a hook or takes procs away, on the frames and the stack.
LEMMA EditKeeps ==
    ASSUME ProcInv, NEW h \in Hooks, NEW edit \in {"added", "removed"}, NEW hooks \in [Hooks -> HookType],
           \A x \in Hooks : hook[x].made => hooks[x].made, \A x \in Hooks : x # h /\ hook[x].made => hooks[x] = hook[x],
           edit = "added" => \E w \in Words : hooks[h].procs = Append(hook[h].procs, w), hook' = hooks,
           NEW op, op # "hook-done" /\ op # "proc-done", Ends(op, st, Edited(frames, h, edit), <<>>)
    PROVE  Stacked' /\ RanOnce(did') /\ Kept(did', st')
  <1>1. Edited(frames, h, edit) \in Seq(Frame) /\ Len(Edited(frames, h, edit)) <= MaxFrames
        /\ FramesOn(Edited(frames, h, edit), hook', st)
    BY EditedIs
  <1>2. Stacked' /\ did' = [op |-> op, ok |-> TRUE, v |-> <<>>]
    BY <1>1, AllRest, EndsIs
  <1>3. Quiet(did')
    BY <1>2 DEF Quiet
  <1> QED
    BY <1>2, <1>3, QuietIs

-----------------------------------------------------------------------------
(* The hooks a word leaves. *)

\* Hooks whose procs are of before, or made just now.
LEMMA HooksStay ==
    ASSUME Tables, HooksRight, remade' = remade, hook' \in [Hooks -> HookType],
           \A w \in Words : word[w].kind = "proc" => word'[w] = word[w],
           \A h \in Hooks : ~hook'[h].made => hook'[h].procs = <<>>,
           \A h \in Hooks : \A k \in DOMAIN hook'[h].procs :
              \/ \E j \in DOMAIN hook[h].procs : hook'[h].procs[k] = hook[h].procs[j] /\ hook'[h].arity = hook[h].arity
              \/ word'[hook'[h].procs[k]].kind = "proc" /\ word'[hook'[h].procs[k]].arity = hook'[h].arity
    PROVE  HooksRight'
  <1> SUFFICES ASSUME NEW h \in Hooks, NEW k \in DOMAIN hook'[h].procs
               PROVE  hook'[h].procs[k] \in remade \/
                         (word'[hook'[h].procs[k]].kind = "proc" /\ word'[hook'[h].procs[k]].arity = hook'[h].arity)
    BY DEF HooksRight
  <1>1. CASE \E j \in DOMAIN hook[h].procs : hook'[h].procs[k] = hook[h].procs[j] /\ hook'[h].arity = hook[h].arity
    <2>1. PICK j \in DOMAIN hook[h].procs : hook'[h].procs[k] = hook[h].procs[j] /\ hook'[h].arity = hook[h].arity
      BY <1>1
    <2>2. PICK p \in Words : p = hook[h].procs[j]
      BY DEF Tables, HookType
    <2>3. p \in remade \/ (word[p].kind = "proc" /\ word[p].arity = hook[h].arity)
      BY <2>2 DEF HooksRight
    <2> QED
      BY <2>1, <2>2, <2>3
  <1>2. CASE word'[hook'[h].procs[k]].kind = "proc" /\ word'[hook'[h].procs[k]].arity = hook'[h].arity
    BY <1>2
  <1> QED
    BY <1>1, <1>2

\* A new hook is one that is not made yet.
LEMMA NewHookIs ==
    ASSUME FreeHooks # {}
    PROVE  NewHook \in Hooks /\ ~hook[NewHook].made
  <1>1. FreeHooks \in SUBSET Nat
    BY Constants DEF FreeHooks
  <1>2. NewHook \in FreeHooks
    BY <1>1, MinIs DEF NewHook
  <1> QED
    BY <1>2 DEF FreeHooks

\* It is made, and has no procs.
LEMMA MadeHook ==
    ASSUME Tables, HooksRight, NEW h \in Hooks, ~hook[h].made, NEW a \in Arities
    PROVE  /\ make_hook(hook, h, a) \in [Hooks -> HookType] /\ make_hook(hook, h, a)[h].made
           /\ make_hook(hook, h, a)[h].procs = <<>> /\ make_hook(hook, h, a)[h].arity = a /\ hook[h].procs = <<>>
           /\ \A x \in Hooks : x # h => make_hook(hook, h, a)[x] = hook[x]
  <1>1. PICK new : new = [made |-> TRUE, arity |-> a, procs |-> <<>>]
    OBVIOUS
  <1>2. new \in HookType
    <2>1. <<>> \in Seq(Words)
      OBVIOUS
    <2> QED
      BY <1>1, <2>1 DEF HookType
  <1>3. make_hook(hook, h, a) = [hook EXCEPT ![h] = new] /\ hook \in [Hooks -> HookType]
    BY <1>1 DEF make_hook, Tables
  <1>4. hook[h].procs = <<>>
    BY DEF HooksRight
  <1> QED
    BY <1>1, <1>2, <1>3, <1>4

\* make-hook.
LEMMA MakeHookKeeps == ProcInv /\ MakeHook => ProcInv'
  <1> SUFFICES ASSUME ProcInv, NEW a \in sess.arities, FreeHooks # {}, hook' = make_hook(hook, NewHook, a),
                      Ends("make-hook", st, frames, <<>>), UNCHANGED <<word, var, sites, remade>>
               PROVE  ProcInv'
    BY DEF MakeHook
  <1>0. Tables /\ Traced /\ HooksRight /\ a \in Arities
    BY SessIs DEF ProcInv
  <1>1. PICK h \in Hooks : h = NewHook /\ ~hook[h].made
    BY NewHookIs
  <1>2. /\ hook' \in [Hooks -> HookType] /\ hook'[h].made /\ hook'[h].procs = <<>> /\ hook[h].procs = <<>>
        /\ \A x \in Hooks : x # h => hook'[x] = hook[x]
    BY <1>0, <1>1, MadeHook
  <1>3. HooksRight'
    <2>1. \A x \in Hooks : ~hook'[x].made => hook'[x].procs = <<>>
      BY <1>0, <1>2 DEF HooksRight
    <2>2. \A x \in Hooks : \A k \in DOMAIN hook'[x].procs :
             \E j \in DOMAIN hook[x].procs : hook'[x].procs[k] = hook[x].procs[j] /\ hook'[x].arity = hook[x].arity
      <3> SUFFICES ASSUME NEW x \in Hooks, NEW k \in DOMAIN hook'[x].procs
                   PROVE  x # h
        BY <1>2
      <3> QED
        BY <1>2
    <2> QED
      BY <1>0, <1>2, <2>1, <2>2, HooksStay
  <1>4. Traced'
    <2>1. \A v \in Vars : var[v].hook # 0 => var[v].hook \in Hooks /\ hook[var[v].hook].made
      BY <1>0 DEF Traced, Tables, VarType
    <2>2. \A x \in Hooks : hook[x].made => hook'[x].made
      BY <1>2
    <2> QED
      BY <1>0, <2>1, <2>2 DEF Traced
  <1>5. Tables'
    BY <1>0, <1>2 DEF Tables
  <1>6. PICK fs : fs = frames
    OBVIOUS
  <1>7. FramesOn(frames, hook', st)
    <2> SUFFICES ASSUME NEW k \in DOMAIN frames PROVE Running(frames[k], hook', frames[k].i + 1) /\ Stays(frames[k], st)
      BY DEF FramesOn
    <2>1. Running(frames[k], hook, frames[k].i + 1) /\ Stays(frames[k], st)
      BY DEF ProcInv, Stacked
    <2>2. frames[k].kind # "apply" => frames[k].hook \in Hooks /\ hook[frames[k].hook].made
      BY <2>1 DEF Running
    <2>3. frames[k].kind # "apply" => hook'[frames[k].hook] = hook[frames[k].hook]
      BY <1>1, <1>2, <2>2
    <2> QED
      BY <2>1, <2>3 DEF Running
  <1>8. Stacked' /\ did' = [op |-> "make-hook", ok |-> TRUE, v |-> <<>>]
    <2>1. frames \in Seq(Frame) /\ Len(frames) <= MaxFrames
      BY DEF ProcInv, Stacked
    <2> QED
      BY <1>7, <2>1, AllRest, EndsIs
  <1>9. Quiet(did')
    BY <1>8 DEF Quiet
  <1> QED
    BY <1>3, <1>4, <1>5, <1>8, <1>9, QuietIs DEF ProcInv

\* A list with one more.
LEMMA OneMore ==
    ASSUME NEW procs \in Seq(Words), NEW w \in Words
    PROVE  /\ Append(procs, w) \in Seq(Words) /\ DOMAIN Append(procs, w) = 1..(Len(procs) + 1)
           /\ Append(procs, w)[Len(procs) + 1] = w /\ \A k \in 1..Len(procs) : Append(procs, w)[k] = procs[k]
  OBVIOUS

\* A hook, an old or a new one, gets a proc that suits it.
LEMMA AddedKeeps ==
    ASSUME ProcInv, NEW h \in Hooks, NEW hooks \in [Hooks -> HookType], hooks[h].made,
           hooks = hook \/ (~hook[h].made /\ hooks[h].procs = <<>> /\ \A x \in Hooks : x # h => hooks[x] = hook[x]),
           NEW w \in Words, FTH_PROC_P(w) => Arity(w) = hooks[h].arity,
           word'[w] = [kind |-> "proc", arity |-> hooks[h].arity], \A x \in Words : x # w => word'[x] = word[x],
           hook' = [hooks EXCEPT ![h].procs = Append(@, w)], remade' = remade,
           NEW op, op # "hook-done" /\ op # "proc-done", Ends(op, st, Edited(frames, h, "added"), <<>>)
    PROVE  /\ HooksRight' /\ Stacked' /\ RanOnce(did') /\ Kept(did', st') /\ hook' \in [Hooks -> HookType]
           /\ hook'[h].made /\ \A x \in Hooks : hook[x].made => hook'[x].made
  <1>0. Tables /\ Traced /\ HooksRight /\ hook \in [Hooks -> HookType]
    BY DEF ProcInv, Tables
  <1>1. PICK procs \in Seq(Words), N \in Nat : procs = hooks[h].procs /\ N = Len(procs) /\ DOMAIN procs = 1..N
    <2>1. hooks[h].procs \in Seq(Words)
      BY DEF HookType
    <2> QED
      BY <2>1
  <1>2. procs = hook[h].procs /\ \A x \in Hooks : x # h => hooks[x] = hook[x]
    BY <1>0, <1>1 DEF HooksRight
  <1>3. PICK more \in Seq(Words) : /\ more = Append(procs, w) /\ DOMAIN more = 1..(N + 1) /\ more[N + 1] = w
                                   /\ \A k \in 1..N : more[k] = procs[k]
    <2>1. PICK more : more = Append(procs, w)
      OBVIOUS
    <2>2. more \in Seq(Words) /\ DOMAIN more = 1..(Len(procs) + 1) /\ more[Len(procs) + 1] = w
          /\ \A k \in 1..Len(procs) : more[k] = procs[k]
      BY <2>1, OneMore
    <2>3. Len(procs) = N
      BY <1>1
    <2>4. more \in Seq(Words) /\ DOMAIN more = 1..(N + 1) /\ more[N + 1] = w /\ \A k \in 1..N : more[k] = procs[k]
      BY <2>2, <2>3
    <2> QED
      BY <2>1, <2>4
  <1>4. PICK new : new = [hooks[h] EXCEPT !.procs = more]
    OBVIOUS
  <1>5. new \in HookType /\ new.made /\ new.arity = hooks[h].arity /\ new.procs = more
    BY <1>4 DEF HookType
  <1>6. hook' = [hooks EXCEPT ![h] = new]
    BY <1>1, <1>3, <1>4
  <1>7. hook' \in [Hooks -> HookType] /\ hook'[h] = new /\ \A x \in Hooks : x # h => hook'[x] = hook[x]
    BY <1>2, <1>5, <1>6
  <1>8. \A x \in Hooks : hook[x].made => hook'[x].made
    BY <1>5, <1>7
  <1>9. \A x \in Words : word[x].kind = "proc" => word'[x] = word[x]
    <2>1. ASSUME word[w].kind = "proc" PROVE word'[w] = word[w]
      <3>1. word[w].arity = hooks[h].arity
        BY <2>1 DEF FTH_PROC_P, Arity
      <3>2. word[w] \in WordType
        BY <1>0 DEF Tables
      <3> QED
        BY <2>1, <3>1, <3>2 DEF WordType
    <2> QED
      BY <2>1
  <1>10. HooksRight'
    <2>1. \A x \in Hooks : ~hook'[x].made => hook'[x].procs = <<>>
      BY <1>0, <1>5, <1>7 DEF HooksRight
    <2>2. ASSUME NEW x \in Hooks, NEW k \in DOMAIN hook'[x].procs
          PROVE  \/ \E j \in DOMAIN hook[x].procs :
                       hook'[x].procs[k] = hook[x].procs[j] /\ hook'[x].arity = hook[x].arity
                 \/ word'[hook'[x].procs[k]].kind = "proc" /\ word'[hook'[x].procs[k]].arity = hook'[x].arity
      <3>1. CASE x # h
        BY <1>7, <2>2, <3>1
      <3>2. CASE x = h
        <4>1. k \in 1..(N + 1) /\ hook'[x].procs[k] = more[k] /\ hook'[x].arity = hooks[h].arity
          BY <1>3, <1>5, <1>7, <2>2, <3>2
        <4>2. CASE k = N + 1
          BY <1>3, <4>1, <4>2
        <4>3. CASE k # N + 1
          <5>1. k \in 1..N
            BY <4>1, <4>3
          <5>2. k \in DOMAIN hook[h].procs /\ more[k] = hook[h].procs[k]
            BY <1>1, <1>2, <1>3, <5>1
          <5>3. hooks = hook
            <6>1. procs # <<>>
              BY <1>1, <5>1
            <6> QED
              BY <1>1, <6>1
          <5> QED
            BY <3>2, <4>1, <5>2, <5>3
        <4> QED
          BY <4>2, <4>3
      <3> QED
        BY <3>1, <3>2
    <2> QED
      BY <1>0, <1>7, <1>9, <2>1, <2>2, HooksStay
  <1>11. Stacked' /\ RanOnce(did') /\ Kept(did', st')
    <2>1. \A x \in Hooks : x # h /\ hook[x].made => hook'[x] = hook[x]
      BY <1>7
    <2>2. \E p \in Words : hook'[h].procs = Append(hook[h].procs, p)
      BY <1>2, <1>3, <1>5, <1>7
    <2>3. PICK now \in [Hooks -> HookType] : now = hook'
      BY <1>7
    <2> QED
      BY <1>8, <2>1, <2>2, <2>3, EditKeeps
  <1> QED
    BY <1>5, <1>7, <1>8, <1>10, <1>11

\* add-hook!, of a proc of the same arity or of an xt.
LEMMA AddHookKeeps == ProcInv /\ AddHook => ProcInv'
  <1> SUFFICES ASSUME ProcInv, NEW h \in Hooks, NEW w \in Words \cup Vars, hook[h].made, UNCHANGED <<var, sites, remade>>,
                      IF Suits(w, hook[h].arity)
                      THEN /\ word' = fth_make_proc(word, w, hook[h].arity)
                           /\ hook' = [hook EXCEPT ![h].procs = Append(@, w)]
                           /\ Ends("add-hook!", st, Edited(frames, h, "added"), <<>>)
                      ELSE UNCHANGED <<word, hook>> /\ Raises("add-hook!")
               PROVE  ProcInv'
    BY DEF AddHook
  <1>0. Tables /\ Traced /\ HooksRight
    BY DEF ProcInv
  <1>1. CASE Suits(w, hook[h].arity)
    <2>1. w \in Words /\ (FTH_PROC_P(w) => Arity(w) = hook[h].arity)
      BY <1>1, IsWord DEF Suits
    <2>2. PICK a \in Arities : a = hook[h].arity /\ hook \in [Hooks -> HookType]
      BY <1>0 DEF Tables, HookType
    <2>3. word' = [word EXCEPT ![w] = [kind |-> "proc", arity |-> a]] /\ word \in [Words \cup Vars -> WordType]
      BY <1>0, <1>1, <2>2 DEF fth_make_proc, Tables
    <2>4. word'[w] = [kind |-> "proc", arity |-> a] /\ \A x \in Words \cup Vars : x # w => word'[x] = word[x]
      BY <2>3
    <2>5. [kind |-> "proc", arity |-> a] \in WordType
      BY DEF WordType
    <2>6. word' \in [Words \cup Vars -> WordType]
      BY <2>3, <2>5
    <2>7. /\ hook' = [hook EXCEPT ![h].procs = Append(@, w)]
          /\ Ends("add-hook!", st, Edited(frames, h, "added"), <<>>)
      BY <1>1
    <2>8. /\ HooksRight' /\ Stacked' /\ RanOnce(did') /\ Kept(did', st') /\ hook' \in [Hooks -> HookType]
          /\ \A x \in Hooks : hook[x].made => hook'[x].made
      BY <2>1, <2>2, <2>4, <2>7, AddedKeeps
    <2>9. Traced'
      <3>1. \A v \in Vars : v # w /\ word'[v] = word[v]
        BY <2>1, <2>4, Constants
      <3>2. \A x \in Words : word'[x].kind \in {"word", "proc"}
        BY <1>0, <2>4 DEF Traced
      <3>3. \A v \in Vars : var[v].hook # 0 => var[v].hook \in Hooks /\ hook[var[v].hook].made
        BY <1>0 DEF Traced, Tables, VarType
      <3> QED
        BY <1>0, <2>8, <3>1, <3>2, <3>3 DEF Traced
    <2>10. Tables'
      BY <1>0, <2>6, <2>8 DEF Tables
    <2> QED
      BY <2>8, <2>9, <2>10 DEF ProcInv
  <1>2. CASE ~Suits(w, hook[h].arity)
    <2>1. Fails("add-hook!")
      BY <1>2 DEF Fails
    <2> QED
      BY <2>1, FailsKeeps
  <1> QED
    BY <1>1, <1>2

-----------------------------------------------------------------------------
(* Procs are taken from hooks. *)

\* One list behind another.
LEMMA BothIs ==
    ASSUME NEW a \in Seq(Words), NEW b \in Seq(Words)
    PROVE  /\ a \o b \in Seq(Words) /\ Len(a \o b) = Len(a) + Len(b) /\ DOMAIN (a \o b) = 1..Len(a \o b)
           /\ \A k \in 1..Len(a) : (a \o b)[k] = a[k]
           /\ \A k \in 1..Len(b) : (a \o b)[Len(a) + k] = b[k]
  OBVIOUS

\* simple_array_delete leaves what was there.
LEMMA DeleteIs ==
    ASSUME NEW procs \in Seq(Words), NEW w
    PROVE  /\ simple_array_delete(procs, w) \in Seq(Words)
           /\ \A k \in DOMAIN simple_array_delete(procs, w) : \E j \in DOMAIN procs : simple_array_delete(procs, w)[k] = procs[j]
  <1>1. PICK N \in Nat : N = Len(procs) /\ DOMAIN procs = 1..N
    OBVIOUS
  <1>2. PICK I : I = {i \in 1..N : procs[i] = w}
    OBVIOUS
  <1>3. simple_array_index(procs, w) = IF I # {} THEN Min(I) ELSE 0
    BY <1>1, <1>2 DEF simple_array_index, SelectInSeq
  <1>4. CASE simple_array_index(procs, w) = 0
    BY <1>4 DEF simple_array_delete
  <1>5. CASE simple_array_index(procs, w) # 0
    <2>1. Min(I) \in I
      <3>1. I \in SUBSET Nat /\ I # {}
        BY <1>2, <1>3, <1>5
      <3> QED
        BY <3>1, MinIs
    <2>2. PICK i \in 1..N : i = simple_array_index(procs, w)
      BY <1>2, <1>3, <1>5, <2>1
    <2>3. simple_array_delete(procs, w) = SubSeq(procs, 1, i - 1) \o SubSeq(procs, i + 1, N)
      BY <1>1, <1>5, <2>2 DEF simple_array_delete, RemoveAt
    <2>4. PICK a, b : a = SubSeq(procs, 1, i - 1) /\ b = SubSeq(procs, i + 1, N)
      OBVIOUS
    <2>5. /\ a \in Seq(Words) /\ Len(a) = i - 1 /\ \A k \in 1..(i - 1) : a[k] = procs[k]
      <3>1. i - 1 \in 0..N
        BY <1>1
      <3>2. \A k \in 1..(i - 1) : procs[k] \in Words
        BY <1>1
      <3>3. a = [k \in 1..(i - 1) |-> procs[k]]
        BY <1>1, <2>4
      <3> QED
        BY <3>1, <3>2, <3>3
    <2>6. /\ b \in Seq(Words) /\ Len(b) = N - i /\ \A k \in 1..(N - i) : b[k] = procs[i + k]
      BY <1>1, <2>4
    <2>7. PICK d \in Seq(Words) : d = a \o b /\ d = simple_array_delete(procs, w)
      <3>1. a \o b \in Seq(Words)
        BY <2>5, <2>6, BothIs
      <3> QED
        BY <2>3, <2>4, <3>1
    <2>a. /\ Len(d) = Len(a) + Len(b) /\ DOMAIN d = 1..Len(d) /\ \A k \in 1..Len(a) : d[k] = a[k]
          /\ \A k \in 1..Len(b) : d[Len(a) + k] = b[k]
      <3>1. a \in Seq(Words)
        BY <2>5
      <3>2. b \in Seq(Words)
        BY <2>6
      <3>3. /\ Len(a \o b) = Len(a) + Len(b) /\ DOMAIN (a \o b) = 1..Len(a \o b)
            /\ \A k \in 1..Len(a) : (a \o b)[k] = a[k]
            /\ \A k \in 1..Len(b) : (a \o b)[Len(a) + k] = b[k]
        BY <3>1, <3>2, BothIs
      <3>4. d = a \o b
        BY <2>7
      <3> QED
        BY <3>3, <3>4
    <2>8. Len(d) = N - 1 /\ DOMAIN d = 1..(N - 1)
      <3>2. (i - 1) + (N - i) = N - 1
        BY <1>1
      <3> QED
        BY <2>5, <2>6, <2>a, <3>2
    <2>9. ASSUME NEW k \in 1..(N - 1) PROVE \E j \in 1..N : d[k] = procs[j]
      <3>1. CASE k <= i - 1
        <4>2. k \in 1..(i - 1) /\ k \in 1..N
          BY <3>1
        <4>1. d[k] = a[k]
          BY <2>5, <2>a, <4>2
        <4> QED
          BY <2>5, <4>1, <4>2
      <3>2. CASE k > i - 1
        <4>2. PICK m \in 1..(N - i) : m = k - (i - 1) /\ k = (i - 1) + m
          BY <3>2
        <4>1. d[k] = b[m]
          BY <2>5, <2>6, <2>a, <4>2
        <4>3. b[m] = procs[i + m] /\ i + m \in 1..N
          BY <2>6, <4>2
        <4> QED
          BY <4>1, <4>2, <4>3
      <3> QED
        BY <3>1, <3>2
    <2> QED
      BY <1>1, <2>7, <2>8, <2>9
  <1> QED
    BY <1>4, <1>5

\* A hook loses procs.
LEMMA LessKeeps ==
    ASSUME ProcInv, NEW h \in Hooks, hook[h].made, NEW less \in Seq(Words),
           \A k \in DOMAIN less : \E j \in DOMAIN hook[h].procs : less[k] = hook[h].procs[j],
           hook' = [hook EXCEPT ![h].procs = less], UNCHANGED <<word, var, sites, remade>>,
           NEW op, op # "hook-done" /\ op # "proc-done", Ends(op, st, Edited(frames, h, "removed"), <<>>)
    PROVE  ProcInv'
  <1>0. Tables /\ Traced /\ HooksRight /\ hook \in [Hooks -> HookType]
    BY DEF ProcInv, Tables
  <1>1. PICK new : new = [hook[h] EXCEPT !.procs = less]
    OBVIOUS
  <1>2. new \in HookType /\ new.made /\ new.arity = hook[h].arity /\ new.procs = less
    BY <1>0, <1>1 DEF HookType
  <1>3. hook' \in [Hooks -> HookType] /\ hook'[h] = new /\ \A x \in Hooks : x # h => hook'[x] = hook[x]
    <2>1. hook' = [hook EXCEPT ![h] = new]
      BY <1>1
    <2> QED
      BY <1>0, <1>2, <2>1
  <1>4. \A x \in Hooks : hook[x].made => hook'[x].made
    BY <1>2, <1>3
  <1>5. HooksRight'
    <2>1. \A x \in Hooks : ~hook'[x].made => hook'[x].procs = <<>>
      BY <1>0, <1>2, <1>3 DEF HooksRight
    <2>2. ASSUME NEW x \in Hooks, NEW k \in DOMAIN hook'[x].procs
          PROVE  \E j \in DOMAIN hook[x].procs : hook'[x].procs[k] = hook[x].procs[j] /\ hook'[x].arity = hook[x].arity
      <3>1. CASE x # h
        BY <1>3, <2>2, <3>1
      <3>2. CASE x = h
        BY <1>2, <1>3, <2>2, <3>2
      <3> QED
        BY <3>1, <3>2
    <2> QED
      BY <1>0, <1>3, <2>1, <2>2, HooksStay
  <1>6. Traced'
    <2>1. \A v \in Vars : var[v].hook # 0 => var[v].hook \in Hooks /\ hook[var[v].hook].made
      BY <1>0 DEF Traced, Tables, VarType
    <2> QED
      BY <1>0, <1>4, <2>1 DEF Traced
  <1>7. Tables'
    BY <1>0, <1>3 DEF Tables
  <1>8. Stacked' /\ RanOnce(did') /\ Kept(did', st')
    <2>1. \A x \in Hooks : x # h /\ hook[x].made => hook'[x] = hook[x]
      BY <1>3
    <2>2. PICK now \in [Hooks -> HookType] : now = hook'
      BY <1>3
    <2>3. PICK edit \in {"added", "removed"} : edit = "removed"
      OBVIOUS
    <2>4. edit # "added" /\ Ends(op, st, Edited(frames, h, edit), <<>>)
      BY <2>3
    <2> QED
      BY <1>4, <2>1, <2>2, <2>4, EditKeeps
  <1> QED
    BY <1>5, <1>6, <1>7, <1>8 DEF ProcInv

\* remove-hook!.
LEMMA RemoveHookKeeps == ProcInv /\ RemoveHook => ProcInv'
  <1> SUFFICES ASSUME ProcInv, NEW h \in Hooks, NEW w \in Words, hook[h].made, UNCHANGED <<word, var, sites, remade>>,
                      hook' = [hook EXCEPT ![h].procs = simple_array_delete(@, w)],
                      Ends("remove-hook!", st, Edited(frames, h, "removed"), <<>>)
               PROVE  ProcInv'
    BY DEF RemoveHook
  <1>1. hook[h].procs \in Seq(Words)
    BY DEF ProcInv, Tables, HookType
  <1>2. PICK less \in Seq(Words) : /\ less = simple_array_delete(hook[h].procs, w)
                                   /\ \A k \in DOMAIN less : \E j \in DOMAIN hook[h].procs : less[k] = hook[h].procs[j]
    BY <1>1, DeleteIs
  <1>3. hook' = [hook EXCEPT ![h].procs = less]
    BY <1>2
  <1> QED
    BY <1>2, <1>3, LessKeeps

\* hook-clear.
LEMMA HookClearKeeps == ProcInv /\ HookClear => ProcInv'
  <1> SUFFICES ASSUME ProcInv, NEW h \in Hooks, hook[h].made, UNCHANGED <<word, var, sites, remade>>,
                      hook' = [hook EXCEPT ![h].procs = <<>>],
                      Ends("hook-clear", st, Edited(frames, h, "removed"), <<>>)
               PROVE  ProcInv'
    BY DEF HookClear
  <1>1. <<>> \in Seq(Words) /\ DOMAIN <<>> = {}
    OBVIOUS
  <1>2. PICK less \in Seq(Words) : less = <<>> /\ DOMAIN less = {}
    BY <1>1
  <1>3. hook' = [hook EXCEPT ![h].procs = less]
    BY <1>2
  <1> QED
    BY <1>2, <1>3, LessKeeps

-----------------------------------------------------------------------------
(* Variables. *)

\* A variable with another value or another hook.
LEMMA VarWith ==
    ASSUME Tables, NEW v \in Vars, NEW c \in Cell, NEW h \in Hooks \cup {0}
    PROVE  /\ [var EXCEPT ![v].val = c] \in [Vars -> VarType] /\ [var EXCEPT ![v].hook = h] \in [Vars -> VarType]
           /\ \A x \in Vars : [var EXCEPT ![v].val = c][x].hook = var[x].hook
           /\ [var EXCEPT ![v].hook = h][v].hook = h /\ \A x \in Vars : x # v => [var EXCEPT ![v].hook = h][x] = var[x]
  <1>1. var \in [Vars -> VarType] /\ var[v] \in VarType
    BY DEF Tables
  <1>2. PICK a, b : a = [var[v] EXCEPT !.val = c] /\ b = [var[v] EXCEPT !.hook = h]
    OBVIOUS
  <1>3. a \in VarType /\ b \in VarType /\ a.hook = var[v].hook /\ b.hook = h
    BY <1>1, <1>2 DEF VarType
  <1>4. [var EXCEPT ![v].val = c] = [var EXCEPT ![v] = a] /\ [var EXCEPT ![v].hook = h] = [var EXCEPT ![v] = b]
    BY <1>2
  <1>5. /\ [var EXCEPT ![v] = a] \in [Vars -> VarType] /\ [var EXCEPT ![v] = b] \in [Vars -> VarType]
        /\ \A x \in Vars : [var EXCEPT ![v] = a][x] = IF x = v THEN a ELSE var[x]
        /\ \A x \in Vars : [var EXCEPT ![v] = b][x] = IF x = v THEN b ELSE var[x]
    BY <1>1, <1>3
  <1> QED
    BY <1>3, <1>4, <1>5
\* A variable gets a value: its hook stays.
LEMMA ValSet ==
    ASSUME Tables, Traced, HooksRight, NEW v \in Vars, NEW c \in Cell, var' = [var EXCEPT ![v].val = c],
           UNCHANGED <<word, hook, sites, remade>>
    PROVE  Tables' /\ Traced' /\ HooksRight'
  <1>1. var' \in [Vars -> VarType] /\ \A x \in Vars : var'[x].hook = var[x].hook
    BY VarWith
  <1>2. Traced'
    BY <1>1 DEF Traced
  <1>3. Tables'
    BY <1>1 DEF Tables
  <1>4. HooksRight'
    BY DEF HooksRight
  <1> QED
    BY <1>2, <1>3, <1>4

\* `to' stores the value and runs the hook of a traced variable.
LEMMA SetVarKeeps ==
    ASSUME ProcInv, NEW v \in Vars, NEW traced, SetVar(v, traced)
    PROVE  ProcInv'
  <1>0. Tables /\ Traced /\ HooksRight /\ st \in Stack /\ InBounds(st)
    BY AllRest DEF ProcInv
  <1>1. /\ STKDEPTH(st) > 0 /\ UNCHANGED <<word, hook, sites, remade>>
        /\ var' = [var EXCEPT ![v].val = ficlStackFetch(st, 0)]
    BY DEF SetVar
  <1>2. PICK c \in Cell : c = ficlStackFetch(st, 0)
    BY <1>0, FetchIs, 0 \in Int
  <1>3. Tables' /\ Traced' /\ HooksRight'
    BY <1>0, <1>1, <1>2, ValSet
  <1>4. PICK s \in Stack : s = ficlStackPop(st) /\ InBounds(s)
    <2>1. ficlStackPop(st) \in Stack
      BY <1>0, DropIs, 0 \in Int
    <2>2. PICK top \in Int : top = st.top
      BY <1>0, StackParts
    <2>3. top + 1 \in 0..StackSize /\ top + 1 > 0 /\ StackSize \in Nat
      BY <1>0, <1>1, <2>2, StackParts DEF InBounds
    <2>4. ficlStackPop(st).top = top - 1
      <3>1. ficlStackPop(st) = [st EXCEPT !.top = top - 1]
        BY <2>2 DEF ficlStackPop
      <3>2. top - 1 \in Int
        OBVIOUS
      <3> QED
        BY <1>0, <3>1, <3>2, TopWith
    <2>5. ficlStackPop(st).size = StackSize /\ STKDEPTH(ficlStackPop(st)) = (top - 1) + 1
      BY <2>1, <2>4, StackParts
    <2>6. (top - 1) + 1 \in 0..StackSize
      BY <2>3
    <2> QED
      BY <2>1, <2>5, <2>6 DEF InBounds
  <1>5. CASE traced /\ word[v].kind = "trace"
    <2>1. PICK h \in Hooks : h = var[v].hook /\ hook[h].made
      BY <1>0, <1>5 DEF Traced, Tables, VarType
    <2>2. PICK args \in Seq(Cell) : args = <<c>>
      <3>1. <<c>> \in Seq(Cell)
        OBVIOUS
      <3> QED
        BY <3>1
    <2>3. Continues("to", FRAME("trace", h, args, Len(hook[h].procs)), frames, s)
      BY <1>2, <1>4, <1>5, <2>1, <2>2 DEF SetVar
    <2>4. Stacked' /\ RanOnce(did') /\ Kept(did', st')
      BY <1>1, <1>4, <2>1, <2>3, BeginsIs
    <2> QED
      BY <1>3, <2>4 DEF ProcInv
  <1>6. CASE ~(traced /\ word[v].kind = "trace")
    <2>1. Ends("to", s, frames, <<>>)
      BY <1>4, <1>6 DEF SetVar
    <2>2. frames \in Seq(Frame) /\ Len(frames) <= MaxFrames /\ FramesOn(frames, hook', s) /\ Stacked
      BY <1>1 DEF ProcInv, Stacked, FramesOn
    <2>3. Stacked' /\ did' = [op |-> "to", ok |-> TRUE, v |-> <<>>]
      BY <2>1, <2>2, EndsIs
    <2>4. Quiet(did')
      BY <2>3 DEF Quiet
    <2> QED
      BY <1>3, <2>3, <2>4, QuietIs DEF ProcInv
  <1> QED
    BY <1>5, <1>6

\* In the interpreter.
LEMMA ToKeeps == ProcInv /\ To => ProcInv'
  BY SetVarKeeps DEF To

\* Compiled.
LEMMA RunToKeeps == ProcInv /\ RunTo => ProcInv'
  <1> SUFFICES ASSUME ProcInv, NEW n \in DOMAIN sites, SetVar(sites[n].var, sites[n].traced) PROVE ProcInv'
    BY DEF RunTo
  <1>0. sites \in Seq(SiteType)
    BY DEF ProcInv, Tables
  <1>1. sites[n] \in SiteType
    BY <1>0
  <1>2. sites[n].var \in Vars
    BY <1>1 DEF SiteType
  <1> QED
    BY <1>2, SetVarKeeps

\* `to' is compiled.
LEMMA CompileToKeeps == ProcInv /\ CompileTo => ProcInv'
  <1> SUFFICES ASSUME ProcInv, NEW v \in Vars, sites' = Append(sites, [var |-> v, traced |-> word[v].kind = "trace"]),
                      Ends("compile-to", st, frames, <<>>), UNCHANGED <<word, hook, var, remade>>
               PROVE  ProcInv'
    BY DEF CompileTo
  <1>1. PICK b \in BOOLEAN : b <=> word[v].kind = "trace"
    OBVIOUS
  <1>2. [var |-> v, traced |-> word[v].kind = "trace"] \in SiteType
    BY DEF SiteType
  <1>3. PICK site \in SiteType : site = [var |-> v, traced |-> word[v].kind = "trace"]
    BY <1>2
  <1>4. sites' = Append(sites, site) /\ sites \in Seq(SiteType)
    BY <1>3 DEF ProcInv, Tables
  <1>5. sites' \in Seq(SiteType)
    BY <1>4
  <1>6. Tables' /\ Traced' /\ HooksRight'
    BY <1>5 DEF ProcInv, Tables, Traced, HooksRight
  <1>7. Stacked' /\ RanOnce(did') /\ Kept(did', st')
    BY StaysKeeps
  <1> QED
    BY <1>6, <1>7 DEF ProcInv

\* fth_variable_set.
LEMMA VariableSetKeeps == ProcInv /\ VariableSet => ProcInv'
  <1> SUFFICES ASSUME ProcInv, NEW v \in Vars, NEW c \in sess.cells, var' = [var EXCEPT ![v].val = c],
                      Ends("variable-set", st, frames, <<>>), UNCHANGED <<word, hook, sites, remade>>
               PROVE  ProcInv'
    BY DEF VariableSet
  <1>1. c \in Cell /\ Tables /\ Traced /\ HooksRight
    BY SessIs DEF ProcInv
  <1>2. Tables' /\ Traced' /\ HooksRight'
    BY <1>1, ValSet
  <1>3. Stacked' /\ RanOnce(did') /\ Kept(did', st')
    BY StaysKeeps
  <1> QED
    BY <1>2, <1>3 DEF ProcInv

\* untrace-var.
LEMMA UntraceVarKeeps == ProcInv /\ UntraceVar => ProcInv'
  <1> SUFFICES ASSUME ProcInv, NEW v \in Vars, UNCHANGED <<hook, sites, remade>>,
                      IF word[v].kind = "trace"
                      THEN /\ word' = [word EXCEPT ![v].kind = "variable"] /\ var' = [var EXCEPT ![v].hook = 0]
                           /\ Ends("untrace-var", st, frames, <<>>)
                      ELSE UNCHANGED <<word, var>> /\ Raises("untrace-var")
               PROVE  ProcInv'
    BY DEF UntraceVar
  <1>0. Tables /\ Traced /\ HooksRight
    BY DEF ProcInv
  <1>1. CASE word[v].kind = "trace"
    <2>1. PICK new : new = [word[v] EXCEPT !.kind = "variable"]
      OBVIOUS
    <2>2. new \in WordType /\ new.kind = "variable" /\ word \in [Words \cup Vars -> WordType] /\ v \notin Words
      BY <1>0, <2>1, Constants DEF Tables, WordType
    <2>3. word' = [word EXCEPT ![v] = new]
      BY <1>1, <2>1
    <2>4. /\ word' \in [Words \cup Vars -> WordType] /\ word'[v] = new
          /\ \A x \in Words \cup Vars : x # v => word'[x] = word[x]
      BY <2>2, <2>3
    <2>5. \A x \in Words : word'[x] = word[x]
      BY <2>2, <2>4
    <2>6. var' = [var EXCEPT ![v].hook = 0] /\ Ends("untrace-var", st, frames, <<>>)
      BY <1>1
    <2>7. var' \in [Vars -> VarType] /\ var'[v].hook = 0 /\ \A x \in Vars : x # v => var'[x] = var[x]
      BY <1>0, <2>6, VarWith, CellsMade
    <2>8. Traced'
      BY <1>0, <2>2, <2>4, <2>5, <2>7 DEF Traced
    <2>9. HooksRight'
      <3>1. \A h \in Hooks : \A k \in DOMAIN hook[h].procs : hook[h].procs[k] \in Words
        BY <1>0 DEF Tables, HookType
      <3> QED
        BY <1>0, <2>5, <3>1 DEF HooksRight
    <2>10. Tables'
      BY <1>0, <2>4, <2>7 DEF Tables
    <2>11. Stacked' /\ RanOnce(did') /\ Kept(did', st')
      BY <2>6, StaysKeeps
    <2> QED
      BY <2>8, <2>9, <2>10, <2>11 DEF ProcInv
  <1>2. CASE word[v].kind # "trace"
    <2>1. Fails("untrace-var")
      BY <1>2 DEF Fails
    <2> QED
      BY <2>1, FailsKeeps
  <1> QED
    BY <1>1, <1>2

\* trace-var: the variable has its hook as soon as the proc is in it.
LEMMA TraceVarKeeps == ProcInv /\ TraceVar => ProcInv'
  <1> SUFFICES ASSUME ProcInv, TraceVar PROVE ProcInv'
    OBVIOUS
  <1>0. Tables /\ Traced /\ HooksRight /\ hook \in [Hooks -> HookType] /\ word \in [Words \cup Vars -> WordType]
    BY DEF ProcInv, Tables
  <1>a. PICK v \in Vars, w \in Words : \E h, hooks :
           /\ UNCHANGED <<sites, remade>> /\ (var[v].hook # 0 \/ FreeHooks # {})
           /\ h = IF var[v].hook # 0 THEN var[v].hook ELSE NewHook
           /\ hooks = IF var[v].hook # 0 THEN hook ELSE make_hook(hook, h, ARITY(1, 0, 0))
           /\ IF Suits(w, hooks[h].arity)
              THEN /\ word' = [fth_make_proc(word, w, hooks[h].arity) EXCEPT ![v].kind = "trace"]
                   /\ hook' = [hooks EXCEPT ![h].procs = Append(@, w)]
                   /\ var' = [var EXCEPT ![v].hook = h]
                   /\ Ends("trace-var", st, Edited(frames, h, "added"), <<>>)
              ELSE hook' = hooks /\ UNCHANGED <<word, var>> /\ Raises("trace-var")
    BY DEF TraceVar
  <1>1. PICK h, hooks :
           /\ UNCHANGED <<sites, remade>> /\ (var[v].hook # 0 \/ FreeHooks # {})
           /\ h = IF var[v].hook # 0 THEN var[v].hook ELSE NewHook
           /\ hooks = IF var[v].hook # 0 THEN hook ELSE make_hook(hook, h, ARITY(1, 0, 0))
           /\ IF Suits(w, hooks[h].arity)
              THEN /\ word' = [fth_make_proc(word, w, hooks[h].arity) EXCEPT ![v].kind = "trace"]
                   /\ hook' = [hooks EXCEPT ![h].procs = Append(@, w)]
                   /\ var' = [var EXCEPT ![v].hook = h]
                   /\ Ends("trace-var", st, Edited(frames, h, "added"), <<>>)
              ELSE hook' = hooks /\ UNCHANGED <<word, var>> /\ Raises("trace-var")
    BY <1>a
  <1>2. ARITY(1, 0, 0) \in Arities
    BY DEF ARITY, Arities
  <1>3. /\ h \in Hooks /\ hooks \in [Hooks -> HookType] /\ hooks[h].made
        /\ \/ hooks = hook
           \/ ~hook[h].made /\ hooks[h].procs = <<>> /\ \A x \in Hooks : x # h => hooks[x] = hook[x]
    <2>1. CASE var[v].hook # 0
      BY <1>0, <1>1, <2>1 DEF Traced, Tables, VarType
    <2>2. CASE var[v].hook = 0
      <3>1. h = NewHook /\ h \in Hooks /\ ~hook[h].made /\ hooks = make_hook(hook, h, ARITY(1, 0, 0))
        BY <1>1, <2>2, NewHookIs
      <3> QED
        BY <1>0, <1>2, <3>1, MadeHook
    <2> QED
      BY <2>1, <2>2
  <1>4. \A x \in Hooks : hook[x].made => hooks[x].made
    BY <1>3
  <1>5. \A x \in Vars : var[x].hook # 0 => var[x].hook \in Hooks /\ hook[var[x].hook].made
    BY <1>0 DEF Traced, Tables, VarType
  <1>6. CASE Suits(w, hooks[h].arity)
    <2>1. FTH_PROC_P(w) => Arity(w) = hooks[h].arity
      BY <1>6 DEF Suits
    <2>2. PICK a \in Arities : a = hooks[h].arity
      BY <1>3 DEF HookType
    <2>3. PICK proc : proc = [kind |-> "proc", arity |-> a]
      OBVIOUS
    <2>4. PICK trace : trace = [word[v] EXCEPT !.kind = "trace"]
      OBVIOUS
    <2>5. v # w /\ v \notin Words /\ proc \in WordType /\ trace \in WordType /\ proc.kind = "proc" /\ trace.kind = "trace"
      BY <1>0, <2>3, <2>4, Constants DEF WordType
    <2>6. word' = [[word EXCEPT ![w] = proc] EXCEPT ![v].kind = "trace"]
      BY <1>1, <1>6, <2>2, <2>3 DEF fth_make_proc
    <2>7. PICK words : words = [word EXCEPT ![w] = proc]
      OBVIOUS
    <2>8. words \in [Words \cup Vars -> WordType] /\ words[v] = word[v] /\ words[w] = proc
          /\ \A x \in Words \cup Vars : x # w => words[x] = word[x]
      BY <1>0, <2>5, <2>7
    <2>9. word' = [words EXCEPT ![v] = trace]
      BY <2>4, <2>6, <2>7, <2>8
    <2>10. /\ word' \in [Words \cup Vars -> WordType] /\ word'[v] = trace /\ word'[w] = proc
           /\ \A x \in Words \cup Vars : x # w /\ x # v => word'[x] = word[x]
      BY <2>5, <2>8, <2>9
    <2>11. \A x \in Words : x # w => word'[x] = word[x]
      BY <2>5, <2>10
    <2>12. /\ hook' = [hooks EXCEPT ![h].procs = Append(@, w)] /\ var' = [var EXCEPT ![v].hook = h]
           /\ Ends("trace-var", st, Edited(frames, h, "added"), <<>>) /\ remade' = remade
      BY <1>1, <1>6
    <2>13. /\ HooksRight' /\ Stacked' /\ RanOnce(did') /\ Kept(did', st') /\ hook' \in [Hooks -> HookType]
           /\ hook'[h].made /\ \A x \in Hooks : hook[x].made => hook'[x].made
      <3>1. word'[w] = [kind |-> "proc", arity |-> hooks[h].arity]
        BY <2>2, <2>3, <2>10
      <3> QED
        BY <1>3, <2>1, <2>11, <2>12, <3>1, AddedKeeps
    <2>14. var' \in [Vars -> VarType] /\ var'[v].hook = h /\ \A x \in Vars : x # v => var'[x] = var[x]
      BY <1>0, <1>3, <2>12, VarWith, CellsMade
    <2>15. Traced'
      <3>1. \A x \in Words : word'[x].kind \in {"word", "proc"}
        BY <1>0, <2>5, <2>10, <2>11 DEF Traced
      <3>2. h # 0
        BY <1>3, Constants
      <3>3. \A x \in Vars : x # v => word'[x] = word[x]
        BY <2>10, Constants
      <3>4. ASSUME NEW x \in Vars
            PROVE  /\ word'[x].kind \in {"variable", "trace"} /\ (word'[x].kind = "trace" <=> var'[x].hook # 0)
                   /\ (var'[x].hook # 0 => hook'[var'[x].hook].made)
        <4>1. CASE x = v
          BY <2>5, <2>10, <2>13, <2>14, <3>2, <4>1
        <4>2. CASE x # v
          <5>1. word'[x] = word[x] /\ var'[x] = var[x]
            BY <2>14, <3>3, <4>2
          <5>2. var[x].hook # 0 => hook'[var[x].hook].made
            BY <1>5, <2>13
          <5> QED
            BY <1>0, <5>1, <5>2 DEF Traced
        <4> QED
          BY <4>1, <4>2
      <3> QED
        BY <3>1, <3>4 DEF Traced
    <2>16. Tables'
      BY <1>0, <1>1, <2>10, <2>13, <2>14 DEF Tables
    <2> QED
      BY <2>13, <2>15, <2>16 DEF ProcInv
  <1>7. CASE ~Suits(w, hooks[h].arity)
    <2>1. hook' = hooks /\ UNCHANGED <<word, var, sites, remade>> /\ Raises("trace-var")
      BY <1>1, <1>7
    <2>2. Stacked' /\ RanOnce(did') /\ Kept(did', st')
      BY <2>1, RaisesKeeps
    <2>3. Traced'
      BY <1>0, <1>4, <1>5, <2>1 DEF Traced
    <2>4. HooksRight'
      <3>1. \A x \in Hooks : hooks[x] = hook[x] \/ (hooks[x].made /\ hooks[x].procs = <<>>)
        BY <1>3
      <3>2. \A x \in Hooks : ~hook'[x].made => hook'[x].procs = <<>>
        BY <1>0, <2>1, <3>1 DEF HooksRight
      <3>3. \A x \in Hooks : \A k \in DOMAIN hook'[x].procs : hooks[x] = hook[x]
        BY <2>1, <3>1
      <3>4. \A x \in Hooks : \A k \in DOMAIN hook'[x].procs :
               \E j \in DOMAIN hook[x].procs : hook'[x].procs[k] = hook[x].procs[j] /\ hook'[x].arity = hook[x].arity
        BY <2>1, <3>3
      <3>5. \A x \in Words : word[x].kind = "proc" => word'[x] = word[x]
        BY <2>1
      <3>6. hook' \in [Hooks -> HookType] /\ remade' = remade
        BY <1>3, <2>1
      <3> QED
        BY <1>0, <3>2, <3>4, <3>5, <3>6, HooksStay
    <2>5. Tables'
      BY <1>0, <1>3, <2>1 DEF Tables
    <2> QED
      BY <2>2, <2>3, <2>4, <2>5 DEF ProcInv
  <1> QED
    BY <1>6, <1>7

-----------------------------------------------------------------------------
(* The invariant. *)

\* A program begins with cells on the stack, words that are no procs and variables without hooks.
LEMMA InitInv == Init => ProcInv
  <1> SUFFICES ASSUME Init PROVE ProcInv
    OBVIOUS
  <1>1. PICK q \in sess.stacks : st = Pushes(ficlStackCreate(StackSize), q)
    BY DEF Init
  <1>2. sess \in Sessions /\ did = Nothing /\ sites = <<>> /\ frames = <<>> /\ remade = {}
    BY DEF Init
  <1>3. q \in Seq(Cell) /\ Len(q) <= StackSize /\ Len(q) \in Nat /\ StackSize \in Nat
    BY <1>1, <1>2, Constants
  <1>4. PICK n \in Nat : n = Len(q)
    BY <1>3
  <1>5. PICK s \in Stack : s = ficlStackCreate(StackSize) /\ s.top = -1
    BY CreateIs
  <1>6. st \in Stack /\ st.top = -1 + n
    BY <1>1, <1>3, <1>4, <1>5, PushesIs
  <1>7. InBounds(st)
    <2>1. STKDEPTH(st) = (-1 + n) + 1 /\ st.size = StackSize
      BY <1>6, StackParts
    <2>2. (-1 + n) + 1 \in 0..StackSize
      BY <1>3, <1>4
    <2> QED
      BY <2>1, <2>2 DEF InBounds
  <1>8. NoArity \in Arities
    BY DEF NoArity, ARITY, Arities
  <1>9. Tables
    <2>1. word \in [Words \cup Vars -> WordType]
      BY <1>8 DEF Init, WordType
    <2>2. \A h \in Hooks : hook[h] = NoHook
      BY DEF Init
    <2>3. NoHook \in HookType
      <3>1. <<>> \in Seq(Words)
        OBVIOUS
      <3> QED
        BY <1>8, <3>1 DEF NoHook, HookType
    <2>4. hook \in [Hooks -> HookType]
      BY <2>3 DEF Init
    <2>5. INT(0) \in Cell
      BY CellsMade, 0 \in Int
    <2>6. var \in [Vars -> VarType]
      BY <2>5 DEF Init, VarType
    <2>7. sites \in Seq(SiteType)
      BY <1>2
    <2> QED
      BY <2>1, <2>4, <2>6, <2>7 DEF Tables
  <1>10. Traced
    <2>1. \A w \in Words : word[w].kind = "word"
      BY Constants DEF Init
    <2>2. \A v \in Vars : word[v].kind = "variable" /\ var[v].hook = 0
      BY DEF Init
    <2> QED
      BY <2>1, <2>2 DEF Traced
  <1>11. HooksRight
    <2>1. \A h \in Hooks : hook[h].procs = <<>>
      BY DEF Init, NoHook
    <2>2. DOMAIN <<>> = {}
      OBVIOUS
    <2> QED
      BY <2>1, <2>2 DEF HooksRight
  <1>12. Stacked
    <2>1. frames \in Seq(Frame) /\ Len(frames) = 0 /\ DOMAIN frames = {}
      BY <1>2
    <2>2. Len(frames) <= MaxFrames
      BY <2>1, Constants
    <2> QED
      BY <1>2, <1>6, <1>7, <2>1, <2>2 DEF Stacked
  <1>13. Quiet(did)
    BY <1>2 DEF Nothing, Quiet
  <1> QED
    BY <1>9, <1>10, <1>11, <1>12, <1>13, QuietIs DEF ProcInv

\* Every word keeps the invariant.
LEMMA StepInv == ProcInv /\ [Next]_vars => ProcInv'
  <1> SUFFICES ASSUME ProcInv, [Next]_vars PROVE ProcInv'
    OBVIOUS
  <1>1. CASE ProcNext
    <2>1. CASE Push \/ Drop \/ GetOptkey \/ GetOptarg \/ OptkeyC \/ OptargC \/ GetOptkeysWord \/ GetOptargs
      BY <2>1, PushKeeps, DropKeeps, GetOptkeyKeeps, GetOptargKeeps, OptkeyCKeeps, OptargCKeeps,
         GetOptkeysKeeps, GetOptargsKeeps
    <2>2. CASE EnterLocals \/ MakeProc \/ ExtendedArgs \/ AskProc
      BY <2>2, EnterLocalsKeeps, MakeProcKeeps, ExtendedArgsKeeps, AskProcKeeps
    <2>3. CASE Return \/ ProcApply \/ XtCall \/ Throw
      BY <2>3, ReturnKeeps, ProcApplyKeeps, XtCallKeeps, ThrowKeeps
    <2> QED
      BY <1>1, <2>1, <2>2, <2>3 DEF ProcNext
  <1>2. CASE HookNext
    <2>1. CASE MakeHook \/ AddHook \/ RemoveHook \/ HookClear \/ AskHook \/ HookApply \/ RunHook
      BY <2>1, MakeHookKeeps, AddHookKeeps, RemoveHookKeeps, HookClearKeeps, AskHookKeeps, HookApplyKeeps,
         RunHookKeeps
    <2>2. CASE TraceVar \/ UntraceVar \/ To \/ CompileTo \/ RunTo \/ VariableSet
      BY <2>2, TraceVarKeeps, UntraceVarKeeps, ToKeeps, CompileToKeeps, RunToKeeps, VariableSetKeeps
    <2> QED
      BY <1>2, <2>1, <2>2 DEF HookNext
  <1>3. CASE UNCHANGED vars
    BY <1>3 DEF vars, ProcInv, Tables, Traced, HooksRight, Stacked, Stays, STKDEPTH, InBounds,
                Kept, ficlStackWalk
  <1> QED
    BY <1>1, <1>2, <1>3 DEF Next

-----------------------------------------------------------------------------
(* What follows from it. *)

\* The types that the runs check.
LEMMA InvTypes == ProcInv => TypeOK
  <1> SUFFICES ASSUME ProcInv PROVE TypeOK
    OBVIOUS
  <1>1. InBounds(st) /\ Len(frames) <= MaxFrames
    BY DEF ProcInv, Stacked
  <1>2. \A v \in Vars : word[v].kind = "trace" <=> var[v].hook # 0
    BY DEF ProcInv, Traced
  <1>3. ASSUME NEW h \in Hooks, NEW w \in Range(hook[h].procs) \ remade
        PROVE  hook[h].made /\ FTH_PROC_P(w) /\ Arity(w) = hook[h].arity
    <2>1. PICK k \in DOMAIN hook[h].procs : w = hook[h].procs[k]
      BY DEF Range
    <2>2. hook[h].made
      <3>1. DOMAIN <<>> = {}
        OBVIOUS
      <3> QED
        BY <2>1, <3>1 DEF ProcInv, HooksRight
    <2>3. word[w].kind = "proc" /\ word[w].arity = hook[h].arity
      BY <2>1 DEF ProcInv, HooksRight
    <2> QED
      BY <2>2, <2>3 DEF FTH_PROC_P, Arity
  <1> QED
    BY <1>1, <1>2, <1>3 DEF TypeOK

\* What RunsEachOnce says of a run.
LEMMA InvOnce == ProcInv => RunsEachOnce
  <1> SUFFICES ASSUME ProcInv PROVE RunsEachOnce
    OBVIOUS
  <1>1. TypeOK /\ RanOnce(did)
    BY InvTypes DEF ProcInv
  <1> QED
    BY <1>1 DEF RunsEachOnce, RanOnce, OnceOf

\* What StackKept says of a stack.
LEMMA InvStack == ProcInv => StackKept
  BY DEF ProcInv, Kept, StackKept

\* The tables of words, hooks and variables, the frames of what runs and the stack below them
\* agree, whatever the words of a program are and in whatever order it executes them.
THEOREM ProcInvariant == Spec => []ProcInv
  <1>1. Init => ProcInv
    BY InitInv
  <1>2. ProcInv /\ [Next]_vars => ProcInv'
    BY StepInv
  <1> QED
    BY <1>1, <1>2, PTL DEF Spec

\* Types (TypeOK): the stack stays in its bounds, a traced variable has a hook, and what a hook
\* has are procs of the hook's arity.
THEOREM ProcTypes == Spec => []TypeOK
  <1>1. ProcInv => TypeOK
    BY InvTypes
  <1> QED
    BY <1>1, ProcInvariant, PTL

\* fth_hook_apply and the other ways to run a hook (RunsEachOnce): a run that loses no proc on its
\* way calls each once, in order, and run-hook has as many results as there were procs.
THEOREM RunsOnce == Spec => []RunsEachOnce
  <1>1. ProcInv => RunsEachOnce
    BY InvOnce
  <1> QED
    BY <1>1, ProcInvariant, PTL

\* execute_proc (StackKept): a proc that leaves what is below its arguments alone is one value for
\* its caller, and a run of a hook one array, however procs and hooks run inside of one another.
THEOREM StackStays == Spec => []StackKept
  <1>1. ProcInv => StackKept
    BY InvStack
  <1> QED
    BY <1>1, ProcInvariant, PTL
=============================================================================
