----------------------------- MODULE FthVmProofs -----------------------------
(***************************************************************************)
(* Proofs about FthVm, for any exceptions and any depth of the C stack.    *)
(***************************************************************************)
EXTENDS FthVm, WellFoundedInduction, TLAPS

-----------------------------------------------------------------------------
(* The inductive invariant.  Shape holds always, the other parts say what   *)
(* holds as long as no signal has come.                                     *)

\* Buffers belong to functions further down the C stack, and only the first
\* function finds none before it.
Shape ==
    /\ handler <= Depth /\ sig_toplevel <= Depth
    /\ \A k \in 1..Depth : ctx[k].prev < k
    /\ \A k \in 2..Depth : ctx[k].prev # 0
    /\ ctx # <<>> \/ flight # None => handler # 0

Nested ==
    ~signalled => /\ handler = Depth
                  /\ \A k \in 1..Depth : ctx[k].prev = k - 1

\* The catch in guard is still there.
Guarded ==
    ~signalled /\ flight # None =>
        /\ guard <= Depth
        /\ guard # 0 => ctx[guard].kind \in Catches
        /\ \A k \in 1..Depth : ctx[k].kind \in Catches => k <= guard

\* The first n functions of c: one of them is an fth-catch; every fth-catch has ended
\* another one.
HasFthCatch(c, n) == \E j \in 1..n : c[j].kind = "fthcatch"
AllEnded(c, n) == \A j \in 1..n : c[j].kind = "fthcatch" => c[j].ended

\* The flag, or the copy CATCH has of it, is set only under an fth-catch and
\* clear only when all fth-catches have ended another one.
Flagged ==
    ~signalled =>
        /\ fth_catch_p => HasFthCatch(ctx, Depth)
        /\ flight = None /\ ~fth_catch_p => AllEnded(ctx, Depth)
        /\ \A k \in 1..Depth : ctx[k].kind = "catch" =>
              /\ ctx[k].saved_p => HasFthCatch(ctx, k - 1)
              /\ ~ctx[k].saved_p => AllEnded(ctx, k - 1)
        /\ flight # None /\ flight.reported => AllEnded(ctx, Depth)

Recorded ==
    /\ flight # None /\ flight.exc # None => last_exception = flight.exc
    /\ GivesWhatWasRaised

\* Only a longjmp to a dead buffer crashes.
Alive == ~signalled => ~crashed

VmInv == TypeOK /\ Shape /\ Nested /\ Guarded /\ Flagged /\ Recorded /\ Alive

-----------------------------------------------------------------------------
(* The functions on the C stack. *)

\* What the type Fn says of a function's fields.
LEMMA FnFields ==
    ASSUME NEW e \in Fn
    PROVE  /\ e.kind \in {"string", "evaluate", "xt", "catch", "fthcatch"}
           /\ e.prev \in Pos
           /\ e.kind = "catch" => e.saved_p \in BOOLEAN
           /\ e.kind = "fthcatch" => e.want \in Exc \cup {All} /\ e.ended \in BOOLEAN
  BY DEF Fn

\* Depth and positions are integers of the expected range.
LEMMA Ranges ==
    ASSUME TypeOK
    PROVE  /\ Depth \in Nat /\ MaxDepth \in Nat /\ Depth <= MaxDepth
           /\ handler \in Int /\ -1 <= handler /\ sig_toplevel \in Int /\ -1 <= sig_toplevel
           /\ guard \in Nat
           /\ \A k \in 1..Depth : ctx[k] \in Fn /\ ctx[k].prev \in Int /\ -1 <= ctx[k].prev
           /\ ctx = <<>> <=> Depth = 0
  <1>1. Depth \in Nat /\ MaxDepth \in Nat /\ Depth <= MaxDepth
    BY VmAssumption DEF TypeOK, Depth
  <1>2. \A k \in 1..Depth : ctx[k] \in Fn
    BY DEF TypeOK, Depth
  <1>3. \A k \in 1..Depth : ctx[k].prev \in Int /\ -1 <= ctx[k].prev
    BY <1>1, <1>2, FnFields DEF Pos
  <1>4. ctx = <<>> <=> Depth = 0
    BY DEF TypeOK, Depth
  <1> QED
    BY <1>1, <1>2, <1>3, <1>4 DEF TypeOK, Pos

\* The function fn after a step in which it stays: an fth-catch may learn that
\* another one has ended inside it.
Same(e, fn) ==
    /\ e.kind = fn.kind /\ e.prev = fn.prev
    /\ fn.kind = "catch" => e.saved_p = fn.saved_p
    /\ fn.kind = "fthcatch" /\ fn.ended => e.ended

\* The first n functions are left.
Left(n) ==
    /\ ctx' \in Seq(Fn) /\ Len(ctx') = n
    /\ \A k \in 1..n : Same(ctx'[k], ctx[k])

\* An fth-catch around another one that ends stays what it is.
LEMMA NoteEndedSame ==
    ASSUME NEW c \in Seq(Fn), NEW fn
    PROVE  /\ NoteEnded(fn, c) \in Seq(Fn)
           /\ Len(NoteEnded(fn, c)) = Len(c)
           /\ \A k \in 1..Len(c) : Same(NoteEnded(fn, c)[k], c[k])
           /\ fn.kind = "fthcatch" =>
                 \A k \in 1..Len(c) : c[k].kind = "fthcatch" => NoteEnded(fn, c)[k].ended
  <1>1. ASSUME NEW e \in Fn, e.kind = "fthcatch"
        PROVE  LET f == [e EXCEPT !.ended = TRUE] IN
                 /\ f \in Fn /\ f.kind = e.kind /\ f.prev = e.prev /\ f.ended
    BY <1>1 DEF Fn
  <1>2. CASE fn.kind # "fthcatch"
    BY <1>2 DEF NoteEnded, Same
  <1>3. CASE fn.kind = "fthcatch"
    <2> DEFINE d == [k \in DOMAIN c |->
                       IF c[k].kind = "fthcatch" THEN [c[k] EXCEPT !.ended = TRUE] ELSE c[k]]
    <2>1. NoteEnded(fn, c) = d
      BY <1>3 DEF NoteEnded
    <2>2. DOMAIN c = 1..Len(c) /\ Len(c) \in Nat /\ \A k \in 1..Len(c) : c[k] \in Fn
      OBVIOUS
    <2>3. \A k \in 1..Len(c) : d[k] \in Fn /\ Same(d[k], c[k])
                               /\ (c[k].kind = "fthcatch" => d[k].ended)
      BY <1>1, <2>2 DEF Same
    <2>4. d \in Seq(Fn) /\ Len(d) = Len(c)
      BY <2>2, <2>3
    <2> QED
      BY <2>1, <2>3, <2>4
  <1> QED
    BY <1>2, <1>3

\* The functions below position k.
LEMMA BelowLeft ==
    ASSUME TypeOK, NEW k \in 1..Depth
    PROVE  /\ Below(k) \in Seq(Fn) /\ Len(Below(k)) = k - 1
           /\ \A j \in 1..(k - 1) : Below(k)[j] = ctx[j]
  BY DEF TypeOK, Below, Depth

\* A return or a handler in position k leaves the functions below it.
LEMMA LeavesBelow ==
    ASSUME TypeOK, NEW k \in 1..Depth,
           ctx' = Below(k) \/ ctx' = NoteEnded(ctx[k], Below(k))
    PROVE  Left(k - 1)
  <1>1. /\ Below(k) \in Seq(Fn) /\ Len(Below(k)) = k - 1
        /\ \A j \in 1..(k - 1) : Below(k)[j] = ctx[j]
    BY BelowLeft
  <1>2. CASE ctx' = Below(k)
    BY <1>1, <1>2 DEF Left, Same
  <1>3. CASE ctx' = NoteEnded(ctx[k], Below(k))
    BY <1>1, <1>3, NoteEndedSame DEF Left
  <1> QED
    BY <1>2, <1>3

\* The type of what is left
LEMMA LeftType ==
    ASSUME TypeOK, NEW n \in 0..Depth, Left(n)
    PROVE  /\ ctx' \in Seq(Fn) /\ Depth' = n /\ Depth' <= MaxDepth
           /\ \A k \in 1..n : Same(ctx'[k], ctx[k])
           /\ ctx' = <<>> <=> n = 0
  BY Ranges DEF Left, Depth

\* fth_sig_toplevel after functions have gone
LEMMA SigAfterType ==
    ASSUME TypeOK, NEW k \in 1..Depth
    PROVE  SigAfter(k) \in Pos /\ SigAfter(k) <= k - 1
  BY Ranges DEF SigAfter, Pos, Dead, TypeOK

-----------------------------------------------------------------------------
(* One step preserves TypeOK and Shape. *)

Caught == [want : Exc \cup {All}, raised : Exc \cup {None}, got : Exc \cup {None}]

\* A function is called: the C functions that set vm->exceptionHandler.
LEMMA CallShape ==
    ASSUME TypeOK, Shape, NEW fn \in Fn, fn.prev = handler, Call(fn),
           fth_catch_p' \in BOOLEAN, sig_toplevel' \in {sig_toplevel, Depth + 1}
    PROVE  TypeOK' /\ Shape'
  <1>1. Depth \in Nat /\ Depth < MaxDepth /\ MaxDepth \in Nat
    BY Ranges DEF Call, Room
  <1>2. ctx' \in Seq(Fn) /\ Depth' = Depth + 1 /\ ctx' # <<>>
    BY DEF Call, TypeOK, Depth
  <1>3. /\ \A k \in 1..Depth : ctx'[k] = ctx[k]
        /\ ctx'[Depth + 1] = fn
    BY <1>1 DEF Call, TypeOK, Depth
  <1>4. handler' = Depth + 1 /\ sig_toplevel' \in Pos /\ sig_toplevel' <= Depth + 1
    BY <1>1, Ranges DEF Call, Shape, Pos, TypeOK
  <1>5. caught' \in Caught
    BY DEF Call, NotCaught, Caught
  <1>6. TypeOK'
    BY <1>1, <1>2, <1>4, <1>5 DEF TypeOK, Call, Pos, Caught
  <1>7. \A k \in 1..(Depth + 1) : ctx'[k].prev < k
    BY <1>1, <1>3, Ranges DEF Shape
  <1>8. \A k \in 2..(Depth + 1) : ctx'[k].prev # 0
    <2> SUFFICES ASSUME NEW k \in 2..(Depth + 1) PROVE ctx'[k].prev # 0
      OBVIOUS
    <2>1. CASE k = Depth + 1
      BY <1>1, <1>3, <2>1, Ranges DEF Shape
    <2>2. CASE k # Depth + 1
      BY <1>1, <1>3, <2>2 DEF Shape
    <2> QED
      BY <2>1, <2>2
  <1> QED
    BY <1>1, <1>2, <1>4, <1>6, <1>7, <1>8 DEF Shape

\* What is left when functions end has the shape of what was there.
LEMMA LeftShape ==
    ASSUME TypeOK, Shape, NEW k \in 1..Depth, Left(k - 1),
           sig_toplevel' = SigAfter(k),
           handler' = ctx[k].prev \/ handler' = Dead \/ (handler' = handler /\ handler < k),
           flight' # None => handler' # 0
    PROVE  Shape' /\ sig_toplevel' \in Pos /\ handler' \in Pos
  <1>1. k \in Nat \ {0} /\ k <= Depth /\ Depth \in Nat
    BY Ranges
  <1>2. /\ Depth' = k - 1 /\ (ctx' = <<>> <=> k = 1)
        /\ \A j \in 1..(k - 1) : ctx'[j].prev = ctx[j].prev
    BY <1>1, LeftType DEF Same
  <1>3. sig_toplevel' \in Pos /\ sig_toplevel' <= k - 1
    BY SigAfterType
  <1>4. ctx[k] \in Fn /\ ctx[k].prev \in Pos /\ ctx[k].prev < k
    BY <1>1, Ranges, FnFields DEF Shape
  <1>5. handler' \in Pos /\ handler' <= k - 1
    BY <1>1, <1>4, Ranges DEF Pos, Dead
  <1>6. ctx' # <<>> => handler' # 0
    <2>1. ctx # <<>>
      BY <1>1, Ranges
    <2> QED
      BY <1>1, <1>2, <2>1 DEF Shape, Dead
  <1>7. \A j \in 1..(k - 1) : ctx'[j].prev < j
    BY <1>1, <1>2 DEF Shape
  <1>8. \A j \in 2..(k - 1) : ctx'[j].prev # 0
    BY <1>1, <1>2 DEF Shape
  <1> QED
    BY <1>1, <1>2, <1>3, <1>5, <1>6, <1>7, <1>8 DEF Shape

\* What a handler does: it ends the flight, or passes it on to the handler before.
LEMMA UnwindStep ==
    ASSUME TypeOK, Shape, Unwind
    PROVE  /\ handler \in 1..Depth /\ flight \in Flight
           /\ Left(handler - 1)
           /\ handler' = ctx[handler].prev
           /\ sig_toplevel' = SigAfter(handler)
           /\ UNCHANGED <<last_exception, crashed, signalled>>
           /\ fth_catch_p' \in BOOLEAN
           /\ caught' \in Caught
           /\ \/ flight' = None /\ guard' = 0
              \/ /\ flight' \in Flight /\ flight'.reported = flight.reported
                 /\ flight'.exc = flight.exc
                 /\ guard' = guard
                 /\ ctx[handler].prev # 0
                 /\ ctx[handler].kind \notin Catches
  <1>1. handler \in 1..Depth /\ flight \in Flight
    BY Ranges DEF Unwind, Shape, Dead, TypeOK, Flight
  <1> DEFINE k == handler
  <1>2. ctx[k] \in Fn /\ k \in Nat \ {0}
    BY <1>1, Ranges
  <1>3. CASE HandleString(k) /\ ctx[k].kind \in {"string", "evaluate"}
    <2>1. Left(k - 1)
      BY <1>1, <1>3, LeavesBelow DEF HandleString
    <2>2. CASE k = 1
      BY <1>1, <1>3, <2>1, <2>2 DEF HandleString, Land, Unwind, TypeOK, Caught
    <2>3. CASE k # 1
      <3>1. flight' = [flight EXCEPT !.status = "quit"] /\ guard' = guard
        BY <1>3, <2>3 DEF HandleString
      <3>2. flight' \in Flight /\ flight'.reported = flight.reported /\ flight'.exc = flight.exc
        BY <1>1, <3>1 DEF Flight, Status
      <3>3. ctx[k].prev # 0
        BY <1>1, <1>2, <2>3 DEF Shape
      <3> QED
        BY <1>1, <1>3, <2>1, <3>1, <3>2, <3>3 DEF HandleString, Unwind, TypeOK, Caught, Catches
    <2> QED
      BY <2>2, <2>3
  <1>4. CASE HandleXt(k) /\ ctx[k].kind = "xt"
    <2>1. Left(k - 1)
      BY <1>1, <1>4, LeavesBelow DEF HandleXt
    <2>2. CASE ctx[k].prev = 0
      BY <1>1, <1>4, <2>1, <2>2 DEF HandleXt, Land, Unwind, TypeOK, Caught
    <2>3. CASE ctx[k].prev # 0
      BY <1>1, <1>4, <2>1, <2>3 DEF HandleXt, Unwind, TypeOK, Caught, Catches
    <2> QED
      BY <2>2, <2>3
  <1>5. CASE HandleCatch(k) /\ ctx[k].kind = "catch"
    <2>1. Left(k - 1)
      BY <1>1, <1>5, LeavesBelow DEF HandleCatch
    <2>2. ctx[k].saved_p \in BOOLEAN
      BY <1>2, <1>5, FnFields
    <2> QED
      BY <1>1, <1>5, <2>1, <2>2 DEF HandleCatch, Land, Unwind, TypeOK, Caught
  <1>6. CASE HandleFthCatch(k) /\ ctx[k].kind = "fthcatch"
    <2>1. Left(k - 1)
      BY <1>1, <1>6, LeavesBelow DEF HandleFthCatch
    <2>2. ctx[k].want \in Exc \cup {All} /\ flight.exc \in Exc \cup {None}
      BY <1>1, <1>2, <1>6, FnFields DEF Flight
    <2>3. caught' \in Caught
      <3>1. (IF ctx[k].want = All THEN last_exception ELSE ctx[k].want) \in Exc \cup {None}
        BY <2>2 DEF TypeOK
      <3> QED
        BY <1>6, <2>2, <3>1 DEF HandleFthCatch, Caught
    <2> QED
      BY <1>1, <1>6, <2>1, <2>3 DEF HandleFthCatch, Land, Unwind
  <1> QED
    BY <1>3, <1>4, <1>5, <1>6 DEF Unwind, Handle

\* The functions that are called, and what calling them does to the rest.
LEMMA CallStep ==
    ASSUME TypeOK, EvalLine \/ Evaluate \/ ExecuteXT \/ Catch \/ FthCatch
    PROVE  \E fn \in Fn :
              /\ Call(fn) /\ fn.prev = handler
              /\ fth_catch_p' \in BOOLEAN /\ sig_toplevel' \in {sig_toplevel, Depth + 1}
              /\ fn.kind # "fthcatch" => fth_catch_p' = fth_catch_p
              /\ fn.kind = "fthcatch" => fth_catch_p' = TRUE
              /\ fn.kind = "catch" => fn.saved_p = fth_catch_p
  <1>0. handler \in Pos /\ fth_catch_p \in BOOLEAN
    BY DEF TypeOK
  <1>1. CASE EvalLine
    <2> DEFINE fn == [kind |-> "string", prev |-> handler]
    <2>1. fn \in Fn
      BY <1>0 DEF Fn
    <2> QED
      BY <1>0, <1>1, <2>1 DEF EvalLine
  <1>2. CASE Evaluate
    <2> DEFINE fn == [kind |-> "evaluate", prev |-> handler]
    <2>1. fn \in Fn
      BY <1>0 DEF Fn
    <2> QED
      BY <1>0, <1>2, <2>1 DEF Evaluate
  <1>3. CASE ExecuteXT
    <2> DEFINE fn == [kind |-> "xt", prev |-> handler]
    <2>1. fn \in Fn
      BY <1>0 DEF Fn
    <2> QED
      BY <1>0, <1>3, <2>1 DEF ExecuteXT
  <1>4. CASE Catch
    <2> DEFINE fn == [kind |-> "catch", prev |-> handler, saved_p |-> fth_catch_p]
    <2>1. fn \in Fn
      BY <1>0 DEF Fn
    <2> QED
      BY <1>0, <1>4, <2>1 DEF Catch
  <1>5. CASE FthCatch
    <2>1. PICK want \in Exc \cup {All} :
             /\ Call([kind |-> "fthcatch", prev |-> handler, want |-> want, ended |-> FALSE])
             /\ fth_catch_p' = TRUE /\ UNCHANGED sig_toplevel
      BY <1>5 DEF FthCatch
    <2> DEFINE fn == [kind |-> "fthcatch", prev |-> handler, want |-> want, ended |-> FALSE]
    <2>2. fn \in Fn
      BY <1>0 DEF Fn
    <2> QED
      BY <2>1, <2>2
  <1> QED
    BY <1>1, <1>2, <1>3, <1>4, <1>5

\* A return without an exception
LEMMA ReturnStep ==
    ASSUME TypeOK, Return
    PROVE  /\ Depth \in 1..Depth /\ Left(Depth - 1)
           /\ handler' = ctx[Depth].prev /\ sig_toplevel' = SigAfter(Depth)
           /\ fth_catch_p' \in BOOLEAN /\ caught' = NotCaught
           /\ flight = None /\ UNCHANGED <<last_exception, flight, crashed, signalled, guard>>
           /\ ctx[Depth].kind # "fthcatch" => fth_catch_p' = fth_catch_p
           /\ ctx[Depth].kind = "fthcatch" =>
                 /\ fth_catch_p' = FALSE
                 /\ \A j \in 1..(Depth - 1) : ctx'[j].kind = "fthcatch" => ctx'[j].ended
  <1>1. Depth \in 1..Depth
    BY Ranges DEF Return
  <1>2. /\ ctx' = NoteEnded(ctx[Depth], Below(Depth))
        /\ handler' = ctx[Depth].prev /\ sig_toplevel' = SigAfter(Depth)
        /\ fth_catch_p' = CatchFlag(ctx[Depth])
    BY DEF Return
  <1>3. Left(Depth - 1)
    BY <1>1, <1>2, LeavesBelow
  <1>4. ctx[Depth].kind = "fthcatch" =>
           \A j \in 1..(Depth - 1) : ctx'[j].kind = "fthcatch" => ctx'[j].ended
    <2>1. Below(Depth) \in Seq(Fn) /\ Len(Below(Depth)) = Depth - 1
      BY <1>1, BelowLeft
    <2>2. \A j \in 1..(Depth - 1) : Same(ctx'[j], Below(Depth)[j])
      BY <1>2, <2>1, NoteEndedSame
    <2>3. ctx[Depth].kind = "fthcatch" =>
             \A j \in 1..(Depth - 1) : Below(Depth)[j].kind = "fthcatch" => ctx'[j].ended
      BY <1>2, <2>1, NoteEndedSame
    <2> QED
      BY <2>2, <2>3 DEF Same
  <1> QED
    BY <1>1, <1>2, <1>3, <1>4 DEF Return, Running, CatchFlag, TypeOK

\* A signal leaves the functions below the one it goes to.
LEMMA SignalStep ==
    ASSUME TypeOK, Shape, Signal, sig_toplevel # Dead
    PROVE  \E k \in 1..Depth :
              /\ Left(k - 1) /\ sig_toplevel' = SigAfter(k)
              /\ handler' = Dead \/ (handler' = handler /\ handler < k)
              /\ fth_catch_p' \in BOOLEAN
  <1> DEFINE k == IF sig_toplevel = 0 THEN 1 ELSE sig_toplevel
  <1>1. ctx # <<>>
    BY DEF Signal
  <1>2. k \in 1..Depth
    BY <1>1, Ranges DEF Shape, Dead
  <1>3. /\ ctx' = Below(k) /\ sig_toplevel' = SigAfter(k)
        /\ handler' = IF handler >= k THEN Dead ELSE handler
        /\ fth_catch_p' = IF sig_toplevel = 0 THEN FALSE ELSE fth_catch_p
    BY DEF Signal
  <1>4. Left(k - 1)
    BY <1>2, <1>3, LeavesBelow
  <1>5. handler' = Dead \/ (handler' = handler /\ handler < k)
    BY <1>2, <1>3, Ranges
  <1>6. fth_catch_p' \in BOOLEAN
    BY <1>3 DEF TypeOK
  <1> QED
    BY <1>2, <1>3, <1>4, <1>5, <1>6

\* Raising an exception
LEMMA FlyStep ==
    ASSUME TypeOK, Throw \/ ThrowAns
    PROVE  \E status \in Status, exc \in Exc \cup {None}, reported \in BOOLEAN :
              /\ Fly(status, exc, reported)
              /\ reported => ~fth_catch_p
              /\ last_exception' \in Exc \cup {None}
              /\ exc # None => last_exception' = exc
  <1>1. CASE Throw
    BY <1>1 DEF Throw, Status, TypeOK
  <1>2. CASE ThrowAns
    BY <1>2 DEF ThrowAns, Status, TypeOK
  <1> QED
    BY <1>1, <1>2

\* A nonempty set of positions has a greatest one (NatLessThanWellFounded,
\* counting from the end).
LEMMA Greatest ==
    ASSUME NEW n \in Nat, NEW P \in SUBSET (1..n), P # {}
    PROVE  \E k \in P : \A j \in P : j <= k
  <1> DEFINE T == {m \in Nat : \E k \in P : m = n - k}
  <1>0. n \in Nat /\ \A k \in P : k \in Nat /\ 1 <= k /\ k <= n
    OBVIOUS
  <1>1. T \subseteq Nat /\ T # {}
    <2>1. PICK k \in P : TRUE
      OBVIOUS
    <2>2. n - k \in T
      BY <1>0, <2>1
    <2> QED
      BY <2>2
  <1>2. PICK t \in T : \A u \in T : ~(<<u, t>> \in OpToRel(<, Nat))
    BY <1>1, WFMin, NatLessThanWellFounded
  <1>3. \A u \in T : ~(u < t)
    BY <1>1, <1>2 DEF OpToRel
  <1>4. PICK k \in P : t = n - k
    BY <1>2
  <1>5. \A j \in P : n - j \in T
    BY <1>0
  <1>6. \A j \in P : ~(n - j < n - k)
    BY <1>3, <1>4, <1>5
  <1>7. \A j \in P : j <= k
    BY <1>0, <1>6
  <1> QED
    BY <1>7

\* The innermost catch is one, if there is one, and has no catch inside.
LEMMA InnermostCatchIs ==
    ASSUME TypeOK
    PROVE  /\ InnermostCatch \in 0..Depth
           /\ InnermostCatch # 0 => ctx[InnermostCatch].kind \in Catches
           /\ \A k \in 1..Depth : ctx[k].kind \in Catches => k <= InnermostCatch
  <1>1. Depth \in Nat /\ CatchPositions \in SUBSET (1..Depth)
    BY Ranges DEF CatchPositions
  <1>2. CASE CatchPositions = {}
    BY <1>1, <1>2 DEF InnermostCatch, CatchPositions
  <1>3. CASE CatchPositions # {}
    <2>1. \E k \in CatchPositions : \A j \in CatchPositions : j <= k
      BY <1>1, <1>3, Greatest
    <2>2. /\ InnermostCatch \in CatchPositions
          /\ \A j \in CatchPositions : j <= InnermostCatch
      BY <1>3, <2>1 DEF InnermostCatch
    <2> QED
      BY <1>1, <2>2 DEF CatchPositions
  <1> QED
    BY <1>2, <1>3

-----------------------------------------------------------------------------
(* One step preserves the invariant. *)

\* Calls: the new function is the innermost; under it nothing changes.
LEMMA CallSafe ==
    ASSUME VmInv, EvalLine \/ Evaluate \/ ExecuteXT \/ Catch \/ FthCatch
    PROVE  VmInv'
  <1> USE DEF VmInv
  <1>1. PICK fn \in Fn :
           /\ Call(fn) /\ fn.prev = handler
           /\ fth_catch_p' \in BOOLEAN /\ sig_toplevel' \in {sig_toplevel, Depth + 1}
           /\ fn.kind # "fthcatch" => fth_catch_p' = fth_catch_p
           /\ fn.kind = "fthcatch" => fth_catch_p' = TRUE
           /\ fn.kind = "catch" => fn.saved_p = fth_catch_p
    BY CallStep
  <1>2. TypeOK' /\ Shape'
    BY <1>1, CallShape
  <1>3. /\ Depth \in Nat /\ Depth' = Depth + 1 /\ handler' = Depth + 1
        /\ \A k \in 1..Depth : ctx'[k] = ctx[k]
        /\ ctx'[Depth + 1] = fn
    BY <1>1, Ranges DEF Call, TypeOK, Depth
  <1>4. flight = None /\ UNCHANGED <<last_exception, flight, crashed, signalled, guard>>
    BY <1>1 DEF Call, Running
  <1>5. Nested' /\ Guarded' /\ Alive'
    BY <1>1, <1>3, <1>4 DEF Nested, Guarded, Alive
  <1>6. ASSUME NEW n \in 0..Depth
        PROVE  (HasFthCatch(ctx, n) => HasFthCatch(ctx', n)) /\ (AllEnded(ctx, n) <=> AllEnded(ctx', n))
    BY <1>3 DEF HasFthCatch, AllEnded
  <1>7. Flagged'
    <2> SUFFICES ASSUME ~signalled'
                 PROVE  /\ fth_catch_p' => HasFthCatch(ctx', Depth + 1)
                        /\ ~fth_catch_p' => AllEnded(ctx', Depth + 1)
                        /\ \A k \in 1..(Depth + 1) : ctx'[k].kind = "catch" =>
                              /\ ctx'[k].saved_p => HasFthCatch(ctx', k - 1)
                              /\ ~ctx'[k].saved_p => AllEnded(ctx', k - 1)
      BY <1>3, <1>4 DEF Flagged, HasFthCatch, AllEnded
    <2>0. /\ fth_catch_p => HasFthCatch(ctx, Depth)
          /\ ~fth_catch_p => AllEnded(ctx, Depth)
          /\ \A k \in 1..Depth : ctx[k].kind = "catch" =>
                /\ ctx[k].saved_p => HasFthCatch(ctx, k - 1)
                /\ ~ctx[k].saved_p => AllEnded(ctx, k - 1)
      BY <1>4 DEF Flagged
    <2>1. fth_catch_p' => HasFthCatch(ctx', Depth + 1)
      <3>1. CASE fn.kind = "fthcatch"
        BY <1>3, <3>1 DEF HasFthCatch
      <3>2. CASE fn.kind # "fthcatch"
        <4>1. fth_catch_p' => HasFthCatch(ctx, Depth)
          BY <1>1, <2>0, <3>2
        <4>2. HasFthCatch(ctx, Depth) => HasFthCatch(ctx', Depth + 1)
          BY <1>3 DEF HasFthCatch
        <4> QED
          BY <4>1, <4>2
      <3> QED
        BY <3>1, <3>2
    <2>2. ~fth_catch_p' => AllEnded(ctx', Depth + 1)
      BY <1>1, <1>3, <2>0 DEF AllEnded
    <2>3. ASSUME NEW k \in 1..(Depth + 1), ctx'[k].kind = "catch"
          PROVE  /\ ctx'[k].saved_p => HasFthCatch(ctx', k - 1)
                 /\ ~ctx'[k].saved_p => AllEnded(ctx', k - 1)
      <3>1. k - 1 \in 0..Depth
        BY <1>3
      <3>2. CASE k \in 1..Depth
        BY <1>3, <1>6, <2>0, <2>3, <3>1, <3>2
      <3>3. CASE k = Depth + 1
        BY <1>1, <1>3, <1>6, <2>0, <2>3, <3>1, <3>3
      <3> QED
        BY <1>3, <3>2, <3>3
    <2> QED
      BY <2>1, <2>2, <2>3
  <1>8. Recorded'
    BY <1>1, <1>4 DEF Recorded, GivesWhatWasRaised, Call, NotCaught
  <1> QED
    BY <1>2, <1>5, <1>7, <1>8

\* What the first functions say of fth-catches is still so for those left.
LEMMA LeftFlags ==
    ASSUME TypeOK, NEW n \in 0..Depth, Left(n), NEW m \in 0..n
    PROVE  /\ HasFthCatch(ctx, m) => HasFthCatch(ctx', m)
           /\ AllEnded(ctx, m) => AllEnded(ctx', m)
  <1>1. \A k \in 1..m : Same(ctx'[k], ctx[k])
    BY Ranges, LeftType
  <1> QED
    BY <1>1 DEF HasFthCatch, AllEnded, Same

\* While no signal has come, functions end from the innermost on.
LEMMA LeftNested ==
    ASSUME TypeOK, Nested, ~signalled, Depth # 0, Left(Depth - 1), handler' = ctx[Depth].prev
    PROVE  Nested'
  <1>1. Depth \in Nat \ {0} /\ Depth \in 1..Depth /\ Depth - 1 \in 0..Depth
    BY Ranges
  <1>2. Depth' = Depth - 1 /\ \A k \in 1..(Depth - 1) : ctx'[k].prev = ctx[k].prev
    BY <1>1, LeftType DEF Same
  <1> QED
    BY <1>1, <1>2 DEF Nested

\* The copies that the CATCHes left have of the flag are as right as before.
LEMMA LeftSaved ==
    ASSUME TypeOK, Flagged, ~signalled, NEW n \in 0..Depth, Left(n)
    PROVE  \A k \in 1..n : ctx'[k].kind = "catch" =>
              /\ ctx'[k].saved_p => HasFthCatch(ctx', k - 1)
              /\ ~ctx'[k].saved_p => AllEnded(ctx', k - 1)
  <1> SUFFICES ASSUME NEW k \in 1..n, ctx'[k].kind = "catch"
               PROVE  /\ ctx'[k].saved_p => HasFthCatch(ctx', k - 1)
                      /\ ~ctx'[k].saved_p => AllEnded(ctx', k - 1)
    OBVIOUS
  <1>1. Same(ctx'[k], ctx[k]) /\ k \in 1..Depth /\ k - 1 \in 0..n
    BY Ranges, LeftType
  <1>2. ctx[k].kind = "catch" /\ ctx'[k].saved_p = ctx[k].saved_p
    BY <1>1 DEF Same
  <1>3. /\ ctx[k].saved_p => HasFthCatch(ctx, k - 1)
        /\ ~ctx[k].saved_p => AllEnded(ctx, k - 1)
    BY <1>1, <1>2 DEF Flagged
  <1> QED
    BY <1>1, <1>2, <1>3, LeftFlags

\* A return: an fth-catch that ends clears the flag for all around it.
LEMMA ReturnSafe ==
    ASSUME VmInv, Return
    PROVE  VmInv'
  <1> USE DEF VmInv
  <1>1. Depth \in 1..Depth /\ Left(Depth - 1) /\ Depth - 1 \in 0..Depth /\ Depth # 0
    BY ReturnStep, Ranges
  <1>2. /\ handler' = ctx[Depth].prev /\ sig_toplevel' = SigAfter(Depth)
        /\ fth_catch_p' \in BOOLEAN /\ caught' = NotCaught
        /\ flight = None /\ UNCHANGED <<last_exception, flight, crashed, signalled, guard>>
    BY ReturnStep
  <1>3. ctx' \in Seq(Fn) /\ Depth' = Depth - 1 /\ Depth' <= MaxDepth
    BY <1>1, LeftType
  <1>4. Shape' /\ TypeOK'
    <2>1. Shape' /\ sig_toplevel' \in Pos /\ handler' \in Pos
      BY <1>1, <1>2, LeftShape
    <2>2. caught' \in Caught
      BY <1>2 DEF NotCaught, Caught
    <2> QED
      BY <1>2, <1>3, <2>1, <2>2 DEF TypeOK, Caught
  <1>5. Nested'
    <2>1. CASE signalled
      BY <1>2, <2>1 DEF Nested
    <2>2. CASE ~signalled
      BY <1>1, <1>2, <2>2, LeftNested
    <2> QED
      BY <2>1, <2>2
  <1>6. Flagged'
    <2> SUFFICES ASSUME ~signalled
                 PROVE  /\ fth_catch_p' => HasFthCatch(ctx', Depth - 1)
                        /\ ~fth_catch_p' => AllEnded(ctx', Depth - 1)
      BY <1>1, <1>2, <1>3, LeftSaved DEF Flagged, HasFthCatch, AllEnded
    <2>0. /\ fth_catch_p => HasFthCatch(ctx, Depth)
          /\ ~fth_catch_p => AllEnded(ctx, Depth)
      BY <1>2 DEF Flagged
    <2>1. CASE ctx[Depth].kind = "fthcatch"
      BY <2>1, ReturnStep DEF AllEnded
    <2>2. CASE ctx[Depth].kind # "fthcatch"
      <3>1. fth_catch_p' = fth_catch_p
        BY <2>2, ReturnStep
      <3>2. /\ HasFthCatch(ctx, Depth) => HasFthCatch(ctx, Depth - 1)
            /\ AllEnded(ctx, Depth) => AllEnded(ctx, Depth - 1)
        BY <1>1, <2>2 DEF HasFthCatch, AllEnded
      <3>3. Depth - 1 \in 0..(Depth - 1)
        BY <1>1
      <3> QED
        BY <1>1, <2>0, <3>1, <3>2, <3>3, LeftFlags
    <2> QED
      BY <2>1, <2>2
  <1>7. Guarded' /\ Recorded' /\ Alive'
    BY <1>2 DEF Guarded, Recorded, GivesWhatWasRaised, NotCaught, Alive
  <1> QED
    BY <1>4, <1>5, <1>6, <1>7

\* Raising: guard is the innermost catch now; a report means that the flag is clear.
LEMMA FlySafe ==
    ASSUME VmInv, Throw \/ ThrowAns
    PROVE  VmInv'
  <1> USE DEF VmInv
  <1>1. PICK status \in Status, exc \in Exc \cup {None}, reported \in BOOLEAN :
           /\ Fly(status, exc, reported)
           /\ reported => ~fth_catch_p
           /\ last_exception' \in Exc \cup {None}
           /\ exc # None => last_exception' = exc
    BY FlyStep
  <1>2. /\ flight = None /\ ctx # <<>> /\ guard' = InnermostCatch /\ caught' = NotCaught
        /\ flight' = [status |-> status, exc |-> exc, reported |-> reported]
        /\ UNCHANGED <<ctx, handler, fth_catch_p, sig_toplevel, crashed, signalled>>
    BY <1>1 DEF Fly, Running
  <1>3. flight' \in Flight /\ flight'.exc = exc /\ flight'.reported = reported
    BY <1>2 DEF Flight
  <1>4. guard' \in 0..Depth /\ Depth' = Depth /\ Depth <= MaxDepth /\ Depth \in Nat /\ MaxDepth \in Nat
    BY <1>2, InnermostCatchIs, Ranges DEF Depth
  <1>5. caught' \in Caught
    BY <1>2 DEF NotCaught, Caught
  <1>6. TypeOK'
    BY <1>1, <1>2, <1>3, <1>4, <1>5 DEF TypeOK, Flight, Caught, Pos
  <1>7. Shape'
    BY <1>2, <1>4 DEF Shape
  <1>8. Nested' /\ Alive'
    BY <1>2, <1>4 DEF Nested, Alive
  <1>9. Guarded'
    BY <1>2, <1>4, InnermostCatchIs DEF Guarded
  <1>10. Flagged'
    <2> SUFFICES ASSUME ~signalled PROVE Flagged'
      BY <1>2 DEF Flagged
    <2>1. /\ fth_catch_p => HasFthCatch(ctx, Depth)
          /\ ~fth_catch_p => AllEnded(ctx, Depth)
          /\ \A k \in 1..Depth : ctx[k].kind = "catch" =>
                /\ ctx[k].saved_p => HasFthCatch(ctx, k - 1)
                /\ ~ctx[k].saved_p => AllEnded(ctx, k - 1)
      BY <1>2 DEF Flagged
    <2>2. flight'.reported => AllEnded(ctx, Depth)
      BY <1>1, <1>3, <2>1
    <2> QED
      BY <1>2, <1>4, <2>1, <2>2 DEF Flagged, HasFthCatch, AllEnded
  <1>11. Recorded'
    BY <1>1, <1>2, <1>3 DEF Recorded, GivesWhatWasRaised, NotCaught
  <1> QED
    BY <1>6, <1>7, <1>8, <1>9, <1>10, <1>11

\* What the four handlers do to the flag, to the fth-catches around, and give.
LEMMA UnwindFlags ==
    ASSUME TypeOK, Shape, Unwind
    PROVE  /\ ctx[handler].kind \notin Catches =>
                 /\ fth_catch_p' => fth_catch_p
                 /\ flight' = None => handler = 1 \/ ctx[handler].prev = 0
           /\ ctx[handler].kind = "catch" => fth_catch_p' = ctx[handler].saved_p
           /\ ctx[handler].kind = "fthcatch" =>
                 /\ fth_catch_p' = FALSE
                 /\ \A j \in 1..(handler - 1) : ctx'[j].kind = "fthcatch" => ctx'[j].ended
                 /\ caught'.want = All => caught'.got = last_exception
                 /\ caught'.raised = flight.exc
           /\ ctx[handler].kind # "fthcatch" => caught' = caught
  <1>1. handler \in 1..Depth /\ flight \in Flight /\ flight # None
    BY UnwindStep, VmAssumption
  <1> DEFINE k == handler
  <1>3. CASE HandleString(k) /\ ctx[k].kind \in {"string", "evaluate"}
    <2>1. flight' = None => k = 1
      <3>1. SUFFICES ASSUME k # 1 PROVE flight' # None
        OBVIOUS
      <3>2. flight' \in Flight
        BY <1>1, <1>3, <3>1 DEF HandleString, Flight, Status
      <3> QED
        BY <3>2, VmAssumption
    <2> QED
      BY <1>3, <2>1 DEF HandleString, Catches
  <1>4. CASE HandleXt(k) /\ ctx[k].kind = "xt"
    BY <1>1, <1>4 DEF HandleXt, Catches
  <1>5. CASE HandleCatch(k) /\ ctx[k].kind = "catch"
    BY <1>5 DEF HandleCatch, Catches
  <1>6. CASE HandleFthCatch(k) /\ ctx[k].kind = "fthcatch"
    <2>1. /\ ctx' = NoteEnded(ctx[k], Below(k)) /\ fth_catch_p' = FALSE
          /\ caught' = [want |-> ctx[k].want, raised |-> flight.exc,
                        got |-> IF ctx[k].want = All THEN last_exception ELSE ctx[k].want]
      BY <1>6 DEF HandleFthCatch
    <2>2. Below(k) \in Seq(Fn) /\ Len(Below(k)) = k - 1
      BY <1>1, BelowLeft
    <2>3. \A j \in 1..(k - 1) : Same(ctx'[j], Below(k)[j])
      BY <2>1, <2>2, NoteEndedSame
    <2>4. \A j \in 1..(k - 1) : Below(k)[j].kind = "fthcatch" => ctx'[j].ended
      BY <1>6, <2>1, <2>2, NoteEndedSame
    <2>5. \A j \in 1..(k - 1) : ctx'[j].kind = "fthcatch" => ctx'[j].ended
      BY <2>3, <2>4 DEF Same
    <2> QED
      BY <1>6, <2>1, <2>5 DEF Catches
  <1> QED
    BY <1>3, <1>4, <1>5, <1>6 DEF Unwind, Handle

\* Unwinding: the innermost function handles the exception; unless it is a catch
\* it is no place that guard can name, so the guard stays below it.
LEMMA UnwindSafe ==
    ASSUME VmInv, Unwind
    PROVE  VmInv'
  <1> USE DEF VmInv
  <1>1. /\ handler \in 1..Depth /\ handler - 1 \in 0..Depth /\ Depth \in Nat /\ flight \in Flight
        /\ Left(handler - 1)
        /\ handler' = ctx[handler].prev /\ sig_toplevel' = SigAfter(handler)
        /\ UNCHANGED <<last_exception, crashed, signalled>>
        /\ fth_catch_p' \in BOOLEAN /\ caught' \in Caught
    BY UnwindStep, Ranges
  <1>2. \/ flight' = None /\ guard' = 0
        \/ /\ flight' \in Flight /\ flight' # None
           /\ flight'.reported = flight.reported /\ flight'.exc = flight.exc
           /\ guard' = guard
           /\ ctx[handler].prev # 0
           /\ ctx[handler].kind \notin Catches
    BY UnwindStep, VmAssumption
  <1>3. /\ ctx' \in Seq(Fn) /\ Depth' = handler - 1 /\ Depth' <= MaxDepth
        /\ \A j \in 1..(handler - 1) : Same(ctx'[j], ctx[j])
    BY <1>1, LeftType
  <1>4. Shape' /\ TypeOK'
    <2>1. Shape' /\ sig_toplevel' \in Pos /\ handler' \in Pos
      BY <1>1, <1>2, LeftShape
    <2>2. guard' \in 0..MaxDepth
      BY <1>2, Ranges DEF TypeOK
    <2> QED
      BY <1>1, <1>2, <1>3, <2>1, <2>2 DEF TypeOK, Caught
  <1>5. ~signalled => handler = Depth
    BY DEF Nested
  <1>6. Nested'
    <2>1. CASE signalled
      BY <1>1, <2>1 DEF Nested
    <2>2. CASE ~signalled
      BY <1>1, <1>5, <2>2, LeftNested
    <2> QED
      BY <2>1, <2>2
  <1>7. Guarded'
    <2> SUFFICES ASSUME ~signalled, flight' # None
                 PROVE  /\ guard <= Depth - 1
                        /\ guard # 0 => ctx'[guard].kind \in Catches
                        /\ \A k \in 1..(Depth - 1) : ctx'[k].kind \in Catches => k <= guard
      BY <1>1, <1>2, <1>3, <1>5 DEF Guarded
    <2>1. /\ guard <= Depth /\ guard \in Nat
          /\ guard # 0 => ctx[guard].kind \in Catches
          /\ \A k \in 1..Depth : ctx[k].kind \in Catches => k <= guard
      BY <1>1, VmAssumption, Ranges DEF Guarded
    <2>2. guard # Depth
      BY <1>1, <1>2, <1>5, <2>1
    <2>3. guard <= Depth - 1
      BY <1>1, <2>1, <2>2
    <2> QED
      BY <1>1, <1>3, <1>5, <2>1, <2>3 DEF Same
  <1>8. Flagged'
    <2> SUFFICES ASSUME ~signalled
                 PROVE  /\ fth_catch_p' => HasFthCatch(ctx', Depth - 1)
                        /\ flight' = None /\ ~fth_catch_p' => AllEnded(ctx', Depth - 1)
                        /\ flight' # None /\ flight'.reported => AllEnded(ctx', Depth - 1)
      BY <1>1, <1>3, <1>5, LeftSaved DEF Flagged
    <2>0. /\ fth_catch_p => HasFthCatch(ctx, Depth)
          /\ flight.reported => AllEnded(ctx, Depth)
          /\ ctx[Depth].kind = "catch" =>
                /\ ctx[Depth].saved_p => HasFthCatch(ctx, Depth - 1)
                /\ ~ctx[Depth].saved_p => AllEnded(ctx, Depth - 1)
      BY <1>1, <1>5, VmAssumption DEF Flagged
    <2>1. /\ HasFthCatch(ctx, Depth - 1) => HasFthCatch(ctx', Depth - 1)
          /\ AllEnded(ctx, Depth - 1) => AllEnded(ctx', Depth - 1)
      <3>1. Depth - 1 \in 0..(Depth - 1)
        BY <1>1
      <3> QED
        BY <1>1, <1>5, <3>1, LeftFlags
    <2>2. CASE ctx[Depth].kind \notin Catches
      <3>1. HasFthCatch(ctx, Depth) => HasFthCatch(ctx, Depth - 1)
        BY <1>1, <2>2 DEF HasFthCatch, Catches
      <3>2. AllEnded(ctx, Depth) => AllEnded(ctx, Depth - 1)
        BY <1>1 DEF AllEnded
      <3>3. fth_catch_p' => fth_catch_p
        BY <1>5, <2>2, UnwindFlags
      <3>4. flight' = None => Depth = 1
        BY <1>1, <1>5, <2>2, UnwindFlags DEF Nested
      <3>5. Depth = 1 => AllEnded(ctx', Depth - 1)
        BY DEF AllEnded
      <3>6. flight' # None /\ flight'.reported => AllEnded(ctx', Depth - 1)
        BY <1>2, <2>0, <2>1, <3>2
      <3> QED
        BY <2>0, <2>1, <3>1, <3>3, <3>4, <3>5, <3>6
    <2>3. CASE ctx[Depth].kind = "catch"
      <3>1. fth_catch_p' = ctx[Depth].saved_p /\ flight' = None
        BY <1>2, <1>5, <2>3, UnwindFlags DEF Catches
      <3> QED
        BY <2>0, <2>1, <2>3, <3>1
    <2>4. CASE ctx[Depth].kind = "fthcatch"
      BY <1>2, <1>5, <2>4, UnwindFlags DEF AllEnded, Catches
    <2> QED
      BY <2>2, <2>3, <2>4 DEF Catches
  <1>9. Recorded'
    <2>1. flight.exc # None => last_exception = flight.exc
      BY <1>1, VmAssumption DEF Recorded
    <2>2. GivesWhatWasRaised'
      <3>1. CASE ctx[handler].kind = "fthcatch"
        BY <2>1, <3>1, UnwindFlags DEF GivesWhatWasRaised
      <3>2. CASE ctx[handler].kind # "fthcatch"
        BY <3>2, UnwindFlags DEF GivesWhatWasRaised, Recorded
      <3> QED
        BY <3>1, <3>2
    <2> QED
      BY <1>1, <1>2, <2>1, <2>2 DEF Recorded
  <1>10. Alive'
    BY <1>1 DEF Alive
  <1> QED
    BY <1>4, <1>6, <1>7, <1>8, <1>9, <1>10

\* A signal: what is said of the time before it is over; a crash changes nothing else.
LEMMA SignalSafe ==
    ASSUME VmInv, Signal
    PROVE  VmInv'
  <1> USE DEF VmInv
  <1>1. /\ flight = None /\ signalled' = TRUE /\ caught' = NotCaught
        /\ UNCHANGED <<last_exception, flight, guard>>
    BY DEF Signal, Running
  <1>2. caught' \in Caught
    BY <1>1 DEF NotCaught, Caught
  <1>3. Nested' /\ Guarded' /\ Flagged' /\ Recorded' /\ Alive'
    BY <1>1 DEF Nested, Guarded, Flagged, Recorded, GivesWhatWasRaised, NotCaught, Alive
  <1>4. CASE sig_toplevel = Dead
    <2>1. crashed' = TRUE /\ UNCHANGED <<ctx, handler, fth_catch_p, sig_toplevel>>
      BY <1>4 DEF Signal
    <2>2. Depth' = Depth
      BY <2>1 DEF Depth
    <2>3. TypeOK'
      BY <1>1, <1>2, <2>1, <2>2 DEF TypeOK, Caught
    <2>4. Shape'
      BY <1>1, <2>1, <2>2 DEF Shape
    <2> QED
      BY <1>3, <2>3, <2>4
  <1>5. CASE sig_toplevel # Dead
    <2>1. PICK k \in 1..Depth :
             /\ Left(k - 1) /\ sig_toplevel' = SigAfter(k)
             /\ handler' = Dead \/ (handler' = handler /\ handler < k)
             /\ fth_catch_p' \in BOOLEAN
      BY <1>5, SignalStep
    <2>2. crashed' \in BOOLEAN
      BY <1>5 DEF Signal, TypeOK
    <2>3. Shape' /\ sig_toplevel' \in Pos /\ handler' \in Pos
      BY <1>1, <2>1, LeftShape
    <2>4. k - 1 \in 0..Depth
      BY Ranges
    <2>5. ctx' \in Seq(Fn) /\ Depth' <= MaxDepth
      BY <2>1, <2>4, LeftType
    <2>6. TypeOK'
      BY <1>1, <1>2, <2>1, <2>2, <2>3, <2>5 DEF TypeOK, Caught
    <2> QED
      BY <1>3, <2>3, <2>6
  <1> QED
    BY <1>4, <1>5

\* A longjmp to a dead buffer: only after a signal, as handlers nest until then.
LEMMA UnwindDeadSafe ==
    ASSUME VmInv, UnwindDead
    PROVE  VmInv'
  <1> USE DEF VmInv
  <1>1. /\ handler = Dead /\ crashed' = TRUE
        /\ UNCHANGED <<ctx, vm, sig_toplevel, flight, signalled, guard, caught>>
    BY DEF UnwindDead
  <1>2. signalled
    BY <1>1, Ranges DEF Nested, Dead
  <1>3. Depth' = Depth
    BY <1>1 DEF Depth
  <1>4. TypeOK'
    BY <1>1, <1>3 DEF TypeOK, vm
  <1>5. Shape' /\ Recorded'
    BY <1>1, <1>3 DEF Shape, Recorded, GivesWhatWasRaised, vm
  <1>6. Nested' /\ Guarded' /\ Flagged' /\ Alive'
    BY <1>1, <1>2 DEF Nested, Guarded, Flagged, Alive
  <1> QED
    BY <1>4, <1>5, <1>6

\* Nothing happens.
LEMMA StutterSafe ==
    ASSUME VmInv, UNCHANGED vars
    PROVE  VmInv'
  <1> USE DEF VmInv
  <1>1. /\ UNCHANGED <<ctx, handler, fth_catch_p, last_exception, sig_toplevel>>
        /\ UNCHANGED <<flight, crashed, signalled, guard, caught>>
    BY DEF vars, vm
  <1>2. Depth' = Depth
    BY <1>1 DEF Depth
  <1>3. TypeOK'
    BY <1>1, <1>2 DEF TypeOK
  <1>4. Shape' /\ Recorded' /\ Nested' /\ Alive'
    BY <1>1, <1>2 DEF Shape, Recorded, GivesWhatWasRaised, Nested, Alive
  <1>5. Guarded' /\ Flagged'
    BY <1>1, <1>2 DEF Guarded, Flagged, HasFthCatch, AllEnded
  <1> QED
    BY <1>3, <1>4, <1>5

-----------------------------------------------------------------------------
(* The theorems. *)

\* At the prompt: no function called, no exception, fth_catch_p clear.
LEMMA VmInit == Init => VmInv
  <1> SUFFICES ASSUME Init PROVE VmInv
    OBVIOUS
  <1>1. ctx = <<>> /\ Depth = 0 /\ Depth \in Nat
    BY DEF Init, Depth
  <1>2. TypeOK
    <2>1. ctx \in Seq(Fn) /\ Depth <= MaxDepth
      BY <1>1, VmAssumption DEF Init
    <2>2. 0 \in Pos /\ 0 \in 0..MaxDepth
      BY VmAssumption DEF Pos
    <2>3. NotCaught \in Caught
      BY DEF NotCaught, Caught
    <2> QED
      BY <2>1, <2>2, <2>3 DEF Init, TypeOK, Caught
  <1>3. Shape /\ Nested /\ Guarded /\ Recorded /\ Alive
    BY <1>1 DEF Init, Shape, Nested, Guarded, Recorded, GivesWhatWasRaised, NotCaught, Alive
  <1>4. Flagged
    BY <1>1 DEF Init, Flagged, AllEnded
  <1> QED
    BY <1>2, <1>3, <1>4 DEF VmInv

\* A call, a return, a throw, a longjmp or a signal.
LEMMA VmStep == VmInv /\ [Next]_vars => VmInv'
  BY CallSafe, ReturnSafe, FlySafe, UnwindSafe, UnwindDeadSafe, SignalSafe, StutterSafe DEF Next

\* The inductive invariant of the exception machinery: jump buffers nest as the
\* C functions do, the catch an exception should end in stays on the C stack,
\* and fth_catch_p, like each copy CATCH keeps of it, agrees with the fth-catches
\* around (ficlVmExecuteString, ficlVmExecuteXT, CATCH, fth-catch, fth_throw).
THEOREM VmInvariant == Spec => []VmInv
  BY VmInit, VmStep, PTL DEF Spec

\* While no signal has come, vm->exceptionHandler is the buffer of the innermost
\* running function and so is, for each, the one it puts back.
THEOREM HandlersNest == Spec => []HandlerInnermost
  <1>1. VmInv => HandlerInnermost
    BY DEF VmInv, Nested, HandlerInnermost
  <1> QED
    BY <1>1, VmInvariant, PTL

\* An exception passes no catch on its way: ficlVmExecuteString, which turns it into
\* QUIT, and ficlVmExecuteXT, which throws it again, lead it to the innermost one.
THEOREM CatchReached == Spec => []NoCatchSkipped
  <1>1. VmInv => NoCatchSkipped
    BY DEF VmInv, Guarded, NoCatchSkipped
  <1> QED
    BY <1>1, VmInvariant, PTL

\* fth_throw is silent only under an fth-catch, and reports under one only after
\* another fth-catch has ended inside it.
THEOREM ReportsWhenUncaught == Spec => []QuietUntilNested
  <1>1. VmInv => QuietUntilNested
    BY DEF VmInv, Flagged, HasFthCatch, AllEnded, QuietUntilNested
  <1> QED
    BY <1>1, VmInvariant, PTL

\* fth-catch with #t gives the program the exception raised in its body.
THEOREM CatchAllGivesRaised == Spec => []GivesWhatWasRaised
  <1>1. VmInv => GivesWhatWasRaised
    BY DEF VmInv, Recorded
  <1> QED
    BY <1>1, VmInvariant, PTL

\* Without a signal no longjmp goes into a C function that has returned.
THEOREM NoDeadJump == Spec => [](~signalled => ~crashed)
  <1>1. VmInv => (~signalled => ~crashed)
    BY DEF VmInv, Alive
  <1> QED
    BY <1>1, VmInvariant, PTL
=============================================================================
