-------------------------------- MODULE FthVm --------------------------------
(***************************************************************************)
(* Exceptions in the Fth VM: setjmp/longjmp through vm->exceptionHandler,  *)
(* the C functions that set it (ficlVmExecuteString, ficlVmExecuteXT,      *)
(* CATCH and fth-catch), fth_throw and throw, and signals, which leave     *)
(* through the one global buffer fth_sig_toplevel.                         *)
(*                                                                         *)
(* ctx is the C stack of these functions.  A jmp_buf is the position in    *)
(* ctx of the function that owns it, 0 is NULL, and Dead stands for a      *)
(* buffer whose function has returned.  The inner loop each function runs  *)
(* passes an exception straight on to it and has no entry of its own.  The *)
(* frames these functions push are in FthScopes.                           *)
(***************************************************************************)
EXTENDS Integers, Sequences

CONSTANTS
    Exc,             \* exceptions that Forth code raises and fth-catch names
    MaxDepth,        \* bound: functions on the C stack
    None,            \* "no exception"
    All              \* #t, the fth-catch argument that stands for every exception

Status == {"err", "ans", "quit"}   \* fth_throw; throw; QUIT
Flight == [status : Status, exc : Exc \cup {None}, reported : BOOLEAN]

ASSUME VmAssumption ==
    /\ MaxDepth \in Nat
    /\ None \notin Exc /\ All \notin Exc /\ None # All
    /\ None \notin Flight

VARIABLES
    ctx,             \* the functions on the C stack, innermost last
    handler,         \* vm->exceptionHandler
    fth_catch_p,     \* vm->fth_catch_p: fth_throw does not report
    sig_toplevel,    \* fth_sig_toplevel: 0 is the REPL
    last_exception,  \* *last-exception*
    flight,          \* the exception on its way: its status and what was raised
    crashed,         \* longjmp into a function that had returned
    signalled,       \* ghost: a signal has been taken
    guard,           \* ghost: the catch the exception in flight should end in
    caught           \* ghost: in the step an fth-catch catches, what it wanted,
                     \* what had been raised and what it gives the program

vm   == <<handler, fth_catch_p, last_exception>>
vars == <<ctx, vm, sig_toplevel, flight, crashed, signalled, guard, caught>>

Dead == -1
Pos  == -1..MaxDepth

\* prev: the exceptionHandler the function puts back.  The catches keep a copy of
\* the VM; ended says whether an fth-catch has come and gone inside an fth-catch.
Fn == [kind : {"string", "evaluate", "xt"}, prev : Pos]
      \cup [kind : {"catch"}, prev : Pos, saved_p : BOOLEAN]
      \cup [kind : {"fthcatch"}, prev : Pos, want : Exc \cup {All}, ended : BOOLEAN]
Catches == {"catch", "fthcatch"}

Depth == Len(ctx)
Below(k) == SubSeq(ctx, 1, k - 1)
Running == ~crashed /\ flight = None
Room == Depth < MaxDepth

NotCaught == [want |-> All, raised |-> None, got |-> None]

Init ==
    /\ ctx = <<>>
    /\ handler = 0
    /\ fth_catch_p = FALSE
    /\ sig_toplevel = 0
    /\ last_exception = None
    /\ flight = None
    /\ crashed = FALSE
    /\ signalled = FALSE
    /\ guard = 0
    /\ caught = NotCaught

-----------------------------------------------------------------------------
(* Calls. *)

Call(fn) ==
    /\ Running /\ Room
    /\ ctx' = Append(ctx, fn)
    /\ handler' = Depth + 1
    /\ caught' = NotCaught
    /\ UNCHANGED <<last_exception, flight, crashed, signalled, guard>>

\* fth_catch_eval: a line of the REPL
EvalLine ==
    /\ ctx = <<>>
    /\ Call([kind |-> "string", prev |-> handler])
    /\ UNCHANGED <<fth_catch_p, sig_toplevel>>
\* fth_evaluate (string-eval, load): overwrites fth_sig_toplevel
Evaluate ==
    /\ ctx # <<>>
    /\ Call([kind |-> "evaluate", prev |-> handler])
    /\ sig_toplevel' = Depth + 1
    /\ UNCHANGED fth_catch_p
\* fth_execute_xt (fth_proc_call, hooks): overwrites fth_sig_toplevel
ExecuteXT ==
    /\ Call([kind |-> "xt", prev |-> handler])
    /\ sig_toplevel' = Depth + 1
    /\ UNCHANGED fth_catch_p
Catch ==
    /\ ctx # <<>>
    /\ Call([kind |-> "catch", prev |-> handler, saved_p |-> fth_catch_p])
    /\ UNCHANGED <<fth_catch_p, sig_toplevel>>
FthCatch == \E want \in Exc \cup {All} :
    /\ ctx # <<>>
    /\ Call([kind |-> "fthcatch", prev |-> handler, want |-> want, ended |-> FALSE])
    /\ fth_catch_p' = TRUE
    /\ UNCHANGED sig_toplevel

-----------------------------------------------------------------------------
(* Returns. *)

\* fth_sig_toplevel after the functions from k on have gone: the buffer is not
\* put back, but the REPL sets it anew for its next line.
SigAfter(k) ==
    IF k = 1 THEN 0
    ELSE IF sig_toplevel >= k THEN Dead
    ELSE sig_toplevel

\* fth-catch clears the flag when it ends, whoever set it.
CatchFlag(fn) == IF fn.kind = "fthcatch" THEN FALSE ELSE fth_catch_p
\* The same end seen by the fth-catches around it
NoteEnded(fn, c) ==
    IF fn.kind # "fthcatch" THEN c
    ELSE [k \in DOMAIN c |-> IF c[k].kind = "fthcatch" THEN [c[k] EXCEPT !.ended = TRUE] ELSE c[k]]

\* A return that leaves vm->exceptionHandler as it is.
ReturnKeep ==
    /\ Running /\ ctx # <<>>
    /\ LET fn == ctx[Depth] IN
        /\ ctx' = NoteEnded(fn, Below(Depth))
        /\ handler' = handler
        /\ fth_catch_p' = CatchFlag(fn)
        /\ sig_toplevel' = SigAfter(Depth)
    /\ caught' = NotCaught
    /\ UNCHANGED <<last_exception, flight, crashed, signalled, guard>>
Return ==
    /\ Running /\ ctx # <<>>
    /\ LET fn == ctx[Depth] IN
        /\ ctx' = NoteEnded(fn, Below(Depth))
        /\ handler' = fn.prev
        /\ fth_catch_p' = CatchFlag(fn)
        /\ sig_toplevel' = SigAfter(Depth)
    /\ caught' = NotCaught
    /\ UNCHANGED <<last_exception, flight, crashed, signalled, guard>>

-----------------------------------------------------------------------------
(* Throwing and unwinding. *)

CatchPositions == {k \in 1..Depth : ctx[k].kind \in Catches}
InnermostCatch == IF CatchPositions = {} THEN 0
                  ELSE CHOOSE k \in CatchPositions : \A j \in CatchPositions : j <= k

Fly(status, exc, reported) ==
    /\ Running /\ ctx # <<>>
    /\ flight' = [status |-> status, exc |-> exc, reported |-> reported]
    /\ guard' = InnermostCatch
    /\ caught' = NotCaught
    /\ UNCHANGED <<ctx, handler, fth_catch_p, sig_toplevel, crashed, signalled>>

\* A throw that does not set *last-exception*.
ThrowUnrecorded == \E e \in Exc :
    /\ Fly("err", e, ~fth_catch_p)
    /\ UNCHANGED last_exception
\* fth_throw and ficlVmThrowErrorVararg: reports unless fth_catch_p is set
Throw == \E e \in Exc :
    /\ Fly("err", e, ~fth_catch_p)
    /\ last_exception' = e
\* throw of ANS Forth, and cold: a bare longjmp
ThrowAns == \E status \in {"ans", "quit"} :
    /\ Fly(status, None, FALSE)
    /\ UNCHANGED last_exception

Land ==
    /\ flight' = None
    /\ guard' = 0

\* ficlVmExecuteString ends and returns the status.  ficlVmQuit has set vm->ip
\* to NULL and fth_catch_p to 0, so the inner loop around it throws QUIT.
HandleString(k) ==
    /\ ctx' = Below(k)
    /\ handler' = ctx[k].prev
    /\ fth_catch_p' = FALSE
    /\ IF k = 1 THEN Land
       ELSE flight' = [flight EXCEPT !.status = "quit"] /\ UNCHANGED guard
    /\ UNCHANGED caught

\* ficlVmExecuteXT that throws again without putting the old handler back.
HandleXtOwn(k) ==
    /\ ctx' = ctx
    /\ UNCHANGED <<handler, fth_catch_p, flight, guard, caught>>
\* ficlVmExecuteXT that throws to the handler before the one it found.
HandleXtSkip(k) ==
    LET j == IF k > 1 THEN k - 1 ELSE k IN
    /\ ctx' = Below(j)
    /\ handler' = ctx[j].prev
    /\ IF ctx[j].prev = 0 THEN Land ELSE UNCHANGED <<flight, guard>>
    /\ UNCHANGED <<fth_catch_p, caught>>
\* ficlVmExecuteXT throws again to the handler before it.  Without one it returns;
\* execute_proc then raises once more, to nobody: ficlVmThrow comes back.
HandleXt(k) ==
    /\ ctx' = Below(k)
    /\ handler' = ctx[k].prev
    /\ IF ctx[k].prev = 0 THEN Land ELSE UNCHANGED <<flight, guard>>
    /\ UNCHANGED <<fth_catch_p, caught>>

\* A CATCH that clears the flag as fth-catch does.
HandleCatchClear(k) ==
    /\ ctx' = Below(k)
    /\ handler' = ctx[k].prev
    /\ fth_catch_p' = FALSE
    /\ Land
    /\ UNCHANGED caught
\* CATCH puts the copy of the VM back, flags and handler included.
HandleCatch(k) ==
    /\ ctx' = Below(k)
    /\ handler' = ctx[k].prev
    /\ fth_catch_p' = ctx[k].saved_p
    /\ Land
    /\ UNCHANGED caught

\* fth-catch compares EXC with the list it has just built from EXC itself, so it
\* takes every exception; its branch that throws again is never entered.
HandleFthCatch(k) ==
    LET want == ctx[k].want IN
    /\ ctx' = NoteEnded(ctx[k], Below(k))
    /\ handler' = ctx[k].prev
    /\ fth_catch_p' = FALSE
    /\ caught' = [want |-> want, raised |-> flight.exc,
                  got |-> IF want = All THEN last_exception ELSE want]
    /\ Land

Handle(k) ==
    \/ ctx[k].kind \in {"string", "evaluate"} /\ HandleString(k)
    \/ ctx[k].kind = "xt" /\ HandleXt(k)
    \/ ctx[k].kind = "catch" /\ HandleCatch(k)
    \/ ctx[k].kind = "fthcatch" /\ HandleFthCatch(k)

Unwind ==
    /\ ~crashed /\ flight # None
    /\ handler # Dead
    /\ Handle(handler)
    /\ sig_toplevel' = SigAfter(handler)
    /\ UNCHANGED <<last_exception, crashed, signalled>>
UnwindDead ==
    /\ ~crashed /\ flight # None
    /\ handler = Dead
    /\ crashed' = TRUE
    /\ UNCHANGED <<ctx, vm, sig_toplevel, flight, signalled, guard, caught>>

-----------------------------------------------------------------------------
(* Signals. *)

\* Back to the function that called sigsetjmp last.  The REPL resets the VM;
\* fth_evaluate and fth_execute_xt just return.  Nobody resets exceptionHandler.
Signal ==
    /\ Running /\ ctx # <<>>
    /\ signalled' = TRUE
    /\ IF sig_toplevel = Dead
       THEN /\ crashed' = TRUE
            /\ UNCHANGED <<ctx, handler, fth_catch_p, sig_toplevel>>
       ELSE LET k == IF sig_toplevel = 0 THEN 1 ELSE sig_toplevel IN
            /\ ctx' = Below(k)
            /\ handler' = IF handler >= k THEN Dead ELSE handler
            /\ fth_catch_p' = IF sig_toplevel = 0 THEN FALSE ELSE fth_catch_p
            /\ sig_toplevel' = SigAfter(k)
            /\ UNCHANGED crashed
    /\ caught' = NotCaught
    /\ UNCHANGED <<last_exception, flight, guard>>

Next ==
    \/ EvalLine \/ Evaluate \/ ExecuteXT \/ Catch \/ FthCatch
    \/ Return
    \/ Throw \/ ThrowAns \/ Unwind \/ UnwindDead
    \/ Signal

\* longjmp runs at once: a step of unwinding that can be taken is taken.
Spec == Init /\ [][Next]_vars /\ WF_vars(Unwind \/ UnwindDead)

-----------------------------------------------------------------------------
TypeOK ==
    /\ ctx \in Seq(Fn) /\ Depth <= MaxDepth
    /\ handler \in Pos
    /\ fth_catch_p \in BOOLEAN
    /\ sig_toplevel \in Pos
    /\ last_exception \in Exc \cup {None}
    /\ flight \in Flight \cup {None}
    /\ crashed \in BOOLEAN
    /\ signalled \in BOOLEAN
    /\ guard \in 0..MaxDepth
    /\ caught \in [want : Exc \cup {All}, raised : Exc \cup {None}, got : Exc \cup {None}]

\* While no signal has come, vm->exceptionHandler is the buffer of the innermost
\* function that is still running, and so is, for each function, the one it will
\* put back: no longjmp goes to a function that has returned.
HandlerInnermost == TypeOK /\
    (~signalled => /\ handler = Depth
                   /\ \A k \in 1..Depth : ctx[k].prev = k - 1)

\* An exception stays inside the innermost catch that was open when it was
\* raised, and passes no other on its way there: evaluations that swallow it
\* and throw QUIT, and calls that throw it again, lead it to that catch.
NoCatchSkipped ==
    ~signalled /\ flight # None =>
        /\ guard <= Depth
        /\ \A k \in 1..Depth : ctx[k].kind \in Catches => k <= guard

\* fth_throw keeps silent only while some fth-catch is there to hand the exception to the
\* program; and it reports one under an open fth-catch only after another fth-catch has ended
\* inside it and cleared the one flag they share: CATCHes and evaluations in between, which
\* save, restore or clear it, never do that.
QuietUntilNested == ~signalled =>
    /\ fth_catch_p => \E k \in 1..Depth : ctx[k].kind = "fthcatch"
    /\ flight # None /\ flight.reported =>
          \A k \in 1..Depth : ctx[k].kind = "fthcatch" => ctx[k].ended

\* With #t, fth-catch gives the program *last-exception*: that is the exception
\* raised in its body, also when evaluations turned it into QUIT on the way.
GivesWhatWasRaised == caught.raised # None /\ caught.want = All => caught.got = caught.raised

\* Every exception ends: in a catch, at the top level, or in a crash.
ThrowEnds == flight # None ~> flight = None \/ crashed
=============================================================================
