------------------------------ MODULE FthScopes ------------------------------
(***************************************************************************)
(* Who moves the GC frames: DO loops (src/ficl/vm.c), C entries that run   *)
(* Forth code (src/src/utils.c, misc.c, fth.c) and CATCH, which puts the   *)
(* VM, frames included, back to an earlier state.                          *)
(*                                                                         *)
(* The collector is cut down to what FthGc shows of it (FramesKept): it    *)
(* frees any objects it likes, but none that an active frame lists.        *)
(***************************************************************************)
EXTENDS FthFrames, Sequences, FiniteSets

CONSTANTS MaxScopes  \* bound: loops, calls and catches open at a time

ASSUME ScopeAssumption == MaxScopes \in Nat

VARIABLES
    live,            \* the slots that hold an object; the others are freed
    scopes,          \* loops, calls and catches the program is in, innermost last
    owner,           \* ghost: the scope that made an object in its current round;
                     \* 1 is the top level, k + 1 is scopes[k], 0 is none
    overflowed       \* ghost: gc_push has met GC_FRAME_SIZE

frames == <<gc_inst, gc_frame_level>>
vars == <<frames, live, scopes, owner, overflowed>>

Kind == {"loop", "eval", "xt"}
\* base: the frame level the scope started with.  CATCH saved it with the lists;
\* for the others it is a ghost.
Scope == [kind : {"catch"}, base : Frame, inst : [Frame -> SUBSET Inst]]
             \cup [kind : Kind, base : Frame]

Init ==
    /\ init_gc
    /\ live = {}
    /\ scopes = <<>>
    /\ owner = [i \in Inst |-> 0]
    /\ overflowed = FALSE

fth_make_instance == \E i \in Inst \ live :
    /\ live' = live \cup {i}
    /\ gc_inst' = [gc_inst EXCEPT ![gc_frame_level] = @ \cup {i}]
    /\ owner' = [owner EXCEPT ![i] = Len(scopes) + 1]
    /\ UNCHANGED <<gc_frame_level, scopes, overflowed>>

\* The walk reads inst->obj of every listed slot: a freed one ends the program.
FramesUsable == Active \subseteq live
gc_run ==
    /\ FramesUsable
    /\ \E G \in SUBSET (live \ Active) : live' = live \ G
    /\ UNCHANGED <<frames, scopes, owner, overflowed>>

\* The objects of scopes[k] and of the scopes in it have no owner any more.
Disown(k) == owner' = [i \in Inst |-> IF owner[i] > k THEN 0 ELSE owner[i]]
Depth == Len(scopes)
Top == scopes[Depth]
Outer == SubSeq(scopes, 1, Depth - 1)

\* DO and ?DO; fth_evaluate and fth_catch_eval; fth_execute_xt and fth_catch_exec
Enter == \E kind \in Kind :
    /\ Depth < MaxScopes
    /\ gc_push
    /\ overflowed' = (overflowed \/ Saturates)
    /\ scopes' = Append(scopes, [kind |-> kind, base |-> LevelAbove])
    /\ UNCHANGED <<live, owner>>

\* CATCH keeps a copy of the VM, frames included.
Catch ==
    /\ Depth < MaxScopes
    /\ scopes' = Append(scopes, [kind |-> "catch", base |-> gc_frame_level, inst |-> gc_inst])
    /\ UNCHANGED <<frames, live, owner, overflowed>>

\* LOOP and +LOOP, back to the head of the loop
Iterate ==
    /\ scopes # <<>> /\ Top.kind = "loop"
    /\ gc_loop_reset
    /\ Disown(Depth)
    /\ UNCHANGED <<live, scopes, overflowed>>

\* LOOP and +LOOP at the limit, LEAVE, and the end of a C entry
Leave ==
    /\ scopes # <<>> /\ Top.kind \in Kind
    /\ gc_pop(1)
    /\ scopes' = Outer
    /\ Disown(Depth)
    /\ UNCHANGED <<live, overflowed>>

\* UNLOOP forgets the loop and leaves its frame where it is.
Unloop ==
    /\ scopes # <<>> /\ Top.kind = "loop"
    /\ scopes' = Outer
    /\ Disown(Depth)
    /\ UNCHANGED <<frames, live, overflowed>>

\* A CATCH that caught nothing leaves the frames alone: what was made inside it
\* belongs to the scope around it.
CatchNothing ==
    /\ scopes # <<>> /\ Top.kind = "catch"
    /\ scopes' = Outer
    /\ owner' = [i \in Inst |-> IF owner[i] > Depth THEN Depth ELSE owner[i]]
    /\ UNCHANGED <<frames, live, overflowed>>

\* Throw to the innermost CATCH, scopes[k]
Throw == \E k \in 1..Depth :
    /\ scopes[k].kind = "catch"
    /\ \A j \in (k + 1)..Depth : scopes[j].kind # "catch"
    /\ gc_frame_level' = scopes[k].base
    /\ gc_inst' = scopes[k].inst
    /\ scopes' = SubSeq(scopes, 1, k - 1)
    /\ Disown(k)
    /\ UNCHANGED <<live, overflowed>>

\* Nothing catches.  Evaluations return one after the other and pop their
\* frame, and so does a call that nothing else is around; other calls and loops
\* are jumped over and do not.
Returning == {k \in 1..Depth : scopes[k].kind = "eval" \/ (k = 1 /\ scopes[k].kind = "xt")}
ThrowUncaught ==
    /\ scopes # <<>>
    /\ \A k \in 1..Depth : scopes[k].kind # "catch"
    /\ gc_pop(Cardinality(Returning))
    /\ scopes' = <<>>
    /\ Disown(1)
    /\ UNCHANGED <<live, overflowed>>

\* A signal goes back to the REPL, which pops nothing, or to the evaluation or
\* call that set fth_sig_toplevel last, which pops one frame and returns.
SignalRepl ==
    /\ scopes # <<>>
    /\ scopes' = <<>>
    /\ Disown(1)
    /\ UNCHANGED <<frames, live, overflowed>>
Signal == \E k \in 1..Depth :
    /\ scopes[k].kind \in {"eval", "xt"}
    /\ gc_pop(1)
    /\ scopes' = SubSeq(scopes, 1, k - 1)
    /\ Disown(k)
    /\ UNCHANGED <<live, overflowed>>

Next ==
    \/ fth_make_instance \/ gc_run
    \/ Enter \/ Catch \/ Iterate \/ Leave \/ Unloop \/ CatchNothing
    \/ Throw \/ ThrowUncaught \/ SignalRepl \/ Signal

Spec == Init /\ [][Next]_vars

-----------------------------------------------------------------------------
TypeOK ==
    /\ gc_inst \in [Frame -> SUBSET Inst]
    /\ gc_frame_level \in Frame
    /\ live \subseteq Inst
    /\ scopes \in Seq(Scope)
    /\ Len(scopes) <= MaxScopes
    /\ owner \in [Inst -> 0..(MaxScopes + 1)]
    /\ overflowed \in BOOLEAN

\* An object made by a loop, a call or a catch body the program is still in
\* (for a loop: in its current round) is not freed, whatever exceptions, leaked
\* frames and collections came in between: the C code and the locals that
\* still use it rely on gc_push and gc_pop alone.  It ends where gc_push
\* saturates.
ScopeObjectsAlive == overflowed \/ \A i \in Inst : owner[i] # 0 => i \in live

\* The free list and the frames' lists are linked through the one FInstance.next
\* field: no active frame lists a freed slot, also after CATCH has put old
\* lists back, so gc_run's walk stays off the free list.
FramesNotFreed == overflowed \/ FramesUsable

-----------------------------------------------------------------------------
(* The inductive invariant behind the two. *)

Framed(k) == scopes[k].kind \in Kind
IsCatch(k) == scopes[k].kind = "catch"

\* Frame l is below the frames of the scopes m to n: none of them, when it ends
\* or starts a new round, touches l.
Under(l, m, n) == \A k \in m..n : Framed(k) => l < scopes[k].base

\* The frames of nested scopes lie above each other and none is above the level.
BasesOrdered ==
    /\ \A k \in 1..Depth : scopes[k].base <= gc_frame_level
    /\ \A j, k \in 1..Depth : j < k => scopes[j].base <= scopes[k].base
    /\ \A k \in 1..Depth : Framed(k) => 1 <= scopes[k].base
    /\ \A j, k \in 1..Depth : j < k /\ Framed(k) => scopes[j].base < scopes[k].base
    /\ \A k \in 1..Depth : (\A m \in 1..k : Framed(m)) => scopes[k].base >= scopes[1].base + k - 1

\* An object with an owner is listed in a frame that outlasts its scope.
OwnedListed ==
    \A i \in Inst : owner[i] # 0 =>
        /\ owner[i] <= Depth + 1
        /\ \E l \in 0..gc_frame_level : i \in gc_inst[l] /\ Under(l, owner[i], Depth)

\* What a CATCH has saved is still listed, and lists what the scopes around own.
SavedListed ==
    \A c \in 1..Depth : IsCatch(c) =>
        /\ \A l \in 0..scopes[c].base : scopes[c].inst[l] \subseteq gc_inst[l]
        /\ \A d \in 1..Depth : IsCatch(d) /\ c < d =>
              \A l \in 0..scopes[c].base : scopes[c].inst[l] \subseteq scopes[d].inst[l]
        /\ \A i \in Inst : owner[i] # 0 /\ owner[i] <= c =>
              \E l \in 0..scopes[c].base : i \in scopes[c].inst[l] /\ Under(l, owner[i], c - 1)

Safe == BasesOrdered /\ OwnedListed /\ SavedListed /\ FramesUsable
Sound == overflowed \/ Safe
ScopeInv == TypeOK /\ Sound
=============================================================================
