--------------------------- MODULE FthScopesProofs ---------------------------
(***************************************************************************)
(* Proofs about FthScopes, for any number of frames, slots and scopes.     *)
(***************************************************************************)
EXTENDS FthScopes, FiniteSetTheorems, TLAPS

\* What the type of `scopes' says of one of its elements.
LEMMA ScopeFields ==
    ASSUME TypeOK, NEW k \in 1..Depth
    PROVE  /\ scopes[k] \in Scope
           /\ scopes[k].base \in Frame
           /\ Framed(k) \/ IsCatch(k)
           /\ ~(Framed(k) /\ IsCatch(k))
           /\ IsCatch(k) => scopes[k].inst \in [Frame -> SUBSET Inst]
  <1>1. scopes[k] \in Scope
    BY DEF TypeOK, Depth
  <1> QED
    BY <1>1 DEF Scope, Framed, IsCatch, Kind

\* Levels and depths are integers of the expected range.
LEMMA Ranges ==
    ASSUME TypeOK
    PROVE  /\ gc_frame_level \in Nat /\ gc_frame_level < GC_FRAME_SIZE
           /\ GC_FRAME_SIZE \in Nat \ {0}
           /\ Depth \in Nat /\ Depth <= MaxScopes /\ MaxScopes \in Nat
           /\ \A n \in Nat : LevelBelow(n) \in Frame /\ LevelBelow(n) <= gc_frame_level
           /\ LevelAbove \in Frame
  BY FrameAssumption, ScopeAssumption
     DEF TypeOK, Frame, Depth, LevelBelow, LevelAbove, Saturates

\* A prefix of `scopes' keeps the elements and their type.
LEMMA Prefix ==
    ASSUME TypeOK, NEW n \in 0..Depth
    PROVE  /\ SubSeq(scopes, 1, n) \in Seq(Scope)
           /\ Len(SubSeq(scopes, 1, n)) = n
           /\ \A k \in 1..n : SubSeq(scopes, 1, n)[k] = scopes[k]
  BY DEF TypeOK, Depth

\* The case of leaving the innermost scope.
LEMMA OuterPrefix ==
    ASSUME TypeOK, scopes # <<>>
    PROVE  /\ Depth \in Nat \ {0}
           /\ Outer \in Seq(Scope)
           /\ Len(Outer) = Depth - 1
           /\ \A k \in 1..(Depth - 1) : Outer[k] = scopes[k]
  <1>1. Depth \in Nat \ {0}
    BY DEF TypeOK, Depth
  <1>2. Depth - 1 \in 0..Depth
    BY <1>1
  <1> QED
    BY <1>1, <1>2, Prefix DEF Outer

\* Owners stay in their range when scopes are disowned.
LEMMA DisownType ==
    ASSUME TypeOK, NEW k \in Nat, Disown(k)
    PROVE  /\ owner' \in [Inst -> 0..(MaxScopes + 1)]
           /\ \A i \in Inst : owner'[i] # 0 => owner'[i] = owner[i] /\ owner[i] <= k
  BY ScopeAssumption DEF TypeOK, Disown

\* The number of frames an uncaught exception pops is at most the number of scopes.
LEMMA ReturningCount ==
    ASSUME TypeOK
    PROVE  Cardinality(Returning) \in Nat /\ Cardinality(Returning) <= Depth
  <1>1. Depth \in Nat
    BY Ranges
  <1>2. IsFiniteSet(1..Depth) /\ Cardinality(1..Depth) = Depth
    BY <1>1, FS_Interval
  <1>3. Returning \subseteq 1..Depth
    BY DEF Returning
  <1> QED
    BY <1>1, <1>2, <1>3, FS_Subset, FS_CardinalityType

-----------------------------------------------------------------------------
\* Type correctness of one step.
LEMMA TypeStep == TypeOK /\ [Next]_vars => TypeOK'
  <1> SUFFICES ASSUME TypeOK, [Next]_vars PROVE TypeOK'
    OBVIOUS
  <1>0. /\ gc_frame_level \in Frame /\ gc_inst \in [Frame -> SUBSET Inst]
        /\ live \subseteq Inst /\ scopes \in Seq(Scope) /\ Depth <= MaxScopes
        /\ owner \in [Inst -> 0..(MaxScopes + 1)] /\ overflowed \in BOOLEAN
        /\ Depth \in Nat /\ MaxScopes \in Nat
    BY Ranges DEF TypeOK, Depth
  <1>1. CASE fth_make_instance
    BY <1>0, <1>1 DEF fth_make_instance, TypeOK, Depth
  <1>2. CASE gc_run
    BY <1>0, <1>2 DEF gc_run, frames, TypeOK, Depth
  <1>3. CASE Enter
    <2>1. PICK kind \in Kind : scopes' = Append(scopes, [kind |-> kind, base |-> LevelAbove])
      BY <1>3 DEF Enter
    <2>2. LevelAbove \in Frame
      BY Ranges
    <2>3. [kind |-> kind, base |-> LevelAbove] \in Scope
      BY <2>2 DEF Scope
    <2>4. scopes' \in Seq(Scope) /\ Len(scopes') <= MaxScopes
      BY <1>0, <1>3, <2>1, <2>3 DEF Enter, Depth
    <2>5. gc_inst' \in [Frame -> SUBSET Inst] /\ gc_frame_level' \in Frame
      BY <1>0, <1>3, <2>2 DEF Enter, gc_push
    <2> QED
      BY <1>0, <1>3, <2>4, <2>5 DEF Enter, TypeOK
  <1>4. CASE Catch
    <2>1. [kind |-> "catch", base |-> gc_frame_level, inst |-> gc_inst] \in Scope
      BY <1>0 DEF Scope
    <2>2. scopes' \in Seq(Scope) /\ Len(scopes') <= MaxScopes
      BY <1>0, <1>4, <2>1 DEF Catch, Depth
    <2> QED
      BY <1>0, <1>4, <2>2 DEF Catch, frames, TypeOK
  <1>5. CASE Iterate
    <2>1. gc_inst' \in [Frame -> SUBSET Inst] /\ gc_frame_level' \in Frame
      BY <1>0, <1>5 DEF Iterate, gc_loop_reset
    <2>2. owner' \in [Inst -> 0..(MaxScopes + 1)]
      BY <1>0, <1>5, DisownType DEF Iterate
    <2> QED
      BY <1>0, <1>5, <2>1, <2>2 DEF Iterate, TypeOK, Depth
  <1>6. CASE Leave
    <2>1. gc_inst' \in [Frame -> SUBSET Inst] /\ gc_frame_level' \in Frame
      BY <1>0, <1>6, Ranges DEF Leave, gc_pop
    <2>2. owner' \in [Inst -> 0..(MaxScopes + 1)]
      BY <1>0, <1>6, DisownType DEF Leave
    <2>4. scopes' \in Seq(Scope) /\ Len(scopes') <= MaxScopes
      BY <1>0, <1>6, OuterPrefix DEF Leave
    <2> QED
      BY <1>0, <1>6, <2>1, <2>2, <2>4 DEF Leave, TypeOK
  <1>7. CASE Unloop
    <2>1. owner' \in [Inst -> 0..(MaxScopes + 1)]
      BY <1>0, <1>7, DisownType DEF Unloop
    <2>3. scopes' \in Seq(Scope) /\ Len(scopes') <= MaxScopes
      BY <1>0, <1>7, OuterPrefix DEF Unloop
    <2> QED
      BY <1>0, <1>7, <2>1, <2>3 DEF Unloop, frames, TypeOK
  <1>8. CASE CatchNothing
    <2>1. owner' \in [Inst -> 0..(MaxScopes + 1)]
      BY <1>0, <1>8 DEF CatchNothing
    <2>3. scopes' \in Seq(Scope) /\ Len(scopes') <= MaxScopes
      BY <1>0, <1>8, OuterPrefix DEF CatchNothing
    <2> QED
      BY <1>0, <1>8, <2>1, <2>3 DEF CatchNothing, frames, TypeOK
  <1>9. CASE Throw
    <2>1. PICK k \in 1..Depth : /\ scopes[k].kind = "catch"
                                /\ gc_frame_level' = scopes[k].base
                                /\ gc_inst' = scopes[k].inst
                                /\ scopes' = SubSeq(scopes, 1, k - 1)
                                /\ Disown(k)
      BY <1>9 DEF Throw
    <2>2. gc_inst' \in [Frame -> SUBSET Inst] /\ gc_frame_level' \in Frame
      BY <2>1, ScopeFields DEF IsCatch
    <2>3. owner' \in [Inst -> 0..(MaxScopes + 1)]
      BY <1>0, <2>1, DisownType
    <2>4. k - 1 \in 0..Depth
      BY <1>0
    <2>5. scopes' \in Seq(Scope) /\ Len(scopes') <= MaxScopes
      BY <1>0, <2>1, <2>4, Prefix
    <2> QED
      BY <1>0, <1>9, <2>2, <2>3, <2>5 DEF Throw, TypeOK
  <1>10. CASE ThrowUncaught
    <2>1. gc_inst' \in [Frame -> SUBSET Inst] /\ gc_frame_level' \in Frame
      BY <1>0, <1>10, Ranges, ReturningCount DEF ThrowUncaught, gc_pop
    <2>2. owner' \in [Inst -> 0..(MaxScopes + 1)]
      BY <1>0, <1>10, DisownType DEF ThrowUncaught
    <2> QED
      BY <1>0, <1>10, <2>1, <2>2 DEF ThrowUncaught, TypeOK
  <1>11. CASE SignalRepl
    <2>1. owner' \in [Inst -> 0..(MaxScopes + 1)]
      BY <1>0, <1>11, DisownType DEF SignalRepl
    <2> QED
      BY <1>0, <1>11, <2>1 DEF SignalRepl, frames, TypeOK
  <1>12. CASE Signal
    <2>1. PICK k \in 1..Depth : /\ scopes' = SubSeq(scopes, 1, k - 1)
                                /\ Disown(k)
      BY <1>12 DEF Signal
    <2>2. gc_inst' \in [Frame -> SUBSET Inst] /\ gc_frame_level' \in Frame
      BY <1>0, <1>12, Ranges DEF Signal, gc_pop
    <2>3. owner' \in [Inst -> 0..(MaxScopes + 1)]
      BY <1>0, <2>1, DisownType
    <2>4. k - 1 \in 0..Depth
      BY <1>0
    <2>5. scopes' \in Seq(Scope) /\ Len(scopes') <= MaxScopes
      BY <1>0, <2>1, <2>4, Prefix
    <2> QED
      BY <1>0, <1>12, <2>2, <2>3, <2>5 DEF Signal, TypeOK
  <1>13. CASE UNCHANGED vars
    BY <1>13 DEF vars, frames, TypeOK
  <1> QED
    BY <1>1, <1>2, <1>3, <1>4, <1>5, <1>6, <1>7, <1>8, <1>9, <1>10, <1>11, <1>12, <1>13 DEF Next

\* Type correctness: TypeOK of FthScopes holds in every state the frames, the
\* scopes and the saved copies of CATCH can reach.
THEOREM TypeCorrect == Spec => []TypeOK
  <1>1. Init => TypeOK
    <2> SUFFICES ASSUME Init PROVE TypeOK
      OBVIOUS
    <2>1. gc_inst \in [Frame -> SUBSET Inst] /\ live \subseteq Inst /\ overflowed \in BOOLEAN
      BY DEF Init, init_gc
    <2>2. gc_frame_level \in Frame
      BY FrameAssumption DEF Init, init_gc, Frame
    <2>3. scopes \in Seq(Scope) /\ Len(scopes) <= MaxScopes
      BY ScopeAssumption DEF Init
    <2>4. owner \in [Inst -> 0..(MaxScopes + 1)]
      BY ScopeAssumption DEF Init
    <2> QED
      BY <2>1, <2>2, <2>3, <2>4 DEF TypeOK
  <1> QED
    BY <1>1, TypeStep, PTL DEF Spec

-----------------------------------------------------------------------------
(* One step preserves Safe while no frame is missing. *)

\* What stays of the scopes when only the first n are left.
LEMMA PrefixScopes ==
    ASSUME TypeOK, NEW n \in 0..Depth, scopes' = SubSeq(scopes, 1, n)
    PROVE  /\ Depth' = n
           /\ \A k \in 1..n : scopes'[k] = scopes[k]
  <1>1. /\ Len(SubSeq(scopes, 1, n)) = n
        /\ \A k \in 1..n : SubSeq(scopes, 1, n)[k] = scopes[k]
    BY Prefix
  <1> QED
    BY <1>1 DEF Depth

\* Leaving scopes is safe if the level stays at or above the frames that the
\* remaining scopes and the objects they own use.
LEMMA PrefixSafe ==
    ASSUME TypeOK, TypeOK', Safe,
           NEW n \in 0..Depth, scopes' = SubSeq(scopes, 1, n),
           gc_frame_level' <= gc_frame_level,
           \A l \in 0..gc_frame_level' : gc_inst'[l] = gc_inst[l],
           \A k \in 1..n : scopes[k].base <= gc_frame_level',
           \A i \in Inst : owner'[i] # 0 => owner'[i] = owner[i] /\ owner[i] <= n + 1,
           \A i \in Inst : \A l \in 0..gc_frame_level :
               owner'[i] # 0 /\ Under(l, owner[i], Depth) => l <= gc_frame_level',
           live' = live
    PROVE  Safe'
  <1>0. /\ Depth \in Nat /\ gc_frame_level \in Nat /\ gc_frame_level' \in Nat
        /\ \A i \in Inst : owner[i] \in Nat
    BY Ranges, FrameAssumption DEF TypeOK, Frame
  <1>1. Depth' = n /\ \A k \in 1..n : scopes'[k] = scopes[k]
    BY PrefixScopes
  <1>2. \A k \in 1..Depth : scopes[k].base \in Nat
    BY ScopeFields, FrameAssumption DEF Frame
  <1>4. BasesOrdered'
    BY <1>0, <1>1, <1>2 DEF Safe, BasesOrdered, Framed
  <1>5. OwnedListed'
    <2> SUFFICES ASSUME NEW i \in Inst, owner'[i] # 0
                 PROVE  /\ owner'[i] <= n + 1
                        /\ \E l \in 0..gc_frame_level' :
                              /\ i \in gc_inst'[l]
                              /\ \A k \in owner'[i]..n :
                                    scopes'[k].kind \in Kind => l < scopes'[k].base
      BY <1>1 DEF OwnedListed, Under, Framed
    <2>1. owner'[i] = owner[i] /\ owner[i] <= n + 1 /\ owner[i] \in Nat \ {0}
      BY <1>0
    <2>2. PICK l \in 0..gc_frame_level : i \in gc_inst[l] /\ Under(l, owner[i], Depth)
      BY <2>1 DEF Safe, OwnedListed
    <2>3. l \in 0..gc_frame_level' /\ gc_inst'[l] = gc_inst[l]
      BY <1>0, <2>2
    <2>4. \A k \in owner[i]..n : scopes'[k].kind \in Kind => l < scopes'[k].base
      BY <1>0, <1>1, <2>1, <2>2 DEF Under, Framed
    <2> QED
      BY <2>1, <2>2, <2>3, <2>4
  <1>6. SavedListed'
    <2> SUFFICES ASSUME NEW c \in 1..n, IsCatch(c)'
                 PROVE  /\ \A l \in 0..scopes'[c].base : scopes'[c].inst[l] \subseteq gc_inst'[l]
                        /\ \A d \in 1..n : IsCatch(d)' /\ c < d =>
                              \A l \in 0..scopes'[c].base : scopes'[c].inst[l] \subseteq scopes'[d].inst[l]
                        /\ \A i \in Inst : owner'[i] # 0 /\ owner'[i] <= c =>
                              \E l \in 0..scopes'[c].base :
                                  /\ i \in scopes'[c].inst[l]
                                  /\ \A k \in owner'[i]..(c - 1) :
                                        scopes'[k].kind \in Kind => l < scopes'[k].base
      BY <1>1 DEF SavedListed, Under, Framed
    <2>0. IsCatch(c) /\ scopes'[c] = scopes[c]
      BY <1>1 DEF IsCatch
    <2>1. c \in 1..Depth /\ scopes[c].base \in Nat /\ scopes[c].base <= gc_frame_level'
      BY <1>0, <1>2
    <2>2. \A l \in 0..scopes[c].base : scopes[c].inst[l] \subseteq gc_inst'[l]
      BY <1>0, <2>0, <2>1 DEF Safe, SavedListed
    <2>3. ASSUME NEW i \in Inst, owner'[i] # 0, owner'[i] <= c
          PROVE  \E l \in 0..scopes[c].base :
                    /\ i \in scopes[c].inst[l]
                    /\ \A k \in owner'[i]..(c - 1) :
                          scopes'[k].kind \in Kind => l < scopes'[k].base
      <3>1. owner'[i] = owner[i] /\ owner[i] \in Nat \ {0} /\ owner[i] <= c
        BY <1>0, <2>3
      <3>2. PICK l \in 0..scopes[c].base : i \in scopes[c].inst[l] /\ Under(l, owner[i], c - 1)
        BY <2>0, <2>1, <3>1 DEF Safe, SavedListed
      <3>3. \A k \in owner[i]..(c - 1) : scopes'[k].kind \in Kind => l < scopes'[k].base
        BY <1>0, <1>1, <3>1, <3>2 DEF Under, Framed
      <3> QED
        BY <3>1, <3>2, <3>3
    <2>4. ASSUME NEW d \in 1..n, IsCatch(d)', c < d
          PROVE  \A l \in 0..scopes[c].base : scopes[c].inst[l] \subseteq scopes'[d].inst[l]
      <3>1. IsCatch(d) /\ d \in 1..Depth /\ scopes'[d] = scopes[d]
        BY <1>0, <1>1, <2>4 DEF IsCatch
      <3> QED
        BY <2>0, <2>1, <2>4, <3>1 DEF Safe, SavedListed
    <2> QED
      BY <2>0, <2>2, <2>3, <2>4
  <1>7. FramesUsable'
    BY <1>0 DEF Safe, FramesUsable, Active
  <1> QED
    BY <1>4, <1>5, <1>6, <1>7 DEF Safe

\* Popping as many frames as there are leaves the frames below alone.
LEMMA Popped ==
    ASSUME TypeOK, NEW n \in Nat, n <= gc_frame_level, gc_pop(n)
    PROVE  /\ gc_frame_level' = gc_frame_level - n
           /\ \A l \in 0..gc_frame_level' : gc_inst'[l] = gc_inst[l]
  <1>1. gc_frame_level \in Nat /\ gc_frame_level < GC_FRAME_SIZE /\ GC_FRAME_SIZE \in Nat
    BY Ranges
  <1>2. LevelBelow(n) = gc_frame_level - n /\ gc_frame_level' = gc_frame_level - n
    BY <1>1 DEF gc_pop, LevelBelow
  <1>3. \A l \in 0..(gc_frame_level - n) : l \in Frame /\ ~(l > gc_frame_level - n)
    BY <1>1 DEF Frame
  <1> QED
    BY <1>2, <1>3 DEF gc_pop

\* A scope that ends with gc_pop: LOOP and +LOOP at the limit, LEAVE, the
\* return of a C entry.
LEMMA LeaveSafe ==
    ASSUME TypeOK, TypeOK', Safe, Leave
    PROVE  Safe'
  <1>0. /\ Depth \in Nat \ {0} /\ gc_frame_level \in Nat
        /\ \A i \in Inst : owner[i] \in Nat
    BY Ranges, OuterPrefix DEF Leave, TypeOK
  <1>1. Framed(Depth) /\ 1 <= scopes[Depth].base /\ scopes[Depth].base <= gc_frame_level
    BY <1>0 DEF Leave, Top, Framed, Safe, BasesOrdered
  <1>2. scopes[Depth].base \in Nat
    BY <1>0, ScopeFields, FrameAssumption DEF Frame
  <1>3. gc_frame_level' = gc_frame_level - 1
    BY <1>0, <1>1, <1>2, Popped DEF Leave
  <1>4. \A l \in 0..gc_frame_level' : gc_inst'[l] = gc_inst[l]
    BY <1>0, <1>1, <1>2, Popped DEF Leave
  <1>5. \A i \in Inst : owner'[i] # 0 => owner'[i] = owner[i] /\ owner[i] <= Depth
    BY <1>0, DisownType DEF Leave
  <1>6. ASSUME NEW k \in 1..(Depth - 1) PROVE scopes[k].base <= gc_frame_level'
    <2>1. scopes[k].base < scopes[Depth].base
      BY <1>0, <1>1 DEF Safe, BasesOrdered
    <2>2. scopes[k].base \in Nat
      BY <1>0, ScopeFields, FrameAssumption DEF Frame
    <2> QED
      BY <1>0, <1>1, <1>2, <1>3, <2>1, <2>2
  <1>7. ASSUME NEW i \in Inst, NEW l \in 0..gc_frame_level, owner'[i] # 0, Under(l, owner[i], Depth)
        PROVE  l <= gc_frame_level'
    <2>1. l < scopes[Depth].base
      BY <1>0, <1>1, <1>5, <1>7 DEF Under
    <2> QED
      BY <1>0, <1>1, <1>2, <1>3, <2>1
  <1>8. Depth - 1 \in 0..Depth /\ scopes' = SubSeq(scopes, 1, Depth - 1) /\ live' = live
    BY <1>0 DEF Leave, Outer
  <1>9. \A i \in Inst : owner'[i] # 0 => owner'[i] = owner[i] /\ owner[i] <= (Depth - 1) + 1
    BY <1>0, <1>5
  <1>10. gc_frame_level' <= gc_frame_level
    BY <1>0, <1>3
  <1> QED
    BY <1>4, <1>6, <1>7, <1>8, <1>9, <1>10, PrefixSafe

\* UNLOOP: the frame stays, and one frame more than needed is kept.
LEMMA UnloopSafe ==
    ASSUME TypeOK, TypeOK', Safe, Unloop
    PROVE  Safe'
  <1>0. Depth \in Nat \ {0} /\ gc_frame_level \in Nat
    BY Ranges, OuterPrefix DEF Unloop
  <1>1. gc_frame_level' = gc_frame_level /\ gc_inst' = gc_inst /\ live' = live
    BY DEF Unloop, frames
  <1>2. \A i \in Inst : owner'[i] # 0 => owner'[i] = owner[i] /\ owner[i] <= (Depth - 1) + 1
    BY <1>0, DisownType DEF Unloop
  <1>3. Depth - 1 \in 0..Depth /\ scopes' = SubSeq(scopes, 1, Depth - 1)
    BY <1>0 DEF Unloop, Outer
  <1>4. \A k \in 1..(Depth - 1) : scopes[k].base <= gc_frame_level'
    BY <1>0, <1>1 DEF Safe, BasesOrdered
  <1>5. gc_frame_level' <= gc_frame_level /\ \A l \in 0..gc_frame_level : l <= gc_frame_level'
    BY <1>0, <1>1
  <1> QED
    BY <1>1, <1>2, <1>3, <1>4, <1>5, PrefixSafe

\* A signal that goes to the REPL: nothing is popped.
LEMMA SignalReplSafe ==
    ASSUME TypeOK, TypeOK', Safe, SignalRepl
    PROVE  Safe'
  <1>0. Depth \in Nat /\ gc_frame_level \in Nat
    BY Ranges
  <1>1. gc_frame_level' = gc_frame_level /\ gc_inst' = gc_inst /\ live' = live
    BY DEF SignalRepl, frames
  <1>2. \A i \in Inst : owner'[i] # 0 => owner'[i] = owner[i] /\ owner[i] <= 0 + 1
    BY DisownType DEF SignalRepl
  <1>3. 0 \in 0..Depth /\ scopes' = SubSeq(scopes, 1, 0)
    BY <1>0 DEF SignalRepl, TypeOK
  <1>4. gc_frame_level' <= gc_frame_level /\ \A l \in 0..gc_frame_level : l <= gc_frame_level'
    BY <1>0, <1>1
  <1> QED
    BY <1>1, <1>2, <1>3, <1>4, PrefixSafe

\* A signal that goes to the evaluation or call scopes[k]: one frame is popped,
\* however many scopes end.
LEMMA SignalSafe ==
    ASSUME TypeOK, TypeOK', Safe, Signal
    PROVE  Safe'
  <1>1. PICK k \in 1..Depth : /\ scopes[k].kind \in {"eval", "xt"}
                              /\ gc_pop(1)
                              /\ scopes' = SubSeq(scopes, 1, k - 1)
                              /\ Disown(k)
                              /\ live' = live
    BY DEF Signal
  <1>0. Depth \in Nat /\ k \in Nat \ {0} /\ gc_frame_level \in Nat
    BY Ranges
  <1>2. Framed(k) /\ 1 <= scopes[k].base /\ scopes[k].base <= gc_frame_level
    BY <1>1 DEF Framed, Kind, Safe, BasesOrdered
  <1>3. scopes[k].base \in Nat
    BY ScopeFields, FrameAssumption DEF Frame
  <1>4. gc_frame_level' = gc_frame_level - 1
    BY <1>0, <1>1, <1>2, <1>3, Popped
  <1>5. \A l \in 0..gc_frame_level' : gc_inst'[l] = gc_inst[l]
    BY <1>0, <1>1, <1>2, <1>3, Popped
  <1>6. \A i \in Inst : owner'[i] # 0 => owner'[i] = owner[i] /\ owner[i] <= (k - 1) + 1
    BY <1>0, <1>1, DisownType
  <1>7. ASSUME NEW j \in 1..(k - 1) PROVE scopes[j].base <= gc_frame_level'
    <2>1. scopes[j].base < scopes[k].base
      BY <1>0, <1>2 DEF Safe, BasesOrdered
    <2>2. scopes[j].base \in Nat
      BY <1>0, ScopeFields, FrameAssumption DEF Frame
    <2> QED
      BY <1>0, <1>2, <1>3, <1>4, <2>1, <2>2
  <1>8. ASSUME NEW i \in Inst, NEW l \in 0..gc_frame_level, owner'[i] # 0, Under(l, owner[i], Depth)
        PROVE  l <= gc_frame_level'
    <2>0. owner[i] \in Nat /\ owner[i] <= k
      BY <1>0, <1>6, <1>8 DEF TypeOK
    <2>1. l < scopes[k].base
      BY <1>0, <1>2, <1>8, <2>0 DEF Under
    <2> QED
      BY <1>0, <1>2, <1>3, <1>4, <2>1
  <1>9. k - 1 \in 0..Depth /\ gc_frame_level' <= gc_frame_level
    BY <1>0, <1>4
  <1> QED
    BY <1>1, <1>5, <1>6, <1>7, <1>8, <1>9, PrefixSafe

\* An exception nothing catches: the frames popped are at most the scopes that
\* end, so the frames below the outermost scope stay.
LEMMA ThrowUncaughtSafe ==
    ASSUME TypeOK, TypeOK', Safe, ThrowUncaught
    PROVE  Safe'
  <1> DEFINE n == Cardinality(Returning)
  <1>0. /\ Depth \in Nat \ {0} /\ gc_frame_level \in Nat
        /\ n \in Nat /\ n <= Depth
    BY Ranges, OuterPrefix, ReturningCount DEF ThrowUncaught
  <1>1. \A k \in 1..Depth : Framed(k)
    BY ScopeFields DEF ThrowUncaught, IsCatch
  <1>2. /\ scopes[1].base \in Nat /\ scopes[Depth].base \in Nat
        /\ 1 <= scopes[1].base
        /\ scopes[Depth].base <= gc_frame_level
        /\ scopes[Depth].base >= scopes[1].base + Depth - 1
    <2>1. 1 \in 1..Depth /\ Depth \in 1..Depth
      BY <1>0
    <2>2. \A m \in 1..Depth : Framed(m)
      BY <1>1
    <2> QED
      BY <2>1, <2>2, ScopeFields, FrameAssumption DEF Safe, BasesOrdered, Frame
  <1>3. gc_pop(n) /\ scopes' = <<>> /\ Disown(1) /\ live' = live
    BY DEF ThrowUncaught
  <1> HIDE DEF n
  <1>4. gc_frame_level' = gc_frame_level - n /\ gc_frame_level' >= scopes[1].base - 1
    BY <1>0, <1>2, <1>3, Popped
  <1>5. \A l \in 0..gc_frame_level' : gc_inst'[l] = gc_inst[l]
    BY <1>0, <1>2, <1>3, Popped
  <1>6. \A i \in Inst : owner'[i] # 0 => owner'[i] = owner[i] /\ owner[i] <= 0 + 1
    BY <1>3, DisownType
  <1>7. ASSUME NEW i \in Inst, NEW l \in 0..gc_frame_level, owner'[i] # 0, Under(l, owner[i], Depth)
        PROVE  l <= gc_frame_level'
    <2>0. owner[i] \in Nat /\ owner[i] <= 1
      BY <1>6, <1>7 DEF TypeOK
    <2>1. l < scopes[1].base
      BY <1>0, <1>1, <1>7, <2>0 DEF Under
    <2> QED
      BY <1>0, <1>2, <1>4, <2>1
  <1>8. 0 \in 0..Depth /\ scopes' = SubSeq(scopes, 1, 0)
    BY <1>0, <1>3 DEF TypeOK
  <1>9. gc_frame_level' <= gc_frame_level
    BY <1>0, <1>4
  <1> QED
    BY <1>3, <1>5, <1>6, <1>7, <1>8, <1>9, PrefixSafe

\* The facts about the current state that the remaining cases use.
LEMMA Basics ==
    ASSUME TypeOK
    PROVE  /\ Depth \in Nat /\ gc_frame_level \in Nat /\ gc_frame_level \in Frame
           /\ gc_inst \in [Frame -> SUBSET Inst] /\ owner \in [Inst -> Nat]
           /\ \A l \in 0..gc_frame_level : l \in Frame
           /\ \A k \in 1..Depth : scopes[k].base \in Nat /\ \A l \in 0..scopes[k].base : l \in Frame
  <1>1. Depth \in Nat /\ gc_frame_level \in Nat /\ gc_frame_level \in Frame
    BY Ranges DEF TypeOK
  <1>2. gc_inst \in [Frame -> SUBSET Inst] /\ owner \in [Inst -> Nat]
    BY ScopeAssumption DEF TypeOK
  <1>3. \A l \in 0..gc_frame_level : l \in Frame
    BY <1>1, FrameAssumption DEF Frame
  <1>4. ASSUME NEW k \in 1..Depth
        PROVE  scopes[k].base \in Nat /\ \A l \in 0..scopes[k].base : l \in Frame
    BY ScopeFields, FrameAssumption DEF Frame
  <1> QED
    BY <1>1, <1>2, <1>3, <1>4

\* A new object is listed in the current frame, which no open scope ends before
\* its maker does.
LEMMA MakeSafe ==
    ASSUME TypeOK, TypeOK', Safe, fth_make_instance
    PROVE  Safe'
  <1>0. /\ Depth \in Nat /\ gc_frame_level \in Nat /\ gc_frame_level \in Frame
        /\ gc_inst \in [Frame -> SUBSET Inst] /\ owner \in [Inst -> Nat]
        /\ \A l \in 0..gc_frame_level : l \in Frame
    BY Basics
  <1>1. PICK new \in Inst \ live : /\ live' = live \cup {new}
                                   /\ gc_inst' = [gc_inst EXCEPT ![gc_frame_level] = @ \cup {new}]
                                   /\ owner' = [owner EXCEPT ![new] = Depth + 1]
                                   /\ gc_frame_level' = gc_frame_level /\ scopes' = scopes
    BY DEF fth_make_instance, Depth
  <1>2. /\ \A l \in Frame : gc_inst[l] \subseteq gc_inst'[l] /\ gc_inst'[l] \subseteq gc_inst[l] \cup {new}
        /\ new \in gc_inst'[gc_frame_level]
        /\ \A i \in Inst : i # new => owner'[i] = owner[i]
        /\ owner'[new] = Depth + 1
        /\ Depth' = Depth
    BY <1>0, <1>1 DEF Depth
  <1>4. BasesOrdered'
    BY <1>1, <1>2 DEF Safe, BasesOrdered, Framed
  <1>5. OwnedListed'
    <2> SUFFICES ASSUME NEW i \in Inst, owner'[i] # 0
                 PROVE  /\ owner'[i] <= Depth + 1
                        /\ \E l \in 0..gc_frame_level : i \in gc_inst'[l] /\ Under(l, owner'[i], Depth)
      BY <1>1, <1>2 DEF OwnedListed, Under, Framed
    <2>1. CASE i = new
      <3>1. Under(gc_frame_level, Depth + 1, Depth)
        BY <1>0 DEF Under
      <3> QED
        BY <1>0, <1>2, <2>1, <3>1
    <2>2. CASE i # new
      BY <1>0, <1>2, <2>2 DEF Safe, OwnedListed
    <2> QED
      BY <2>1, <2>2
  <1>6. SavedListed'
    <2> SUFFICES ASSUME NEW c \in 1..Depth, IsCatch(c)
                 PROVE  /\ \A l \in 0..scopes[c].base : scopes[c].inst[l] \subseteq gc_inst'[l]
                        /\ \A d \in 1..Depth : IsCatch(d) /\ c < d =>
                              \A l \in 0..scopes[c].base : scopes[c].inst[l] \subseteq scopes[d].inst[l]
                        /\ \A i \in Inst : owner'[i] # 0 /\ owner'[i] <= c =>
                              \E l \in 0..scopes[c].base : i \in scopes[c].inst[l] /\ Under(l, owner'[i], c - 1)
      BY <1>1, <1>2 DEF SavedListed, Under, Framed, IsCatch
    <2>1. \A l \in 0..scopes[c].base : l \in Frame
      BY ScopeFields, FrameAssumption DEF Frame
    <2>2. \A l \in 0..scopes[c].base : scopes[c].inst[l] \subseteq gc_inst'[l]
      BY <1>2, <2>1 DEF Safe, SavedListed
    <2>3. \A i \in Inst : owner'[i] <= c => owner'[i] = owner[i]
      BY <1>0, <1>2
    <2> QED
      BY <2>2, <2>3 DEF Safe, SavedListed
  <1>7. FramesUsable'
    BY <1>0, <1>1, <1>2 DEF Safe, FramesUsable, Active
  <1> QED
    BY <1>4, <1>5, <1>6, <1>7 DEF Safe

\* A collection frees nothing an active frame lists and moves nothing else.
LEMMA GcRunSafe ==
    ASSUME Safe, gc_run
    PROVE  Safe'
  <1>1. frames' = frames /\ scopes' = scopes /\ owner' = owner /\ Active \subseteq live'
    BY DEF gc_run, FramesUsable
  <1>2. gc_inst' = gc_inst /\ gc_frame_level' = gc_frame_level
    BY <1>1 DEF frames
  <1>3. BasesOrdered' /\ OwnedListed' /\ SavedListed'
    BY <1>1, <1>2 DEF Safe, BasesOrdered, OwnedListed, SavedListed, Under, Framed, IsCatch, Depth
  <1>4. FramesUsable'
    BY <1>1, <1>2 DEF FramesUsable, Active
  <1> QED
    BY <1>3, <1>4 DEF Safe

\* What an added scope leaves of the ones before it.
LEMMA AppendScopes ==
    ASSUME TypeOK, NEW s, scopes' = Append(scopes, s)
    PROVE  /\ Depth' = Depth + 1
           /\ scopes'[Depth + 1] = s
           /\ \A k \in 1..Depth : scopes'[k] = scopes[k]
  BY DEF TypeOK, Depth

\* DO and the C entries: the new frame lies above all others.
LEMMA EnterSafe ==
    ASSUME TypeOK, TypeOK', Safe, Enter, ~overflowed'
    PROVE  Safe'
  <1>0. /\ Depth \in Nat /\ gc_frame_level \in Nat /\ gc_frame_level \in Frame
        /\ gc_inst \in [Frame -> SUBSET Inst] /\ owner \in [Inst -> Nat]
        /\ \A k \in 1..Depth : scopes[k].base \in Nat
    BY Basics
  <1>1. PICK kind \in Kind : scopes' = Append(scopes, [kind |-> kind, base |-> LevelAbove])
    BY DEF Enter
  <1>2. LevelAbove = gc_frame_level + 1 /\ gc_frame_level' = gc_frame_level + 1
    <2>1. ~Saturates
      BY DEF Enter
    <2> QED
      BY <2>1 DEF Enter, gc_push, LevelAbove
  <1>3. \A l \in 0..gc_frame_level : l \in 0..gc_frame_level' /\ gc_inst'[l] = gc_inst[l]
    BY <1>0, <1>2, Basics DEF Enter, gc_push
  <1>4. gc_inst'[gc_frame_level'] = {}
    <2>1. gc_frame_level' \in Frame
      BY DEF TypeOK
    <2> QED
      BY <1>0, <1>2, <2>1 DEF Enter, gc_push
  <1>5. /\ Depth' = Depth + 1
        /\ scopes'[Depth + 1].kind \in Kind /\ scopes'[Depth + 1].base = gc_frame_level + 1
        /\ \A k \in 1..Depth : scopes'[k] = scopes[k]
    <2> DEFINE s == [kind |-> kind, base |-> LevelAbove]
    <2>1. s.kind \in Kind /\ s.base = gc_frame_level + 1
      BY <1>2
    <2> HIDE DEF s
    <2>2. scopes' = Append(scopes, s)
      BY <1>1 DEF s
    <2> QED
      BY <2>1, <2>2, AppendScopes
  <1>6. owner' = owner /\ live' = live
    BY DEF Enter
  <1>7. BasesOrdered'
    <2>1. \A k \in 1..Depth : scopes[k].base <= gc_frame_level
      BY DEF Safe, BasesOrdered
    <2>2. /\ \A k \in 1..Depth' : scopes'[k].base <= gc_frame_level'
          /\ \A k \in 1..Depth' : Framed(k)' => 1 <= scopes'[k].base
      BY <1>0, <1>2, <1>5, <2>1 DEF Safe, BasesOrdered, Framed
    <2>3. /\ \A j, k \in 1..Depth' : j < k => scopes'[j].base <= scopes'[k].base
          /\ \A j, k \in 1..Depth' : j < k /\ Framed(k)' => scopes'[j].base < scopes'[k].base
      BY <1>0, <1>5, <2>1 DEF Safe, BasesOrdered, Framed
    <2>4. ASSUME NEW k \in 1..Depth', \A m \in 1..k : Framed(m)'
          PROVE  scopes'[k].base >= scopes'[1].base + k - 1
      <3>1. CASE k \in 1..Depth
        <4>1. \A m \in 1..k : Framed(m)
          BY <1>0, <1>5, <2>4, <3>1 DEF Framed
        <4> QED
          BY <1>0, <1>5, <3>1, <4>1 DEF Safe, BasesOrdered
      <3>2. CASE k = Depth + 1 /\ Depth # 0
        <4>1. Depth \in 1..Depth /\ \A m \in 1..Depth : Framed(m)
          BY <1>0, <1>5, <2>4, <3>2 DEF Framed
        <4>2. scopes[Depth].base >= scopes[1].base + Depth - 1 /\ scopes[Depth].base <= gc_frame_level
          BY <4>1, <2>1 DEF Safe, BasesOrdered
        <4> QED
          BY <1>0, <1>5, <3>2, <4>1, <4>2
      <3>3. CASE k = Depth + 1 /\ Depth = 0
        BY <1>0, <1>5, <3>3
      <3> QED
        BY <1>0, <1>5, <3>1, <3>2, <3>3
    <2> QED
      BY <2>2, <2>3, <2>4 DEF BasesOrdered
  <1>8. OwnedListed'
    <2> SUFFICES ASSUME NEW i \in Inst, owner[i] # 0
                 PROVE  /\ owner[i] <= Depth + 2
                        /\ \E l \in 0..gc_frame_level' :
                              /\ i \in gc_inst'[l]
                              /\ \A k \in owner[i]..(Depth + 1) :
                                    scopes'[k].kind \in Kind => l < scopes'[k].base
      BY <1>0, <1>5, <1>6 DEF OwnedListed, Under, Framed
    <2>1. PICK l \in 0..gc_frame_level : i \in gc_inst[l] /\ Under(l, owner[i], Depth)
      BY DEF Safe, OwnedListed
    <2>2. owner[i] <= Depth + 1 /\ owner[i] \in Nat \ {0}
      BY <1>0 DEF Safe, OwnedListed
    <2>3. \A k \in owner[i]..(Depth + 1) : scopes'[k].kind \in Kind => l < scopes'[k].base
      BY <1>0, <1>5, <2>1, <2>2 DEF Under, Framed
    <2> QED
      BY <1>0, <1>3, <2>1, <2>2, <2>3
  <1>9. SavedListed'
    <2> SUFFICES ASSUME NEW c \in 1..(Depth + 1), IsCatch(c)'
                 PROVE  /\ \A l \in 0..scopes'[c].base : scopes'[c].inst[l] \subseteq gc_inst'[l]
                        /\ \A d \in 1..(Depth + 1) : IsCatch(d)' /\ c < d =>
                              \A l \in 0..scopes'[c].base : scopes'[c].inst[l] \subseteq scopes'[d].inst[l]
                        /\ \A i \in Inst : owner[i] # 0 /\ owner[i] <= c =>
                              \E l \in 0..scopes'[c].base :
                                  /\ i \in scopes'[c].inst[l]
                                  /\ \A k \in owner[i]..(c - 1) :
                                        scopes'[k].kind \in Kind => l < scopes'[k].base
      BY <1>5, <1>6 DEF SavedListed, Under, Framed
    <2>1. \A d \in 1..(Depth + 1) : IsCatch(d)' => d \in 1..Depth /\ IsCatch(d) /\ scopes'[d] = scopes[d]
      BY <1>0, <1>5 DEF IsCatch, Kind
    <2>2. \A l \in 0..scopes[c].base : l \in 0..gc_frame_level
      BY <1>0, <2>1 DEF Safe, BasesOrdered
    <2>3. ASSUME NEW i \in Inst, owner[i] # 0, owner[i] <= c
          PROVE  \E l \in 0..scopes[c].base :
                    /\ i \in scopes[c].inst[l]
                    /\ \A k \in owner[i]..(c - 1) : scopes'[k].kind \in Kind => l < scopes'[k].base
      <3>1. PICK l \in 0..scopes[c].base : i \in scopes[c].inst[l] /\ Under(l, owner[i], c - 1)
        BY <2>1, <2>3 DEF Safe, SavedListed
      <3>2. \A k \in owner[i]..(c - 1) : k \in 1..Depth
        BY <1>0, <2>1, <2>3
      <3> QED
        BY <1>5, <3>1, <3>2 DEF Under, Framed
    <2>4. \A l \in 0..scopes[c].base : scopes[c].inst[l] \subseteq gc_inst'[l]
      BY <1>3, <2>1, <2>2 DEF Safe, SavedListed
    <2> QED
      BY <2>1, <2>3, <2>4 DEF Safe, SavedListed
  <1>10. FramesUsable'
    <2>1. \A l \in 0..gc_frame_level' : l \in 0..gc_frame_level \/ l = gc_frame_level'
      BY <1>0, <1>2
    <2> QED
      BY <1>3, <1>4, <1>6, <2>1 DEF Safe, FramesUsable, Active
  <1> QED
    BY <1>7, <1>8, <1>9, <1>10 DEF Safe

\* CATCH saves frames that list what the scopes around it own.
LEMMA CatchSafe ==
    ASSUME TypeOK, TypeOK', Safe, Catch
    PROVE  Safe'
  <1>0. /\ Depth \in Nat /\ gc_frame_level \in Nat /\ owner \in [Inst -> Nat]
        /\ \A k \in 1..Depth : scopes[k].base \in Nat
    BY Basics
  <1>1. gc_frame_level' = gc_frame_level /\ gc_inst' = gc_inst /\ owner' = owner /\ live' = live
    BY DEF Catch, frames
  <1>2. /\ Depth' = Depth + 1
        /\ scopes'[Depth + 1].kind = "catch" /\ scopes'[Depth + 1].base = gc_frame_level
        /\ scopes'[Depth + 1].inst = gc_inst
        /\ \A k \in 1..Depth : scopes'[k] = scopes[k]
    <2> DEFINE s == [kind |-> "catch", base |-> gc_frame_level, inst |-> gc_inst]
    <2>1. s.kind = "catch" /\ s.base = gc_frame_level /\ s.inst = gc_inst
      OBVIOUS
    <2> HIDE DEF s
    <2>2. scopes' = Append(scopes, s)
      BY DEF Catch, s
    <2> QED
      BY <2>1, <2>2, AppendScopes
  <1>3. \A k \in 1..Depth' : Framed(k)' => k \in 1..Depth /\ Framed(k)
    BY <1>0, <1>2 DEF Framed, Kind
  <1>4. BasesOrdered'
    <2>1. \A k \in 1..Depth : scopes[k].base <= gc_frame_level
      BY DEF Safe, BasesOrdered
    <2>2. /\ \A k \in 1..Depth' : scopes'[k].base <= gc_frame_level'
          /\ \A k \in 1..Depth' : Framed(k)' => 1 <= scopes'[k].base
      BY <1>0, <1>1, <1>2, <1>3, <2>1 DEF Safe, BasesOrdered
    <2>3. /\ \A j, k \in 1..Depth' : j < k => scopes'[j].base <= scopes'[k].base
          /\ \A j, k \in 1..Depth' : j < k /\ Framed(k)' => scopes'[j].base < scopes'[k].base
      BY <1>0, <1>2, <1>3, <2>1 DEF Safe, BasesOrdered
    <2>4. ASSUME NEW k \in 1..Depth', \A m \in 1..k : Framed(m)'
          PROVE  scopes'[k].base >= scopes'[1].base + k - 1
      <3>1. k \in 1..Depth /\ \A m \in 1..k : Framed(m)
        BY <1>0, <1>2, <1>3, <2>4
      <3> QED
        BY <1>0, <1>2, <3>1 DEF Safe, BasesOrdered
    <2> QED
      BY <2>2, <2>3, <2>4 DEF BasesOrdered
  <1>6. OwnedListed'
    <2> SUFFICES ASSUME NEW i \in Inst, owner[i] # 0
                 PROVE  /\ owner[i] <= Depth + 2
                        /\ \E l \in 0..gc_frame_level :
                              /\ i \in gc_inst[l]
                              /\ \A k \in owner[i]..(Depth + 1) :
                                    scopes'[k].kind \in Kind => l < scopes'[k].base
      BY <1>0, <1>1, <1>2 DEF OwnedListed, Under, Framed
    <2>1. PICK l \in 0..gc_frame_level : i \in gc_inst[l] /\ Under(l, owner[i], Depth)
      BY DEF Safe, OwnedListed
    <2>2. owner[i] <= Depth + 1 /\ owner[i] \in Nat
      BY <1>0 DEF Safe, OwnedListed
    <2>3. \A k \in owner[i]..(Depth + 1) : scopes'[k].kind \in Kind => l < scopes'[k].base
      BY <1>0, <1>2, <2>1 DEF Under, Framed, Kind
    <2> QED
      BY <1>0, <2>1, <2>2, <2>3
  <1>7. SavedListed'
    <2> SUFFICES ASSUME NEW c \in 1..(Depth + 1), IsCatch(c)'
                 PROVE  /\ \A l \in 0..scopes'[c].base : scopes'[c].inst[l] \subseteq gc_inst[l]
                        /\ \A d \in 1..(Depth + 1) : IsCatch(d)' /\ c < d =>
                              \A l \in 0..scopes'[c].base : scopes'[c].inst[l] \subseteq scopes'[d].inst[l]
                        /\ \A i \in Inst : owner[i] # 0 /\ owner[i] <= c =>
                              \E l \in 0..scopes'[c].base :
                                  /\ i \in scopes'[c].inst[l]
                                  /\ \A k \in owner[i]..(c - 1) :
                                        scopes'[k].kind \in Kind => l < scopes'[k].base
      BY <1>1, <1>2 DEF SavedListed, Under, Framed
    <2>1. CASE c = Depth + 1
      <3>1. ASSUME NEW i \in Inst, owner[i] # 0
            PROVE  \E l \in 0..gc_frame_level :
                      /\ i \in gc_inst[l]
                      /\ \A k \in owner[i]..Depth : scopes'[k].kind \in Kind => l < scopes'[k].base
        <4>1. PICK l \in 0..gc_frame_level : i \in gc_inst[l] /\ Under(l, owner[i], Depth)
          BY <3>1 DEF Safe, OwnedListed
        <4> QED
          BY <1>0, <1>2, <3>1, <4>1 DEF Under, Framed
      <3> QED
        BY <1>0, <1>2, <2>1, <3>1
    <2>2. CASE c \in 1..Depth
      <3>0. IsCatch(c) /\ scopes'[c] = scopes[c]
        BY <1>2, <2>2 DEF IsCatch
      <3>1. ASSUME NEW i \in Inst, owner[i] # 0, owner[i] <= c
            PROVE  \E l \in 0..scopes[c].base :
                      /\ i \in scopes[c].inst[l]
                      /\ \A k \in owner[i]..(c - 1) : scopes'[k].kind \in Kind => l < scopes'[k].base
        <4>1. PICK l \in 0..scopes[c].base : i \in scopes[c].inst[l] /\ Under(l, owner[i], c - 1)
          BY <2>2, <3>0, <3>1 DEF Safe, SavedListed
        <4>2. \A k \in owner[i]..(c - 1) : k \in 1..Depth
          BY <1>0, <2>2, <3>1
        <4> QED
          BY <1>2, <4>1, <4>2 DEF Under, Framed
      <3>2. \A l \in 0..scopes[c].base : scopes[c].inst[l] \subseteq gc_inst[l]
        BY <2>2, <3>0 DEF Safe, SavedListed
      <3>3. ASSUME NEW d \in 1..(Depth + 1), IsCatch(d)', c < d
            PROVE  \A l \in 0..scopes[c].base : scopes[c].inst[l] \subseteq scopes'[d].inst[l]
        <4>1. CASE d = Depth + 1
          BY <1>2, <3>2, <4>1
        <4>2. CASE d \in 1..Depth
          BY <1>2, <2>2, <3>0, <3>3, <4>2 DEF Safe, SavedListed, IsCatch
        <4> QED
          BY <1>0, <4>1, <4>2
      <3> QED
        BY <3>0, <3>1, <3>2, <3>3
    <2> QED
      BY <1>0, <2>1, <2>2
  <1>8. FramesUsable'
    BY <1>1 DEF Safe, FramesUsable, Active
  <1> QED
    BY <1>4, <1>6, <1>7, <1>8 DEF Safe

\* LOOP at the head of a new round: the frame emptied is above those that list
\* what the loop's surroundings own.
LEMMA IterateSafe ==
    ASSUME TypeOK, TypeOK', Safe, Iterate
    PROVE  Safe'
  <1>0. /\ Depth \in Nat \ {0} /\ gc_frame_level \in Nat /\ owner \in [Inst -> Nat]
        /\ gc_inst \in [Frame -> SUBSET Inst]
        /\ \A l \in 0..gc_frame_level : l \in Frame
        /\ \A k \in 1..Depth : scopes[k].base \in Nat
    BY Basics, OuterPrefix DEF Iterate
  <1>1. /\ gc_frame_level' = gc_frame_level /\ scopes' = scopes /\ live' = live
        /\ gc_inst' = [gc_inst EXCEPT ![gc_frame_level] = {}]
        /\ Depth' = Depth
    BY DEF Iterate, gc_loop_reset, Depth
  <1>2. /\ \A l \in 0..gc_frame_level : l # gc_frame_level => gc_inst'[l] = gc_inst[l]
        /\ \A l \in 0..gc_frame_level : gc_inst'[l] \subseteq gc_inst[l]
    BY <1>0, <1>1
  <1>3. \A i \in Inst : owner'[i] # 0 => owner'[i] = owner[i] /\ owner[i] <= Depth
    BY <1>0, DisownType DEF Iterate
  <1>4. Framed(Depth) /\ ~IsCatch(Depth)
    BY DEF Iterate, Top, Framed, IsCatch, Kind
  <1>5. scopes[Depth].base <= gc_frame_level
    BY <1>0 DEF Safe, BasesOrdered
  <1>6. BasesOrdered'
    BY <1>1 DEF Safe, BasesOrdered, Framed
  <1>7. OwnedListed'
    <2> SUFFICES ASSUME NEW i \in Inst, owner'[i] # 0
                 PROVE  /\ owner'[i] <= Depth + 1
                        /\ \E l \in 0..gc_frame_level : i \in gc_inst'[l] /\ Under(l, owner'[i], Depth)
      BY <1>1 DEF OwnedListed, Under, Framed
    <2>1. owner'[i] = owner[i] /\ owner[i] <= Depth /\ owner[i] # 0
      BY <1>3
    <2>2. PICK l \in 0..gc_frame_level : i \in gc_inst[l] /\ Under(l, owner[i], Depth)
      BY <2>1 DEF Safe, OwnedListed
    <2>3. l < scopes[Depth].base
      BY <1>0, <1>4, <2>1, <2>2 DEF Under
    <2>4. l # gc_frame_level
      BY <1>0, <1>5, <2>3
    <2> QED
      BY <1>0, <1>2, <2>1, <2>2, <2>4
  <1>8. SavedListed'
    <2> SUFFICES ASSUME NEW c \in 1..Depth, IsCatch(c)
                 PROVE  /\ \A l \in 0..scopes[c].base : scopes[c].inst[l] \subseteq gc_inst'[l]
                        /\ \A d \in 1..Depth : IsCatch(d) /\ c < d =>
                              \A l \in 0..scopes[c].base : scopes[c].inst[l] \subseteq scopes[d].inst[l]
                        /\ \A i \in Inst : owner'[i] # 0 /\ owner'[i] <= c =>
                              \E l \in 0..scopes[c].base : i \in scopes[c].inst[l] /\ Under(l, owner'[i], c - 1)
      BY <1>1 DEF SavedListed, Under, Framed, IsCatch
    <2>1. c < Depth
      BY <1>0, <1>4
    <2>2. scopes[c].base < scopes[Depth].base
      BY <1>0, <1>4, <2>1 DEF Safe, BasesOrdered
    <2>3. \A l \in 0..scopes[c].base : l \in 0..gc_frame_level /\ l # gc_frame_level
      BY <1>0, <1>5, <2>2
    <2>4. \A l \in 0..scopes[c].base : scopes[c].inst[l] \subseteq gc_inst'[l]
      BY <1>2, <2>3 DEF Safe, SavedListed
    <2>5. \A i \in Inst : owner'[i] # 0 /\ owner'[i] <= c => owner'[i] = owner[i]
      BY <1>3
    <2> QED
      BY <2>4, <2>5 DEF Safe, SavedListed
  <1>9. FramesUsable'
    BY <1>1, <1>2 DEF Safe, FramesUsable, Active
  <1> QED
    BY <1>6, <1>7, <1>8, <1>9 DEF Safe

\* A CATCH that caught nothing: its objects stay listed where they are.
LEMMA CatchNothingSafe ==
    ASSUME TypeOK, TypeOK', Safe, CatchNothing
    PROVE  Safe'
  <1>0. /\ Depth \in Nat \ {0} /\ gc_frame_level \in Nat /\ owner \in [Inst -> Nat]
        /\ \A k \in 1..Depth : scopes[k].base \in Nat
    BY Basics, OuterPrefix DEF CatchNothing
  <1>1. gc_frame_level' = gc_frame_level /\ gc_inst' = gc_inst /\ live' = live
    BY DEF CatchNothing, frames
  <1>2. Depth' = Depth - 1 /\ \A k \in 1..(Depth - 1) : scopes'[k] = scopes[k]
    BY <1>0, OuterPrefix DEF CatchNothing, Depth
  <1>3. \A i \in Inst : owner'[i] = IF owner[i] > Depth THEN Depth ELSE owner[i]
    BY DEF CatchNothing
  <1>4. BasesOrdered'
    BY <1>0, <1>1, <1>2 DEF Safe, BasesOrdered, Framed
  <1>5. OwnedListed'
    <2> SUFFICES ASSUME NEW i \in Inst, owner'[i] # 0
                 PROVE  /\ owner'[i] <= Depth
                        /\ \E l \in 0..gc_frame_level :
                              /\ i \in gc_inst[l]
                              /\ \A k \in owner'[i]..(Depth - 1) :
                                    scopes'[k].kind \in Kind => l < scopes'[k].base
      BY <1>0, <1>1, <1>2 DEF OwnedListed, Under, Framed
    <2>1. owner[i] \in Nat \ {0} /\ owner'[i] <= Depth /\ owner'[i] \in Nat \ {0}
      BY <1>0, <1>3
    <2>2. PICK l \in 0..gc_frame_level : i \in gc_inst[l] /\ Under(l, owner[i], Depth)
      BY <2>1 DEF Safe, OwnedListed
    <2>3. ASSUME NEW k \in owner'[i]..(Depth - 1), scopes'[k].kind \in Kind
          PROVE  l < scopes'[k].base
      <3>1. k \in 1..(Depth - 1) /\ owner'[i] = owner[i] /\ k \in owner[i]..Depth
        BY <1>0, <1>3, <2>1
      <3> QED
        BY <1>2, <2>2, <2>3, <3>1 DEF Under, Framed
    <2> QED
      BY <2>1, <2>2, <2>3
  <1>6. SavedListed'
    <2> SUFFICES ASSUME NEW c \in 1..(Depth - 1), IsCatch(c)'
                 PROVE  /\ \A l \in 0..scopes'[c].base : scopes'[c].inst[l] \subseteq gc_inst[l]
                        /\ \A d \in 1..(Depth - 1) : IsCatch(d)' /\ c < d =>
                              \A l \in 0..scopes'[c].base : scopes'[c].inst[l] \subseteq scopes'[d].inst[l]
                        /\ \A i \in Inst : owner'[i] # 0 /\ owner'[i] <= c =>
                              \E l \in 0..scopes'[c].base :
                                  /\ i \in scopes'[c].inst[l]
                                  /\ \A k \in owner'[i]..(c - 1) :
                                        scopes'[k].kind \in Kind => l < scopes'[k].base
      BY <1>1, <1>2 DEF SavedListed, Under, Framed
    <2>0. IsCatch(c) /\ scopes'[c] = scopes[c] /\ c \in 1..Depth
      BY <1>0, <1>2 DEF IsCatch
    <2>1. ASSUME NEW i \in Inst, owner'[i] # 0, owner'[i] <= c
          PROVE  \E l \in 0..scopes[c].base :
                    /\ i \in scopes[c].inst[l]
                    /\ \A k \in owner'[i]..(c - 1) : scopes'[k].kind \in Kind => l < scopes'[k].base
      <3>1. owner'[i] = owner[i] /\ owner[i] \in Nat \ {0} /\ owner[i] <= c
        BY <1>0, <1>3, <2>1
      <3>2. PICK l \in 0..scopes[c].base : i \in scopes[c].inst[l] /\ Under(l, owner[i], c - 1)
        BY <2>0, <3>1 DEF Safe, SavedListed
      <3>3. \A k \in owner[i]..(c - 1) : k \in 1..(Depth - 1)
        BY <1>0, <3>1
      <3> QED
        BY <1>2, <3>1, <3>2, <3>3 DEF Under, Framed
    <2>2. ASSUME NEW d \in 1..(Depth - 1), IsCatch(d)', c < d
          PROVE  \A l \in 0..scopes[c].base : scopes[c].inst[l] \subseteq scopes'[d].inst[l]
      <3>1. IsCatch(d) /\ scopes'[d] = scopes[d] /\ d \in 1..Depth
        BY <1>0, <1>2, <2>2 DEF IsCatch
      <3> QED
        BY <2>0, <2>2, <3>1 DEF Safe, SavedListed
    <2>3. \A l \in 0..scopes[c].base : scopes[c].inst[l] \subseteq gc_inst[l]
      BY <2>0 DEF Safe, SavedListed
    <2> QED
      BY <2>0, <2>1, <2>2, <2>3
  <1>7. FramesUsable'
    BY <1>1 DEF Safe, FramesUsable, Active
  <1> QED
    BY <1>4, <1>5, <1>6, <1>7 DEF Safe

\* THROW to a CATCH: the old lists it puts back hold no freed slot and list
\* all that the scopes around the CATCH own.
LEMMA ThrowSafe ==
    ASSUME TypeOK, TypeOK', Safe, Throw
    PROVE  Safe'
  <1>1. PICK n \in 1..Depth : /\ IsCatch(n)
                              /\ gc_frame_level' = scopes[n].base
                              /\ gc_inst' = scopes[n].inst
                              /\ scopes' = SubSeq(scopes, 1, n - 1)
                              /\ Disown(n)
                              /\ live' = live
    BY DEF Throw, IsCatch
  <1>0. /\ Depth \in Nat /\ n \in Nat \ {0} /\ n - 1 \in 0..Depth
        /\ gc_frame_level \in Nat /\ owner \in [Inst -> Nat]
        /\ \A k \in 1..Depth : scopes[k].base \in Nat
    BY Basics
  <1>2. Depth' = n - 1 /\ \A k \in 1..(n - 1) : scopes'[k] = scopes[k]
    BY <1>0, <1>1, PrefixScopes
  <1>3. \A i \in Inst : owner'[i] # 0 => owner'[i] = owner[i] /\ owner[i] <= n
    BY <1>0, <1>1, DisownType
  <1>4. BasesOrdered'
    BY <1>0, <1>1, <1>2 DEF Safe, BasesOrdered, Framed
  <1>5. ASSUME NEW c \in 1..n, IsCatch(c), NEW i \in Inst, owner'[i] # 0, owner'[i] <= c
        PROVE  \E l \in 0..scopes[c].base :
                  /\ i \in scopes[c].inst[l]
                  /\ \A k \in owner'[i]..(c - 1) : scopes'[k].kind \in Kind => l < scopes'[k].base
    <2>1. owner'[i] = owner[i] /\ owner[i] \in Nat \ {0} /\ owner[i] <= c
      BY <1>0, <1>3, <1>5
    <2>2. PICK l \in 0..scopes[c].base : i \in scopes[c].inst[l] /\ Under(l, owner[i], c - 1)
      BY <1>0, <1>5, <2>1 DEF Safe, SavedListed
    <2>3. \A k \in owner[i]..(c - 1) : k \in 1..(n - 1)
      BY <1>0, <2>1
    <2> QED
      BY <1>2, <2>1, <2>2, <2>3 DEF Under, Framed
  <1>6. OwnedListed'
    <2> SUFFICES ASSUME NEW i \in Inst, owner'[i] # 0
                 PROVE  /\ owner'[i] <= (n - 1) + 1
                        /\ \E l \in 0..gc_frame_level' :
                              /\ i \in gc_inst'[l]
                              /\ \A k \in owner'[i]..(n - 1) :
                                    scopes'[k].kind \in Kind => l < scopes'[k].base
      BY <1>2 DEF OwnedListed, Under, Framed
    <2>1. owner'[i] <= n /\ n \in 1..n /\ (n - 1) + 1 = n
      BY <1>0, <1>3
    <2> QED
      BY <1>1, <1>5, <2>1
  <1>7. SavedListed'
    <2> SUFFICES ASSUME NEW c \in 1..(n - 1), IsCatch(c)'
                 PROVE  /\ \A l \in 0..scopes'[c].base : scopes'[c].inst[l] \subseteq scopes[n].inst[l]
                        /\ \A d \in 1..(n - 1) : IsCatch(d)' /\ c < d =>
                              \A l \in 0..scopes'[c].base : scopes'[c].inst[l] \subseteq scopes'[d].inst[l]
                        /\ \A i \in Inst : owner'[i] # 0 /\ owner'[i] <= c =>
                              \E l \in 0..scopes'[c].base :
                                  /\ i \in scopes'[c].inst[l]
                                  /\ \A k \in owner'[i]..(c - 1) :
                                        scopes'[k].kind \in Kind => l < scopes'[k].base
      BY <1>1, <1>2 DEF SavedListed, Under, Framed
    <2>0. IsCatch(c) /\ scopes'[c] = scopes[c] /\ c \in 1..n /\ c \in 1..Depth /\ c < n
      BY <1>0, <1>2 DEF IsCatch
    <2>1. \A l \in 0..scopes[c].base : scopes[c].inst[l] \subseteq scopes[n].inst[l]
      BY <1>1, <2>0 DEF Safe, SavedListed
    <2>2. ASSUME NEW d \in 1..(n - 1), IsCatch(d)', c < d
          PROVE  \A l \in 0..scopes[c].base : scopes[c].inst[l] \subseteq scopes'[d].inst[l]
      <3>1. IsCatch(d) /\ scopes'[d] = scopes[d] /\ d \in 1..Depth
        BY <1>0, <1>2, <2>2 DEF IsCatch
      <3> QED
        BY <2>0, <2>2, <3>1 DEF Safe, SavedListed
    <2> QED
      BY <1>5, <2>0, <2>1, <2>2
  <1>8. FramesUsable'
    <2>1. \A l \in 0..scopes[n].base : l \in 0..gc_frame_level
      BY <1>0, <1>1 DEF Safe, BasesOrdered
    <2>2. \A l \in 0..scopes[n].base : scopes[n].inst[l] \subseteq gc_inst[l]
      BY <1>1 DEF Safe, SavedListed
    <2> QED
      BY <1>1, <2>1, <2>2 DEF Safe, FramesUsable, Active
  <1> QED
    BY <1>4, <1>6, <1>7, <1>8 DEF Safe

\* Sound is inductive, given the types.
LEMMA ScopeStep == TypeOK /\ TypeOK' /\ Sound /\ [Next]_vars => Sound'
  <1> SUFFICES ASSUME TypeOK, TypeOK', Sound, [Next]_vars, ~overflowed' PROVE Safe'
    BY DEF Sound
  <1>1. ~overflowed
    BY DEF Next, vars, frames, fth_make_instance, gc_run, Enter, Catch, Iterate, Leave,
           Unloop, CatchNothing, Throw, ThrowUncaught, SignalRepl, Signal
  <1>2. Safe
    BY <1>1 DEF Sound
  <1>3. CASE UNCHANGED vars
    <2>1. /\ gc_inst' = gc_inst /\ gc_frame_level' = gc_frame_level
          /\ live' = live /\ scopes' = scopes /\ owner' = owner
      BY <1>3 DEF vars, frames
    <2>2. BasesOrdered' /\ OwnedListed' /\ SavedListed'
      BY <1>2, <2>1 DEF Safe, BasesOrdered, OwnedListed, SavedListed, Under, Framed, IsCatch, Depth
    <2>3. FramesUsable'
      BY <1>2, <2>1 DEF Safe, FramesUsable, Active
    <2> QED
      BY <2>2, <2>3 DEF Safe
  <1>4. CASE Next
    BY <1>2, <1>4, MakeSafe, GcRunSafe, EnterSafe, CatchSafe, IterateSafe, LeaveSafe, UnloopSafe,
       CatchNothingSafe, ThrowSafe, ThrowUncaughtSafe, SignalReplSafe, SignalSafe DEF Next
  <1> QED
    BY <1>3, <1>4

\* The inductive invariant of loops, C entries and catches: until gc_push meets
\* the last frame, every open scope's objects are listed in a frame that no
\* inner scope ends, and so they are in every copy a CATCH around may put back.
THEOREM ScopeInvariant == Spec => []ScopeInv
  <1>1. Init => Sound
    <2> SUFFICES ASSUME Init PROVE Safe
      BY DEF Sound
    <2>1. Depth = 0 /\ gc_frame_level = 0 /\ 0 \in Frame
      BY FrameAssumption DEF Init, init_gc, Depth, Frame
    <2>2. BasesOrdered /\ SavedListed
      BY <2>1 DEF BasesOrdered, SavedListed
    <2>3. OwnedListed
      BY DEF Init, OwnedListed
    <2>4. FramesUsable
      BY <2>1 DEF Init, init_gc, FramesUsable, Active
    <2> QED
      BY <2>2, <2>3, <2>4 DEF Safe
  <1>2. TypeOK /\ Sound => ScopeInv
    BY DEF ScopeInv
  <1> QED
    BY <1>1, <1>2, ScopeStep, TypeCorrect, PTL DEF Spec

\* What a loop, a C entry or a catch body has made is alive while it runs.
THEOREM ScopeObjectsSafe == Spec => []ScopeObjectsAlive
  <1>1. ScopeInv => ScopeObjectsAlive
    BY DEF ScopeInv, Sound, Safe, ScopeObjectsAlive, OwnedListed, FramesUsable, Active
  <1> QED
    BY <1>1, ScopeInvariant, PTL

\* gc_run's walk over the frames meets no freed slot, CATCH or not.
THEOREM FramesSafe == Spec => []FramesNotFreed
  <1>1. ScopeInv => FramesNotFreed
    BY DEF ScopeInv, Sound, Safe, FramesNotFreed
  <1> QED
    BY <1>1, ScopeInvariant, PTL
=============================================================================
