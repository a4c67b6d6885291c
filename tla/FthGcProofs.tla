---------------------------- MODULE FthGcProofs ----------------------------
(***************************************************************************)
(* Proofs about FthGc, for any number of slots, frames and variables and   *)
(* any limits of the collector.                                            *)
(***************************************************************************)
EXTENDS FthGc, TLAPS

-----------------------------------------------------------------------------
(* The inductive invariant. *)

\* FREED is never set beside another bit, so no bit taken away leaves it alone.
MarksSound == \A i \in Inst : "FREED" \in gc_mark[i] => GC_FREED_P(i)

\* Whoever counts on the PROTECT bit has it, on an instance, unless robbed of it.
HeldMarked ==
    \A i \in Inst : Claimed(i) /\ i \notin robbed =>
        i < last_instance /\ "PROTECT" \in gc_mark[i]

GcInv == FreeListSound /\ MarksSound /\ HeldMarked

-----------------------------------------------------------------------------
(* The collection. *)

\* The least closed set of elements holds the elements of the swept parents and
\* those of its members.
LEMMA ElementsClosed ==
    ASSUME TypeOK
    PROVE  /\ MarkedElements \subseteq Inst
           /\ \A i \in Parents \cup MarkedElements : LiveKids(i) \subseteq MarkedElements
  <1>1. MarkedElements \subseteq Inst
    BY DEF MarkedElements
  <1>2. Parents \subseteq Inst
    BY DEF Parents, MarkedRoot, INSTANCE_P
  <1>3. \A i \in Inst : LiveKids(i) \subseteq Inst
    BY DEF TypeOK, LiveKids
  <1>4. ASSUME NEW i \in Parents \cup MarkedElements, NEW k \in LiveKids(i)
        PROVE  k \in MarkedElements
    <2>1. k \in Inst
      BY <1>1, <1>2, <1>3, <1>4
    <2>2. ASSUME NEW S \in SUBSET Inst, \A j \in S \cup Parents : LiveKids(j) \subseteq S
          PROVE  k \in S
      <3>1. i \in S \cup Parents
        BY <1>4, <2>2 DEF MarkedElements
      <3> QED
        BY <1>4, <2>2, <3>1
    <2> QED
      BY <2>1, <2>2 DEF MarkedElements
  <1> QED
    BY <1>1, <1>4

\* A collection frees instances only, and none that the stack, a frame or a mark holds.
LEMMA GarbageUnused ==
    ASSUME TypeOK, NEW i \in Garbage
    PROVE  /\ INSTANCE_P(i) /\ i \in Swept /\ i \in Inst /\ i < last_instance
           /\ i \notin stack /\ i \notin Active /\ ~GC_ANY_MARK_P(i)
           /\ i \notin MarkedElements
  BY DEF Garbage, Parents, MarkedRoot, INSTANCE_P

\* What the sweep does to the mark bits of a slot.
LEMMA SweptMarks ==
    ASSUME TypeOK, MarksSound, NEW i \in Inst
    PROVE  /\ SweptMark(Garbage) \in [Inst -> SUBSET Bit]
           /\ i \in Garbage => SweptMark(Garbage)[i] = {"FREED"}
           /\ i \notin Garbage /\ INSTANCE_P(i) => "FREED" \notin SweptMark(Garbage)[i]
           /\ ~INSTANCE_P(i) => SweptMark(Garbage)[i] = gc_mark[i]
           /\ i \notin Garbage /\ "PROTECT" \in gc_mark[i] => "PROTECT" \in SweptMark(Garbage)[i]
  <1> DEFINE M == stack \cup Active \cup MarkedElements
             F == [j \in Inst |->
                    IF j \in Garbage THEN {"FREED"}
                    ELSE IF j \in Swept /\ INSTANCE_P(j) THEN gc_mark[j] \ {"MARK"}
                    ELSE IF j \in M /\ INSTANCE_P(j) THEN gc_mark[j] \cup {"MARK"}
                    ELSE gc_mark[j]]
  <1>1. SweptMark(Garbage) = F
    BY DEF SweptMark
  <1>2. \A j \in Inst : gc_mark[j] \in SUBSET Bit
    BY DEF TypeOK
  <1>3. F \in [Inst -> SUBSET Bit]
    BY <1>2 DEF Bit
  <1>4. F[i] = IF i \in Garbage THEN {"FREED"}
               ELSE IF i \in Swept /\ INSTANCE_P(i) THEN gc_mark[i] \ {"MARK"}
               ELSE IF i \in M /\ INSTANCE_P(i) THEN gc_mark[i] \cup {"MARK"}
               ELSE gc_mark[i]
    OBVIOUS
  <1>5. i \in Garbage => INSTANCE_P(i)
    BY GarbageUnused
  <1>6. INSTANCE_P(i) => "FREED" \notin gc_mark[i]
    BY DEF MarksSound, INSTANCE_P, GC_FREED_P
  <1> QED
    BY <1>1, <1>3, <1>4, <1>5, <1>6

\* The elements a sweep takes away are those of the garbage.
LEMMA SweptElements ==
    ASSUME TypeOK
    PROVE  SweptKids(Garbage) \in [Inst -> SUBSET Inst]
  BY DEF TypeOK, SweptKids

-----------------------------------------------------------------------------
(* A new object: fth_make_instance. *)

\* The frames list what they listed and the new object.
LEMMA BornActive ==
    ASSUME TypeOK, NEW i \in Inst, NEW mark, NEW elems, Born(i, mark, elems)
    PROVE  /\ gc_inst' \in [Frame -> SUBSET Inst] /\ gc_frame_level' \in Frame
           /\ Active' = Active \cup {i}
  <1>1. /\ gc_inst' = [gc_inst EXCEPT ![gc_frame_level] = @ \cup {i}]
        /\ gc_frame_level' = gc_frame_level
    BY DEF Born
  <1>2. gc_inst \in [Frame -> SUBSET Inst] /\ gc_frame_level \in Frame
    BY DEF TypeOK
  <1>3. 0..gc_frame_level \subseteq Frame /\ gc_frame_level \in 0..gc_frame_level
    BY <1>2, FrameAssumption DEF Frame
  <1>4. \A l \in Frame : gc_inst'[l] = IF l = gc_frame_level THEN gc_inst[l] \cup {i} ELSE gc_inst[l]
    BY <1>1, <1>2
  <1>5. gc_inst' \in [Frame -> SUBSET Inst]
    BY <1>1, <1>2
  <1>6. Active' = UNION {gc_inst'[l] : l \in 0..gc_frame_level}
    BY <1>1 DEF Active
  <1>7. ASSUME NEW x PROVE x \in Active' <=> x \in Active \cup {i}
    <2>1. x \in Active' <=> \E l \in 0..gc_frame_level : x \in gc_inst'[l]
      BY <1>6
    <2>2. x \in Active <=> \E l \in 0..gc_frame_level : x \in gc_inst[l]
      BY DEF Active
    <2> QED
      BY <1>3, <1>4, <2>1, <2>2
  <1> QED
    BY <1>1, <1>2, <1>5, <1>7

\* Making an object in slot i out of sound mark bits, with i off the free list.
LEMMA BornSound ==
    ASSUME GcInv, NEW i \in Inst,
           NEW mark \in [Inst -> SUBSET Bit], NEW elems \in [Inst -> SUBSET Inst],
           Born(i, mark, elems),
           \A j \in Inst : "FREED" \in mark[j] => mark[j] = {"FREED"},
           \A j \in Inst : Claimed(j) /\ "PROTECT" \in gc_mark[j] => "PROTECT" \in mark[j],
           last_instance' \in 0..MaxInstances, last_instance <= last_instance',
           inst_free_list' \subseteq Inst \ {i},
           \A j \in inst_free_list' :
               mark[j] = {"FREED"} /\ j < last_instance' /\ j \notin Active
    PROVE  GcInv'
  <1> USE DEF GcInv
  <1>0. TypeOK
    BY DEF FreeListSound
  <1>1. /\ gc_mark' = [mark EXCEPT ![i] = {"MARK"}] /\ kids' = [elems EXCEPT ![i] = {}]
        /\ stack' = stack \cup {i} /\ held' = held \ {i} /\ held_by' = held_by
        /\ robbed' = {k \in Inst : Claimed(k)' /\ k \in robbed \cup {i}}
    BY DEF Born
  <1>2. /\ gc_mark' \in [Inst -> SUBSET Bit]
        /\ gc_mark'[i] = {"MARK"} /\ \A j \in Inst \ {i} : gc_mark'[j] = mark[j]
    BY <1>1 DEF Bit
  <1>3. kids' \in [Inst -> SUBSET Inst]
    BY <1>1
  <1>4. TypeOK'
    BY <1>0, <1>1, <1>2, <1>3, BornActive DEF TypeOK
  <1>5. FreeListSound'
    <2> SUFFICES ASSUME NEW j \in inst_free_list'
                 PROVE  GC_FREED_P(j)' /\ j < last_instance' /\ j \notin Active'
      BY <1>4 DEF FreeListSound
    <2> QED
      BY <1>0, <1>2, BornActive DEF GC_FREED_P
  <1>6. MarksSound'
    BY <1>2 DEF MarksSound, GC_FREED_P
  <1>7. HeldMarked'
    <2> SUFFICES ASSUME NEW j \in Inst, Claimed(j)', j \notin robbed'
                 PROVE  j < last_instance' /\ "PROTECT" \in gc_mark'[j]
      BY DEF HeldMarked
    <2>1. j # i /\ j \notin robbed
      BY <1>1
    <2>2. Claimed(j)
      BY <1>1 DEF Claimed
    <2>3. j < last_instance /\ "PROTECT" \in gc_mark[j]
      BY <2>1, <2>2 DEF HeldMarked
    <2>4. j \in Int /\ last_instance \in Int /\ last_instance' \in Int
      BY <1>0, FrameAssumption DEF Inst, TypeOK
    <2> QED
      BY <1>2, <2>1, <2>2, <2>3, <2>4
  <1> QED
    BY <1>5, <1>6, <1>7

\* The five ways an object is made or a collection runs.
LEMMA CollectorSound ==
    ASSUME GcInv, GcRun \/ MakeFromFreeList \/ MakeAfterGc \/ MakeGrowAfterGc \/ MakeGrow
    PROVE  GcInv'
  <1> USE DEF GcInv
  <1>0. TypeOK /\ MarksSound /\ HeldMarked
    BY DEF FreeListSound
  <1>1. /\ last_instance \in 0..MaxInstances /\ MaxInstances \in Nat
        /\ gc_mark \in [Inst -> SUBSET Bit] /\ kids \in [Inst -> SUBSET Inst]
        /\ inst_free_list \subseteq Inst /\ Inst \subseteq Int
    BY <1>0, FrameAssumption DEF TypeOK, Inst
  <1>2. \A j \in Inst : "FREED" \in gc_mark[j] => gc_mark[j] = {"FREED"}
    BY DEF MarksSound, GC_FREED_P
  <1>3. \A j \in inst_free_list : gc_mark[j] = {"FREED"} /\ j < last_instance /\ j \notin Active
    BY DEF FreeListSound, GC_FREED_P
  <1>4. \A j \in Garbage : j \in Inst /\ j < last_instance /\ j \notin Active
                          /\ SweptMark(Garbage)[j] = {"FREED"}
    BY <1>0, GarbageUnused, SweptMarks
  <1>5. /\ SweptMark(Garbage) \in [Inst -> SUBSET Bit]
        /\ SweptKids(Garbage) \in [Inst -> SUBSET Inst]
    <2>1. SweptMark(Garbage) \in [Inst -> SUBSET Bit]
      BY <1>1 DEF SweptMark, Bit
    <2> QED
      BY <1>0, <2>1, SweptElements
  <1>6. \A j \in Inst : "FREED" \in SweptMark(Garbage)[j] => SweptMark(Garbage)[j] = {"FREED"}
    BY <1>0, <1>2, SweptMarks
  <1>7. \A j \in Inst : "PROTECT" \in gc_mark[j] => "PROTECT" \in SweptMark(Garbage)[j]
    <2> SUFFICES ASSUME NEW j \in Inst, "PROTECT" \in gc_mark[j]
                 PROVE  "PROTECT" \in SweptMark(Garbage)[j]
      OBVIOUS
    <2>1. j \notin Garbage
      BY <1>0, GarbageUnused DEF GC_ANY_MARK_P
    <2> QED
      BY <1>0, <2>1, SweptMarks
  <1>8. \A j \in inst_free_list : SweptMark(Garbage)[j] = {"FREED"}
    BY <1>0, <1>1, <1>3, SweptMarks DEF INSTANCE_P, GC_FREED_P
  <1>9. last_instance < MaxInstances => last_instance \in Inst
    BY <1>1 DEF Inst
  <1>10. CASE MakeFromFreeList
    <2>1. PICK i \in inst_free_list : Born(i, gc_mark, kids) /\ inst_free_list' = inst_free_list \ {i}
      BY <1>10 DEF MakeFromFreeList
    <2>2. last_instance' = last_instance
      BY <1>10 DEF MakeFromFreeList
    <2> QED
      BY <1>1, <1>2, <1>3, <2>1, <2>2, BornSound
  <1>11. CASE MakeAfterGc
    <2>1. PICK i \in Garbage : /\ Born(i, SweptMark(Garbage), SweptKids(Garbage))
                               /\ inst_free_list' = Garbage \ {i}
      BY <1>11 DEF MakeAfterGc
    <2>2. last_instance' = last_instance
      BY <1>11 DEF MakeAfterGc
    <2>3. i \in Inst /\ inst_free_list' \subseteq Inst \ {i}
      BY <1>4, <2>1
    <2>4. \A j \in inst_free_list' :
             SweptMark(Garbage)[j] = {"FREED"} /\ j < last_instance' /\ j \notin Active
      BY <1>4, <2>1, <2>2
    <2>5. last_instance' \in 0..MaxInstances /\ last_instance <= last_instance'
      BY <1>1, <2>2
    <2> QED
      BY <1>5, <1>6, <1>7, <2>1, <2>3, <2>4, <2>5, BornSound
  <1>12. CASE MakeGrowAfterGc
    <2>1. /\ Born(last_instance, SweptMark(Garbage), SweptKids(Garbage))
          /\ inst_free_list' = Garbage /\ last_instance' = last_instance + 1
          /\ last_instance \in Inst /\ last_instance < MaxInstances
      BY <1>9, <1>12 DEF MakeGrowAfterGc
    <2>2. \A j \in Garbage : j \in Inst /\ j # last_instance /\ j < last_instance'
      <3>1. last_instance \in Int /\ last_instance' = last_instance + 1
        BY <1>1, <2>1
      <3>2. \A j \in Garbage : j \in Inst /\ j \in Int /\ j < last_instance
        BY <1>1, <1>4
      <3> QED
        BY <3>1, <3>2
    <2>3. last_instance' \in 0..MaxInstances /\ last_instance <= last_instance'
      BY <1>1, <2>1
    <2>4. \A j \in inst_free_list' :
             SweptMark(Garbage)[j] = {"FREED"} /\ j < last_instance' /\ j \notin Active
      BY <1>4, <2>1, <2>2
    <2>5. inst_free_list' \subseteq Inst \ {last_instance}
      BY <2>1, <2>2
    <2>6. last_instance \in Inst /\ Born(last_instance, SweptMark(Garbage), SweptKids(Garbage))
      BY <2>1
    <2>7. \A j \in Inst : Claimed(j) /\ "PROTECT" \in gc_mark[j] => "PROTECT" \in SweptMark(Garbage)[j]
      BY <1>7
    <2> HIDE DEF GcInv
    <2> QED
      BY <1>5, <1>6, <2>3, <2>4, <2>5, <2>6, <2>7, BornSound
  <1>13. CASE MakeGrow
    <2>1. /\ Born(last_instance, gc_mark, kids)
          /\ inst_free_list' = inst_free_list /\ last_instance' = last_instance + 1
          /\ last_instance \in Inst /\ last_instance < MaxInstances
      BY <1>9, <1>13 DEF MakeGrow
    <2>2. \A j \in inst_free_list : j # last_instance /\ j < last_instance'
      BY <1>1, <1>3, <2>1
    <2>3. last_instance' \in 0..MaxInstances /\ last_instance <= last_instance'
      BY <1>1, <2>1
    <2> QED
      BY <1>1, <1>2, <1>3, <2>1, <2>2, <2>3, BornSound
  <1>14. CASE GcRun
    <2>1. /\ gc_mark' = SweptMark(Garbage) /\ kids' = SweptKids(Garbage)
          /\ inst_free_list' \subseteq inst_free_list \cup Garbage
          /\ UNCHANGED <<last_instance, roots, frames, ghost>>
      BY <1>14 DEF GcRun
    <2>2. TypeOK'
      BY <1>0, <1>1, <1>4, <1>5, <2>1 DEF TypeOK, roots, frames, ghost
    <2>3. FreeListSound'
      BY <1>3, <1>4, <1>8, <2>1, <2>2 DEF FreeListSound, GC_FREED_P, Active, frames
    <2>4. MarksSound'
      BY <1>6, <2>1 DEF MarksSound, GC_FREED_P
    <2>5. HeldMarked'
      BY <1>0, <1>7, <2>1 DEF HeldMarked, Claimed, roots, ghost
    <2> QED
      BY <2>3, <2>4, <2>5
  <1> QED
    BY <1>10, <1>11, <1>12, <1>13, <1>14

-----------------------------------------------------------------------------
(* What the program does with objects and frames. *)

\* gc_push, gc_pop and gc_loop_reset only take objects off the frames.
LEMMA FramesShrink ==
    ASSUME TypeOK, gc_push \/ gc_pop(1) \/ gc_loop_reset
    PROVE  /\ gc_inst' \in [Frame -> SUBSET Inst] /\ gc_frame_level' \in Frame
           /\ Active' \subseteq Active
  <1>1. /\ gc_inst \in [Frame -> SUBSET Inst] /\ gc_frame_level \in Frame
        /\ gc_frame_level \in Nat /\ GC_FRAME_SIZE \in Nat \ {0}
    BY FrameAssumption DEF TypeOK, Frame
  <1>2. \A n \in Nat : n < GC_FRAME_SIZE => n \in Frame
    BY <1>1 DEF Frame
  <1> SUFFICES /\ gc_inst' \in [Frame -> SUBSET Inst] /\ gc_frame_level' \in Frame
               /\ \A l \in Frame : l <= gc_frame_level' /\ gc_inst'[l] # {} =>
                     l <= gc_frame_level /\ gc_inst'[l] = gc_inst[l]
    BY <1>1 DEF Active, Frame
  <1>3. CASE gc_push
    <2>1. LevelAbove \in Frame /\ LevelAbove <= gc_frame_level + 1
          /\ LevelAbove >= gc_frame_level
      BY <1>1 DEF LevelAbove, Saturates, Frame
    <2>2. gc_inst' = [gc_inst EXCEPT ![LevelAbove] = {}] /\ gc_frame_level' = LevelAbove
      BY <1>3 DEF gc_push
    <2>3. \A l \in Frame : gc_inst'[l] = IF l = LevelAbove THEN {} ELSE gc_inst[l]
      BY <1>1, <2>2
    <2> QED
      BY <1>1, <2>1, <2>2, <2>3 DEF Frame
  <1>4. CASE gc_pop(1)
    <2>1. LevelBelow(1) \in Frame /\ LevelBelow(1) <= gc_frame_level
      BY <1>1 DEF LevelBelow, Frame
    <2> QED
      BY <1>1, <1>4, <2>1 DEF gc_pop, Frame
  <1>5. CASE gc_loop_reset
    BY <1>1, <1>5 DEF gc_loop_reset
  <1> QED
    BY <1>3, <1>4, <1>5

\* Setting a bit other than FREED
LEMMA SetBitMarks ==
    ASSUME TypeOK, MarksSound, NEW i \in Inst, NEW b \in Bit \ {"FREED"}
    PROVE  /\ SetBit(i, b) \in [Inst -> SUBSET Bit]
           /\ \A j \in Inst : /\ INSTANCE_P(j) => "FREED" \notin SetBit(i, b)[j]
                              /\ ~INSTANCE_P(j) => SetBit(i, b)[j] = gc_mark[j]
                              /\ gc_mark[j] \subseteq SetBit(i, b)[j]
           /\ INSTANCE_P(i) => b \in SetBit(i, b)[i]
  <1>1. gc_mark \in [Inst -> SUBSET Bit]
    BY DEF TypeOK
  <1>2. \A j \in Inst : INSTANCE_P(j) => "FREED" \notin gc_mark[j]
    BY DEF MarksSound, INSTANCE_P, GC_FREED_P
  <1>3. CASE INSTANCE_P(i)
    <2>1. SetBit(i, b) = [gc_mark EXCEPT ![i] = gc_mark[i] \cup {b}]
      BY <1>3 DEF SetBit
    <2> QED
      BY <1>1, <1>2, <1>3, <2>1
  <1>4. CASE ~INSTANCE_P(i)
    BY <1>1, <1>2, <1>4 DEF SetBit
  <1> QED
    BY <1>3, <1>4

\* Clearing PROTECT
LEMMA ClrBitMarks ==
    ASSUME TypeOK, MarksSound, NEW i \in Inst
    PROVE  /\ ClrBit(i, "PROTECT") \in [Inst -> SUBSET Bit]
           /\ \A j \in Inst : /\ INSTANCE_P(j) => "FREED" \notin ClrBit(i, "PROTECT")[j]
                              /\ ~INSTANCE_P(j) => ClrBit(i, "PROTECT")[j] = gc_mark[j]
                              /\ j # i => ClrBit(i, "PROTECT")[j] = gc_mark[j]
  <1>1. gc_mark \in [Inst -> SUBSET Bit]
    BY DEF TypeOK
  <1>2. \A j \in Inst : INSTANCE_P(j) => "FREED" \notin gc_mark[j]
    BY DEF MarksSound, INSTANCE_P, GC_FREED_P
  <1>3. CASE INSTANCE_P(i)
    <2>1. ClrBit(i, "PROTECT") = [gc_mark EXCEPT ![i] = gc_mark[i] \ {"PROTECT"}]
      BY <1>3 DEF ClrBit
    <2> QED
      BY <1>1, <1>2, <1>3, <2>1
  <1>4. CASE ~INSTANCE_P(i)
    BY <1>1, <1>2, <1>4 DEF ClrBit
  <1> QED
    BY <1>3, <1>4

\* A variable changes hands.
LEMMA ProtectSetMarks ==
    ASSUME TypeOK, MarksSound, NEW out, NEW in
    PROVE  /\ fth_gc_protect_set(out, in) \in [Inst -> SUBSET Bit]
           /\ \A j \in Inst : LET m == fth_gc_protect_set(out, in)[j] IN
                /\ INSTANCE_P(j) => "FREED" \notin m
                /\ ~INSTANCE_P(j) => m = gc_mark[j]
                /\ j # out => gc_mark[j] \subseteq m
                /\ j = in /\ INSTANCE_P(j) => "PROTECT" \in m
  <1>1. gc_mark \in [Inst -> SUBSET Bit]
    BY DEF TypeOK
  <1>2. \A j \in Inst : INSTANCE_P(j) => "FREED" \notin gc_mark[j]
    BY DEF MarksSound, INSTANCE_P, GC_FREED_P
  <1> DEFINE clr == [i \in Inst |-> IF i = out /\ INSTANCE_P(i) THEN gc_mark[i] \ {"PROTECT"} ELSE gc_mark[i]]
             set == [i \in Inst |-> IF i = in /\ INSTANCE_P(i) THEN clr[i] \cup {"PROTECT"} ELSE clr[i]]
  <1>3. fth_gc_protect_set(out, in) = set
    BY DEF fth_gc_protect_set
  <1>4. \A j \in Inst : clr[j] = IF j = out /\ INSTANCE_P(j) THEN gc_mark[j] \ {"PROTECT"} ELSE gc_mark[j]
    OBVIOUS
  <1>5. \A j \in Inst : set[j] = IF j = in /\ INSTANCE_P(j) THEN clr[j] \cup {"PROTECT"} ELSE clr[j]
    OBVIOUS
  <1> HIDE DEF clr
  <1>6. set \in [Inst -> SUBSET Bit]
    BY <1>1, <1>4 DEF Bit
  <1> HIDE DEF set
  <1> QED
    BY <1>2, <1>3, <1>4, <1>5, <1>6


\* The marks after a step that frees nothing and uses no free slot
MarksKept ==
    /\ gc_mark' \in [Inst -> SUBSET Bit]
    /\ \A j \in Inst : /\ INSTANCE_P(j) => "FREED" \notin gc_mark'[j]
                       /\ ~INSTANCE_P(j) => gc_mark'[j] = gc_mark[j]

ProgramStep ==
    \/ Drop \/ AddElement \/ FetchElement \/ ClearElements
    \/ StoreVar \/ FetchVar \/ GcProtect \/ GcUnprotect
    \/ Comma
    \/ GcPush \/ GcPop \/ GcLoopReset

\* None of the program's steps frees or makes anything, or adds to a frame.
LEMMA ProgramKeeps ==
    ASSUME TypeOK, MarksSound, ProgramStep
    PROVE  /\ TypeOK' /\ MarksKept
           /\ UNCHANGED <<last_instance, inst_free_list>>
           /\ Active' \subseteq Active
  <1>0. /\ gc_mark \in [Inst -> SUBSET Bit] /\ kids \in [Inst -> SUBSET Inst]
        /\ stack \subseteq Inst /\ held_by \in [Var -> Inst \cup {NoInst}]
        /\ held \subseteq Inst /\ robbed \subseteq Inst
        /\ last_instance \in 0..MaxInstances /\ inst_free_list \subseteq Inst
        /\ gc_inst \in [Frame -> SUBSET Inst] /\ gc_frame_level \in Frame
    BY DEF TypeOK
  <1>1. /\ gc_mark' = gc_mark => MarksKept
        /\ \A i \in Inst, b \in Bit \ {"FREED"} : gc_mark' = SetBit(i, b) => MarksKept
        /\ \A i \in Inst : gc_mark' = ClrBit(i, "PROTECT") => MarksKept
        /\ \A out, in : gc_mark' = fth_gc_protect_set(out, in) => MarksKept
    <2>1. \A j \in Inst : INSTANCE_P(j) => "FREED" \notin gc_mark[j]
      BY DEF MarksSound, INSTANCE_P, GC_FREED_P
    <2>2. gc_mark' = gc_mark => MarksKept
      BY <1>0, <2>1 DEF MarksKept
    <2>3. \A i \in Inst, b \in Bit \ {"FREED"} : gc_mark' = SetBit(i, b) => MarksKept
      BY SetBitMarks DEF MarksKept
    <2>4. \A i \in Inst : gc_mark' = ClrBit(i, "PROTECT") => MarksKept
      BY ClrBitMarks DEF MarksKept
    <2>5. \A out, in : gc_mark' = fth_gc_protect_set(out, in) => MarksKept
      BY ProtectSetMarks DEF MarksKept
    <2> QED
      BY <2>2, <2>3, <2>4, <2>5
  <1>2. UNCHANGED frames => Active' = Active
    BY DEF frames, Active
  <1>3. {"MARK", "PROTECT", "PERMANENT"} \subseteq Bit \ {"FREED"}
    BY DEF Bit
  <1>4. CASE Drop
    <2>1. MarksKept /\ Active' = Active
      BY <1>1, <1>2, <1>4 DEF Drop, heap
    <2> QED
      BY <1>0, <1>4, <2>1 DEF Drop, heap, frames, ghost, TypeOK
  <1>5. CASE AddElement
    <2>1. PICK c \in stack, e \in stack :
             /\ gc_mark' = SetBit(c, "MARK") /\ kids' = [kids EXCEPT ![c] = @ \cup {e}]
             /\ stack' = stack \ {e}
             /\ UNCHANGED <<last_instance, inst_free_list, held_by, frames, ghost>>
      BY <1>5 DEF AddElement
    <2>2. MarksKept /\ Active' = Active
      BY <1>0, <1>1, <1>2, <1>3, <2>1
    <2>3. kids' \in [Inst -> SUBSET Inst]
      BY <1>0, <2>1
    <2> QED
      BY <1>0, <2>1, <2>2, <2>3 DEF MarksKept, frames, ghost, TypeOK
  <1>6. CASE FetchElement
    <2>1. PICK c \in stack : \E e \in kids[c] :
             /\ gc_mark' = SetBit(c, "MARK") /\ stack' = stack \cup {e}
             /\ UNCHANGED <<last_instance, inst_free_list, kids, held_by, frames, ghost>>
      BY <1>6 DEF FetchElement
    <2>2. MarksKept /\ Active' = Active
      BY <1>0, <1>1, <1>2, <1>3, <2>1
    <2> QED
      BY <1>0, <2>1, <2>2 DEF MarksKept, frames, ghost, TypeOK
  <1>7. CASE ClearElements
    <2>1. PICK c \in stack :
             /\ gc_mark' = SetBit(c, "MARK") /\ kids' = [kids EXCEPT ![c] = {}]
             /\ UNCHANGED <<last_instance, inst_free_list, roots, frames, ghost>>
      BY <1>7 DEF ClearElements
    <2>2. MarksKept /\ Active' = Active
      BY <1>0, <1>1, <1>2, <1>3, <2>1
    <2>3. kids' \in [Inst -> SUBSET Inst]
      BY <1>0, <2>1
    <2> QED
      BY <1>0, <2>1, <2>2, <2>3 DEF MarksKept, roots, frames, ghost, TypeOK
  <1>8. CASE StoreVar
    <2>1. PICK v \in Var, in \in stack \cup {NoInst} :
             /\ gc_mark' = fth_gc_protect_set(held_by[v], in)
             /\ held_by' = [held_by EXCEPT ![v] = in]
             /\ stack' = stack \ {in}
             /\ UNCHANGED <<held, last_instance, inst_free_list, kids, frames>>
             /\ robbed' \subseteq Inst
      BY <1>8 DEF StoreVar
    <2>2. MarksKept /\ Active' = Active
      BY <1>1, <1>2, <2>1
    <2>3. held_by' \in [Var -> Inst \cup {NoInst}]
      BY <1>0, <2>1
    <2> QED
      BY <1>0, <2>1, <2>2, <2>3 DEF MarksKept, frames, TypeOK
  <1>9. CASE FetchVar
    <2>1. PICK v \in Var : /\ held_by[v] # NoInst /\ stack' = stack \cup {held_by[v]}
                           /\ UNCHANGED <<heap, held_by, frames, ghost>>
      BY <1>9 DEF FetchVar
    <2>2. MarksKept /\ Active' = Active
      BY <1>1, <1>2, <2>1 DEF heap
    <2> QED
      BY <1>0, <2>1, <2>2 DEF heap, frames, ghost, TypeOK
  <1>10. CASE GcProtect
    <2>1. PICK i \in stack :
             /\ gc_mark' = SetBit(i, "PROTECT") /\ held' = held \cup {i}
             /\ UNCHANGED <<last_instance, inst_free_list, kids, roots, frames, robbed>>
      BY <1>10 DEF GcProtect
    <2>2. MarksKept /\ Active' = Active
      BY <1>0, <1>1, <1>2, <1>3, <2>1
    <2> QED
      BY <1>0, <2>1, <2>2 DEF MarksKept, roots, frames, TypeOK
  <1>11. CASE GcUnprotect
    <2>1. PICK i \in stack :
             /\ gc_mark' = ClrBit(i, "PROTECT") /\ held' = held \ {i}
             /\ UNCHANGED <<last_instance, inst_free_list, kids, roots, frames>>
             /\ robbed' \subseteq Inst
      BY <1>11 DEF GcUnprotect
    <2>2. MarksKept /\ Active' = Active
      BY <1>0, <1>1, <1>2, <2>1
    <2> QED
      BY <1>0, <2>1, <2>2 DEF MarksKept, roots, frames, TypeOK
  <1>12. CASE Comma
    <2>1. PICK i \in stack :
             /\ gc_mark' = SetBit(i, "PERMANENT") /\ stack' = stack \ {i}
             /\ UNCHANGED <<last_instance, inst_free_list, kids, held_by, frames, ghost>>
      BY <1>12 DEF Comma
    <2>2. MarksKept /\ Active' = Active
      BY <1>0, <1>1, <1>2, <1>3, <2>1
    <2> QED
      BY <1>0, <2>1, <2>2 DEF MarksKept, frames, ghost, TypeOK
  <1>13. CASE GcPush \/ GcPop \/ GcLoopReset
    <2>1. gc_push \/ gc_pop(1) \/ gc_loop_reset
      BY <1>13 DEF GcPush, GcPop, GcLoopReset
    <2>2. UNCHANGED <<heap, roots, ghost>>
      BY <1>13 DEF GcPush, GcPop, GcLoopReset
    <2>3. MarksKept
      BY <1>1, <2>2 DEF heap
    <2>4. gc_inst' \in [Frame -> SUBSET Inst] /\ gc_frame_level' \in Frame /\ Active' \subseteq Active
      BY <2>1, FramesShrink
    <2> QED
      BY <1>0, <2>2, <2>3, <2>4 DEF heap, roots, ghost, TypeOK
  <1> QED
    BY <1>4, <1>5, <1>6, <1>7, <1>8, <1>9, <1>10, <1>11, <1>12, <1>13 DEF ProgramStep

\* Whoever counts on a PROTECT bit still has it, or is noted as robbed.
LEMMA ProgramProtects ==
    ASSUME GcInv, ProgramStep
    PROVE  HeldMarked'
  <1>0. TypeOK /\ MarksSound
    BY DEF GcInv, FreeListSound
  <1> SUFFICES ASSUME NEW j \in Inst, Claimed(j)', j \notin robbed'
               PROVE  j < last_instance' /\ "PROTECT" \in gc_mark'[j]
    BY DEF HeldMarked
  <1>1. last_instance' = last_instance
    BY <1>0, ProgramKeeps
  <1>2. Claimed(j) /\ j \notin robbed => j < last_instance /\ "PROTECT" \in gc_mark[j]
    BY DEF GcInv, HeldMarked
  <1>3. stack \subseteq Inst /\ held_by \in [Var -> Inst \cup {NoInst}]
    BY <1>0 DEF TypeOK
  <1>4. CASE StoreVar
    <2>1. PICK v \in Var, in \in stack \cup {NoInst} :
             /\ gc_mark' = fth_gc_protect_set(held_by[v], in)
             /\ held_by' = [held_by EXCEPT ![v] = in] /\ held' = held
             /\ robbed' = {i \in Inst : Claimed(i)' /\
                  (i \in robbed \/ (i = held_by[v] /\ i # in) \/ (i = in /\ ~INSTANCE_P(i)))}
      BY <1>4 DEF StoreVar
    <2>2. j \notin robbed /\ (j # held_by[v] \/ j = in) /\ (j # in \/ INSTANCE_P(j))
      BY <2>1
    <2>3. CASE j = in
      <3>1. INSTANCE_P(j)
        BY <2>2, <2>3
      <3>2. "PROTECT" \in gc_mark'[j]
        BY <1>0, <2>1, <2>3, <3>1, ProtectSetMarks
      <3> QED
        BY <1>1, <3>1, <3>2 DEF INSTANCE_P
    <2>4. CASE j # in
      <3>1. Claimed(j)
        BY <1>3, <2>1, <2>4 DEF Claimed
      <3>2. gc_mark[j] \subseteq gc_mark'[j]
        BY <1>0, <2>1, <2>2, <2>4, ProtectSetMarks
      <3> QED
        BY <1>1, <1>2, <2>2, <3>1, <3>2
    <2> QED
      BY <2>3, <2>4
  <1>5. CASE GcProtect
    <2>1. PICK i \in stack :
             /\ INSTANCE_P(i) /\ gc_mark' = SetBit(i, "PROTECT") /\ held' = held \cup {i}
             /\ UNCHANGED <<roots, robbed>>
      BY <1>5 DEF GcProtect, OnStack
    <2>2. "PROTECT" \in Bit \ {"FREED"} /\ i \in Inst
      BY <1>3 DEF Bit
    <2>3. "PROTECT" \in gc_mark'[i] /\ gc_mark[j] \subseteq gc_mark'[j]
      BY <1>0, <2>1, <2>2, SetBitMarks
    <2>4. CASE j = i
      BY <1>1, <2>1, <2>3, <2>4 DEF INSTANCE_P
    <2>5. CASE j # i
      <3>1. Claimed(j) /\ j \notin robbed
        BY <2>1, <2>5 DEF Claimed, roots
      <3> QED
        BY <1>1, <1>2, <2>3, <3>1
    <2> QED
      BY <2>4, <2>5
  <1>6. CASE GcUnprotect
    <2>1. PICK i \in stack :
             /\ gc_mark' = ClrBit(i, "PROTECT") /\ held' = held \ {i} /\ UNCHANGED roots
             /\ robbed' = {k \in Inst : Claimed(k)' /\ k \in robbed \cup {i}}
      BY <1>6 DEF GcUnprotect
    <2>2. j # i /\ j \notin robbed /\ i \in Inst
      BY <1>3, <2>1
    <2>3. Claimed(j)
      BY <2>1 DEF Claimed, roots
    <2>4. gc_mark'[j] = gc_mark[j]
      BY <1>0, <2>1, <2>2, ClrBitMarks
    <2> QED
      BY <1>1, <1>2, <2>2, <2>3, <2>4
  <1>7. CASE AddElement \/ FetchElement \/ ClearElements
    <2>1. /\ UNCHANGED <<held, held_by, robbed>>
          /\ \E c \in stack : gc_mark' = SetBit(c, "MARK")
      BY <1>7 DEF AddElement, FetchElement, ClearElements, ghost, roots
    <2>2. Claimed(j) /\ j \notin robbed
      BY <2>1 DEF Claimed
    <2>3. gc_mark[j] \subseteq gc_mark'[j]
      BY <1>0, <1>3, <2>1, SetBitMarks DEF Bit
    <2> QED
      BY <1>1, <1>2, <2>2, <2>3
  <1>8. CASE Comma
    <2>1. /\ UNCHANGED <<held, held_by, robbed>>
          /\ \E c \in stack : gc_mark' = SetBit(c, "PERMANENT")
      BY <1>8 DEF Comma, ghost
    <2>2. Claimed(j) /\ j \notin robbed
      BY <2>1 DEF Claimed
    <2>3. gc_mark[j] \subseteq gc_mark'[j]
      BY <1>0, <1>3, <2>1, SetBitMarks DEF Bit
    <2> QED
      BY <1>1, <1>2, <2>2, <2>3
  <1>9. CASE Drop \/ FetchVar \/ GcPush \/ GcPop \/ GcLoopReset
    <2>1. UNCHANGED <<held, held_by, robbed, gc_mark>>
      BY <1>9 DEF Drop, FetchVar, GcPush, GcPop, GcLoopReset, heap, roots, ghost
    <2>2. Claimed(j) /\ j \notin robbed
      BY <2>1 DEF Claimed
    <2> QED
      BY <1>1, <1>2, <2>1, <2>2
  <1> QED
    BY <1>4, <1>5, <1>6, <1>7, <1>8, <1>9 DEF ProgramStep

\* The program's words between collections (gc-protect, variables, stack, frames)
\* keep the invariant.
LEMMA ProgramSound ==
    ASSUME GcInv, ProgramStep
    PROVE  GcInv'
  <1>1. TypeOK /\ MarksSound
    BY DEF GcInv, FreeListSound
  <1>2. /\ TypeOK' /\ MarksKept /\ UNCHANGED <<last_instance, inst_free_list>>
        /\ Active' \subseteq Active
    BY <1>1, ProgramKeeps
  <1>3. FreeListSound'
    <2> SUFFICES ASSUME NEW i \in inst_free_list
                 PROVE  GC_FREED_P(i)' /\ i < last_instance /\ i \notin Active'
      BY <1>2 DEF FreeListSound
    <2>1. GC_FREED_P(i) /\ i < last_instance /\ i \notin Active /\ i \in Inst
      BY DEF GcInv, FreeListSound, TypeOK
    <2>2. gc_mark'[i] = gc_mark[i]
      BY <1>2, <2>1 DEF MarksKept, INSTANCE_P
    <2> QED
      BY <1>2, <2>1, <2>2 DEF GC_FREED_P
  <1>4. MarksSound'
    BY <1>1, <1>2 DEF MarksSound, MarksKept, GC_FREED_P
  <1> QED
    BY <1>3, <1>4, ProgramProtects DEF GcInv

-----------------------------------------------------------------------------
(* What a step keeps alive. *)

Collection == GcRun \/ MakeAfterGc \/ MakeGrowAfterGc

\* Only the garbage of a collection is freed; a slot of it may become the new object.
LEMMA OnlyGarbageFreed ==
    ASSUME GcInv, [Next]_vars, NEW i \in Inst, INSTANCE_P(i), Collection => i \notin Garbage
    PROVE  INSTANCE_P(i)'
  <1>0. TypeOK /\ MarksSound
    BY DEF GcInv, FreeListSound
  <1>1. "FREED" \notin gc_mark[i] /\ i < last_instance /\ i \in Int /\ last_instance \in Int
    BY <1>0, FrameAssumption DEF MarksSound, INSTANCE_P, GC_FREED_P, Inst, TypeOK
  <1>2. ASSUME NEW k \in Inst, NEW mark \in [Inst -> SUBSET Bit], NEW elems, Born(k, mark, elems),
               "FREED" \notin mark[i], last_instance' \in {last_instance, last_instance + 1}
        PROVE  INSTANCE_P(i)'
    <2>1. gc_mark' = [mark EXCEPT ![k] = {"MARK"}]
      BY <1>2 DEF Born
    <2>2. "FREED" \notin gc_mark'[i]
      BY <1>2, <2>1
    <2> QED
      BY <1>1, <1>2, <2>2 DEF INSTANCE_P, GC_FREED_P
  <1>3. CASE Collection
    <2>1. /\ SweptMark(Garbage) \in [Inst -> SUBSET Bit]
          /\ "FREED" \notin SweptMark(Garbage)[i]
      BY <1>0, <1>3, SweptMarks
    <2>2. CASE GcRun
      BY <1>1, <2>1, <2>2 DEF GcRun, INSTANCE_P, GC_FREED_P
    <2>3. CASE MakeAfterGc
      <3>1. PICK k \in Garbage : Born(k, SweptMark(Garbage), SweptKids(Garbage))
        BY <2>3 DEF MakeAfterGc
      <3>2. k \in Inst /\ last_instance' = last_instance
        BY <1>0, <2>3, GarbageUnused DEF MakeAfterGc
      <3> QED
        BY <1>2, <2>1, <3>1, <3>2
    <2>4. CASE MakeGrowAfterGc
      <3>1. /\ Born(last_instance, SweptMark(Garbage), SweptKids(Garbage))
            /\ last_instance \in Inst /\ last_instance' = last_instance + 1
        BY <1>0, <2>4, FrameAssumption DEF MakeGrowAfterGc, Inst, TypeOK
      <3> QED
        BY <1>2, <2>1, <3>1
    <2> QED
      BY <1>3, <2>2, <2>3, <2>4 DEF Collection
  <1>4. CASE MakeFromFreeList
    <2>1. PICK k \in inst_free_list : Born(k, gc_mark, kids)
      BY <1>4 DEF MakeFromFreeList
    <2>2. k \in Inst /\ gc_mark \in [Inst -> SUBSET Bit] /\ last_instance' = last_instance
      BY <1>0, <1>4 DEF TypeOK, MakeFromFreeList
    <2> QED
      BY <1>1, <1>2, <2>1, <2>2
  <1>5. CASE MakeGrow
    <2>1. /\ Born(last_instance, gc_mark, kids) /\ gc_mark \in [Inst -> SUBSET Bit]
          /\ last_instance \in Inst /\ last_instance' = last_instance + 1
      BY <1>0, <1>5, FrameAssumption DEF MakeGrow, Inst, TypeOK
    <2> QED
      BY <1>1, <1>2, <2>1
  <1>6. CASE ProgramStep
    BY <1>0, <1>1, <1>6, ProgramKeeps DEF MarksKept, INSTANCE_P, GC_FREED_P
  <1>7. CASE UNCHANGED vars
    BY <1>7 DEF vars, heap, INSTANCE_P, GC_FREED_P
  <1> QED
    BY <1>3, <1>4, <1>5, <1>6, <1>7 DEF Next, Collection, ProgramStep

\* What a live container reaches through live elements is live.
LEMMA WithinLive ==
    ASSUME TypeOK, NEW c \in Inst, INSTANCE_P(c), NEW x \in LiveWithin(c)
    PROVE  x \in Inst /\ INSTANCE_P(x)
  <1> DEFINE S == {y \in Inst : INSTANCE_P(y)}
  <1>1. S \in SUBSET Inst /\ c \in S
    OBVIOUS
  <1>2. \A i \in S : LiveKids(i) \subseteq S
    BY DEF LiveKids, TypeOK
  <1>3. x \in Inst /\ x \in S
    BY <1>1, <1>2 DEF LiveWithin
  <1> QED
    BY <1>3

\* The marking reaches all that a swept container it keeps reaches.
LEMMA MarkingReaches ==
    ASSUME TypeOK, NEW c \in Swept, INSTANCE_P(c), c \notin Garbage, NEW x \in LiveWithin(c)
    PROVE  x \notin Garbage
  <1>1. c \in Parents \cup MarkedElements /\ c \in Inst
    BY DEF Garbage, INSTANCE_P
  <1> DEFINE S == {c} \cup MarkedElements
  <1>2. S \in SUBSET Inst /\ c \in S
    BY <1>1, ElementsClosed
  <1>3. \A i \in S : LiveKids(i) \subseteq S
    BY <1>1, ElementsClosed
  <1>4. x \in S
    BY <1>2, <1>3 DEF LiveWithin
  <1> QED
    BY <1>4 DEF Garbage

-----------------------------------------------------------------------------
(* The theorems. *)

\* init_gc: no instance, no holder, an empty free list.
LEMMA GcInit == Init => GcInv
  <1> SUFFICES ASSUME Init PROVE GcInv
    OBVIOUS
  <1>1. 0 \in Frame /\ 0 \in 0..MaxInstances
    BY FrameAssumption DEF Frame
  <1>2. TypeOK
    BY <1>1 DEF Init, TypeOK, init_gc, Bit
  <1>3. FreeListSound /\ MarksSound
    BY <1>2 DEF Init, FreeListSound, MarksSound, GC_FREED_P
  <1>4. \A i \in Inst : ~Claimed(i)
    BY GcAssumption DEF Init, Claimed
  <1> QED
    BY <1>3, <1>4 DEF GcInv, HeldMarked

\* Each step is a word of the program or an allocation, with the collection in it.
LEMMA GcStep == GcInv /\ [Next]_vars => GcInv'
  <1> SUFFICES ASSUME GcInv, [Next]_vars PROVE GcInv'
    OBVIOUS
  <1>1. CASE Next
    BY <1>1, CollectorSound, ProgramSound DEF Next, ProgramStep
  <1>2. CASE UNCHANGED vars
    <2>1. UNCHANGED <<gc_mark, last_instance, inst_free_list, kids>>
      BY <1>2 DEF vars, heap
    <2>2. UNCHANGED <<stack, held_by, gc_inst, gc_frame_level, held, robbed>>
      BY <1>2 DEF vars, roots, frames, ghost
    <2>3. FreeListSound'
      BY <2>1, <2>2 DEF GcInv, FreeListSound, TypeOK, GC_FREED_P, Active
    <2>4. MarksSound' /\ HeldMarked'
      BY <2>1, <2>2 DEF GcInv, MarksSound, HeldMarked, GC_FREED_P, Claimed
    <2> QED
      BY <2>3, <2>4 DEF GcInv
  <1> QED
    BY <1>1, <1>2

\* The inductive invariant of the collector: what waits on the free list is free,
\* FREED stands alone, and whoever holds an object has its PROTECT bit, unless another
\* holder cleared it (fth_gc_protect_set, fth_gc_unprotect).
THEOREM GcInvariant == Spec => []GcInv
  BY GcInit, GcStep, PTL DEF Spec

\* gc_next_instance never hands out a slot that somebody may still use.
THEOREM FreeListSafe == Spec => []FreeListSound
  <1>1. GcInv => FreeListSound
    BY DEF GcInv
  <1> QED
    BY <1>1, GcInvariant, PTL

\* What a variable or gc-protect holds is not freed, unless it was robbed of its bit.
THEOREM HeldSafe == Spec => []HeldAlive
  <1>1. GcInv => HeldAlive
    BY DEF GcInv, HeldMarked, HeldAlive, GC_FREED_P
  <1> QED
    BY <1>1, GcInvariant, PTL

\* No step frees an object that an active frame lists: what FthScopes takes gc_run to do.
THEOREM FramesProtect == Spec => FramesKept
  <1>1. GcInv /\ [Next]_vars => [\A i \in Active : INSTANCE_P(i) => INSTANCE_P(i)']_vars
    <2> SUFFICES ASSUME GcInv, [Next]_vars, NEW i \in Active, INSTANCE_P(i)
                 PROVE  INSTANCE_P(i)'
      OBVIOUS
    <2>1. TypeOK
      BY DEF GcInv, FreeListSound
    <2>2. i \in Inst /\ i \notin Garbage
      BY <2>1, GarbageUnused DEF INSTANCE_P
    <2> QED
      BY <2>2, OnlyGarbageFreed
  <1> QED
    BY <1>1, GcInvariant, PTL DEF Spec, FramesKept

\* A collection that keeps a container, in any slot but the last, keeps its elements,
\* theirs and so on ("Mark elements of already marked sequences").
THEOREM ElementsKept == Spec => KeepsElements
  <1> DEFINE Kept == \A c \in Inst :
        INSTANCE_P(c) /\ INSTANCE_P(c)' /\ c # last_instance - 1 /\ c \notin stack' \ stack =>
            \A x \in LiveWithin(c) : INSTANCE_P(x)'
  <1>1. GcInv /\ [Next]_vars => [Kept]_vars
    <2> SUFFICES ASSUME GcInv, [Next]_vars,
                        NEW c \in Inst, INSTANCE_P(c), INSTANCE_P(c)', c # last_instance - 1,
                        c \notin stack' \ stack, NEW x \in LiveWithin(c)
                 PROVE  INSTANCE_P(x)'
      OBVIOUS
    <2>1. TypeOK /\ MarksSound
      BY DEF GcInv, FreeListSound
    <2>2. x \in Inst /\ INSTANCE_P(x)
      BY <2>1, WithinLive
    <2>3. c \in Swept
      BY <2>1, FrameAssumption DEF Swept, INSTANCE_P, Inst, TypeOK
    <2>4. ASSUME Collection PROVE x \notin Garbage
      <3>1. c \notin Garbage
        <4> SUFFICES ASSUME c \in Garbage PROVE FALSE
          OBVIOUS
        <4>1. SweptMark(Garbage)[c] = {"FREED"} /\ c \notin stack /\ c < last_instance
          BY <2>1, SweptMarks, GarbageUnused
        <4>2. ASSUME NEW k \in Inst, NEW elems, Born(k, SweptMark(Garbage), elems) PROVE FALSE
          <5>1. /\ gc_mark' = [SweptMark(Garbage) EXCEPT ![k] = {"MARK"}]
                /\ stack' = stack \cup {k}
            BY <4>2 DEF Born
          <5>2. c # k
            BY <4>1, <5>1
          <5>3. SweptMark(Garbage) \in [Inst -> SUBSET Bit]
            BY <2>1, SweptMarks
          <5>4. gc_mark'[c] = {"FREED"}
            BY <4>1, <5>1, <5>2, <5>3
          <5> QED
            BY <5>4 DEF INSTANCE_P, GC_FREED_P
        <4>3. CASE GcRun
          BY <4>1, <4>3 DEF GcRun, INSTANCE_P, GC_FREED_P
        <4>4. CASE MakeAfterGc
          BY <2>1, <4>2, <4>4, GarbageUnused DEF MakeAfterGc
        <4>5. CASE MakeGrowAfterGc
          <5>1. last_instance \in Inst
            BY <2>1, <4>5, FrameAssumption DEF MakeGrowAfterGc, Inst, TypeOK
          <5> QED
            BY <4>2, <4>5, <5>1 DEF MakeGrowAfterGc
        <4> QED
          BY <2>4, <4>3, <4>4, <4>5 DEF Collection
      <3> QED
        BY <2>1, <2>3, <3>1, MarkingReaches
    <2> QED
      BY <2>2, <2>4, OnlyGarbageFreed
  <1> QED
    BY <1>1, GcInvariant, PTL DEF Spec, KeepsElements
=============================================================================
