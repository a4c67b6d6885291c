-------------------------------- MODULE FthGc --------------------------------
(***************************************************************************)
(* The garbage collector of Fth (src/src/object.c): a table of instance    *)
(* slots with mark bits and a free list.  An object is kept while it is on *)
(* the data stack, in an active frame, carries a PROTECT or PERMANENT bit, *)
(* or is an element of a kept object.                                      *)
(*                                                                         *)
(* A slot is its index in the table `instances'.  The frames (FthFrames)   *)
(* move here at will; FthScopes says how the program moves them.           *)
(***************************************************************************)
EXTENDS FthFrames, FiniteSets

CONSTANTS
    GC_CHUNK_SIZE,   \* gc_run hands out a slot if it freed more than this (8192)
    GC_MAX_OBJECTS,  \* gc_next_instance collects at multiples of this (4 chunks)
    MaxRefs,         \* bound: elements of containers, full variables, objects in
                     \* the dictionary and under gc-protect, all together
    MaxStack,        \* bound: different objects on the data stack
    Var,             \* Forth variables that hold objects
    NoInst           \* "no object": what such a variable holds at first

ASSUME GcAssumption ==
    /\ GC_CHUNK_SIZE \in Nat
    /\ GC_MAX_OBJECTS \in Nat \ {0}
    /\ MaxRefs \in Nat
    /\ MaxStack \in Nat
    /\ NoInst \notin Inst

VARIABLES
    gc_mark,         \* the mark bits of each slot
    last_instance,   \* slots in use so far
    inst_free_list,
    kids,            \* the elements of each container object
    stack,           \* the objects on the data stack
    held_by,         \* the object each variable holds
    held,            \* ghost: objects given to gc-protect and not to gc-unprotect since
    robbed           \* ghost: objects whose PROTECT bit one holder cleared under
                     \* another, and freed slots stored in a variable

heap  == <<gc_mark, last_instance, inst_free_list, kids>>
roots == <<stack, held_by>>
frames == <<gc_inst, gc_frame_level>>
ghost == <<held, robbed>>
vars  == <<heap, roots, frames, ghost>>

Bit   == {"MARK", "PROTECT", "PERMANENT", "FREED"}

GC_FREED_P(i) == gc_mark[i] = {"FREED"}
GC_ANY_MARK_P(i) == gc_mark[i] \cap {"MARK", "PROTECT", "PERMANENT"} # {}
INSTANCE_P(i) == i \in Inst /\ i < last_instance /\ ~GC_FREED_P(i)
SetBit(i, b) == IF INSTANCE_P(i) THEN [gc_mark EXCEPT ![i] = @ \cup {b}] ELSE gc_mark
ClrBit(i, b) == IF INSTANCE_P(i) THEN [gc_mark EXCEPT ![i] = @ \ {b}] ELSE gc_mark

-----------------------------------------------------------------------------
(* gc_run. *)

\* A marking that does not walk over the frames.
MarkedRootNoFrames(i) == INSTANCE_P(i) /\ (GC_ANY_MARK_P(i) \/ i \in stack)
MarkedRoot(i) == INSTANCE_P(i) /\ (GC_ANY_MARK_P(i) \/ i \in stack \/ i \in Active)
LiveKids(i) == {k \in kids[i] : INSTANCE_P(k)}

\* Both loops of gc_run end before the last slot of the table.
Swept == 0..(last_instance - 2)
Parents == {i \in Swept : MarkedRoot(i)}
\* A marking that stops at the elements of the marked sequences.
MarkedElementsFlat == UNION {LiveKids(i) : i \in Parents}
\* The elements of marked sequences, theirs and so on (fth_gc_mark recurses):
\* the least set with the elements of Parents and closed under LiveKids.
MarkedElements ==
    LET start == Parents IN
    {x \in Inst : \A S \in SUBSET Inst :
        (\A i \in S \cup start : LiveKids(i) \subseteq S) => x \in S}

Garbage == {i \in Swept : INSTANCE_P(i)} \ (Parents \cup MarkedElements)
\* A survivor loses its MARK bit.  The last slot, not swept, keeps what it got.
SweptMark(G) ==
    LET M == stack \cup Active \cup MarkedElements
    IN  [i \in Inst |->
            IF i \in G THEN {"FREED"}
            ELSE IF i \in Swept /\ INSTANCE_P(i) THEN gc_mark[i] \ {"MARK"}
            ELSE IF i \in M /\ INSTANCE_P(i) THEN gc_mark[i] \cup {"MARK"}
            ELSE gc_mark[i]]
SweptKids(G) == [i \in Inst |-> IF i \in G THEN {} ELSE kids[i]]

\* gc_run takes a slot off the free list for its caller if it freed enough.
GcRunTakes(G) == Cardinality(G) > GC_CHUNK_SIZE

\* The word gc-run drops the slot gc_run returns: it is on no list any more.
GcRun ==
    /\ LET G == Garbage IN
        /\ gc_mark' = SweptMark(G)
        /\ kids' = SweptKids(G)
        /\ \E lost \in SUBSET G :
            /\ Cardinality(lost) = IF GcRunTakes(G) THEN 1 ELSE 0
            /\ inst_free_list' = (inst_free_list \cup G) \ lost
    /\ UNCHANGED <<last_instance, roots, frames, ghost>>

-----------------------------------------------------------------------------
(* Making an object: fth_make_instance and gc_next_instance. *)

\* Somebody counts on the PROTECT bit of i.
Claimed(i) == i \in held \/ \E v \in Var : held_by[v] = i

Refs ==
    Cardinality({p \in Inst \X Inst : p[2] \in kids[p[1]]})
    + Cardinality({v \in Var : held_by[v] # NoInst})
    + Cardinality({i \in Inst : "PERMANENT" \in gc_mark[i]})
    + Cardinality(held)
Fits(S) == Cardinality(S) <= MaxStack
\* The new object gets the MARK bit, enters the current frame and is pushed.
Born(i, mark, elems) ==
    /\ gc_mark' = [mark EXCEPT ![i] = {"MARK"}]
    /\ kids' = [elems EXCEPT ![i] = {}]
    /\ gc_inst' = [gc_inst EXCEPT ![gc_frame_level] = @ \cup {i}]
    /\ stack' = stack \cup {i} /\ Fits(stack')
    /\ held' = held \ {i}
    /\ UNCHANGED <<held_by, gc_frame_level>>
    /\ robbed' = {k \in Inst : Claimed(k)' /\ k \in robbed \cup {i}}

AtLimit == last_instance # 0 /\ last_instance % GC_MAX_OBJECTS = 0

\* A slot that stays on the free list it was taken from.
MakeFromFreeListKeep ==
    /\ AtLimit
    /\ \E i \in inst_free_list : Born(i, gc_mark, kids)
    /\ UNCHANGED <<inst_free_list, last_instance>>
MakeFromFreeList ==
    /\ AtLimit
    /\ \E i \in inst_free_list : /\ Born(i, gc_mark, kids)
                                  /\ inst_free_list' = inst_free_list \ {i}
    /\ UNCHANGED last_instance

\* gc_run freed enough: one of its slots is used again.
MakeAfterGc ==
    /\ AtLimit /\ inst_free_list = {}
    /\ LET G == Garbage IN
        /\ GcRunTakes(G)
        /\ \E i \in G : /\ Born(i, SweptMark(G), SweptKids(G))
                         /\ inst_free_list' = G \ {i}
    /\ UNCHANGED last_instance

\* gc_run freed too few: the table grows, what was freed waits on the free list.
MakeGrowAfterGc ==
    /\ AtLimit /\ inst_free_list = {}
    /\ last_instance < MaxInstances
    /\ LET G == Garbage IN
        /\ ~GcRunTakes(G)
        /\ Born(last_instance, SweptMark(G), SweptKids(G))
        /\ inst_free_list' = G
    /\ last_instance' = last_instance + 1

\* The table grows without a collection: below the limit, or with gc-off or a
\* pending signal (chosen anew for each object).
MakeGrow ==
    /\ ~AtLimit \/ inst_free_list = {}
    /\ last_instance < MaxInstances
    /\ Born(last_instance, gc_mark, kids)
    /\ last_instance' = last_instance + 1
    /\ UNCHANGED inst_free_list

-----------------------------------------------------------------------------
(* What the program does with objects. *)

OnStack(i) == i \in stack /\ INSTANCE_P(i)

Drop == \E i \in stack :
    /\ stack' = stack \ {i}
    /\ UNCHANGED <<heap, held_by, frames, ghost>>

\* What c reaches through its elements, itself included
Reaches(c) ==
    {x \in Inst : \A S \in SUBSET Inst :
        (c \in S /\ \A i \in S : kids[i] \subseteq S) => x \in S}
\* array-push and its like: FTH_ARRAY_P sets the MARK bit of the container.
\* No container is put into itself: fth_gc_mark would not come back.
AddElement == \E c, e \in stack :
    /\ OnStack(c) /\ OnStack(e)
    /\ c \notin Reaches(e)
    /\ gc_mark' = SetBit(c, "MARK")
    /\ kids' = [kids EXCEPT ![c] = @ \cup {e}]
    /\ stack' = stack \ {e}
    /\ UNCHANGED <<last_instance, inst_free_list, held_by, frames, ghost>>
    /\ Refs' <= MaxRefs

\* array-ref pushes an element, array-clear forgets them all.
FetchElement == \E c \in stack : \E e \in kids[c] :
    /\ OnStack(c)
    /\ gc_mark' = SetBit(c, "MARK")
    /\ stack' = stack \cup {e} /\ Fits(stack')
    /\ UNCHANGED <<last_instance, inst_free_list, kids, held_by, frames, ghost>>
ClearElements == \E c \in stack :
    /\ OnStack(c)
    /\ gc_mark' = SetBit(c, "MARK")
    /\ kids' = [kids EXCEPT ![c] = {}]
    /\ UNCHANGED <<last_instance, inst_free_list, roots, frames, ghost>>

\* fth_gc_protect_set with its two halves the other way round.
fth_gc_protect_set_swapped(out, in) ==
    LET set == [i \in Inst |-> IF i = in /\ INSTANCE_P(i) THEN gc_mark[i] \cup {"PROTECT"} ELSE gc_mark[i]]
    IN  [i \in Inst |-> IF i = out /\ INSTANCE_P(i) THEN set[i] \ {"PROTECT"} ELSE set[i]]
fth_gc_protect_set(out, in) ==
    LET clr == [i \in Inst |-> IF i = out /\ INSTANCE_P(i) THEN gc_mark[i] \ {"PROTECT"} ELSE gc_mark[i]]
    IN  [i \in Inst |-> IF i = in /\ INSTANCE_P(i) THEN clr[i] \cup {"PROTECT"} ELSE clr[i]]

\* ! and TO: the variable's old object loses its PROTECT bit, the new one gets it.
StoreVar == \E v \in Var, in \in stack \cup {NoInst} :
    LET out == held_by[v] IN
    /\ gc_mark' = fth_gc_protect_set(out, in)
    /\ held_by' = [held_by EXCEPT ![v] = in]
    /\ stack' = stack \ {in}
    /\ UNCHANGED held
    /\ robbed' = {i \in Inst : Claimed(i)' /\
           (i \in robbed \/ (i = out /\ i # in) \/ (i = in /\ ~INSTANCE_P(i)))}
    /\ UNCHANGED <<last_instance, inst_free_list, kids, frames>>
    /\ Refs' <= MaxRefs

FetchVar == \E v \in Var :
    /\ held_by[v] # NoInst
    /\ stack' = stack \cup {held_by[v]} /\ Fits(stack')
    /\ UNCHANGED <<heap, held_by, frames, ghost>>

GcProtect == \E i \in stack :
    /\ OnStack(i)
    /\ gc_mark' = SetBit(i, "PROTECT")
    /\ held' = held \cup {i}
    /\ UNCHANGED <<last_instance, inst_free_list, kids, roots, frames, robbed>>
    /\ Refs' <= MaxRefs
GcUnprotect == \E i \in stack :
    /\ OnStack(i)
    /\ gc_mark' = ClrBit(i, "PROTECT")
    /\ held' = held \ {i}
    /\ UNCHANGED <<last_instance, inst_free_list, kids, roots, frames>>
    /\ robbed' = {k \in Inst : Claimed(k)' /\ k \in robbed \cup {i}}
\* , and literals: an object that goes into the dictionary stays for good.
Comma == \E i \in stack :
    /\ gc_mark' = SetBit(i, "PERMANENT")
    /\ stack' = stack \ {i}
    /\ UNCHANGED <<last_instance, inst_free_list, kids, held_by, frames, ghost>>
    /\ Refs' <= MaxRefs

-----------------------------------------------------------------------------
(* What the rest of the program does to the frames. *)

GcPush ==
    /\ gc_push
    /\ UNCHANGED <<heap, roots, ghost>>
GcPop ==
    /\ gc_pop(1)
    /\ UNCHANGED <<heap, roots, ghost>>
GcLoopReset ==
    /\ gc_loop_reset
    /\ UNCHANGED <<heap, roots, ghost>>

-----------------------------------------------------------------------------
Init ==
    /\ gc_mark = [i \in Inst |-> {"FREED"}]
    /\ last_instance = 0
    /\ inst_free_list = {}
    /\ kids = [i \in Inst |-> {}]
    /\ stack = {}
    /\ held_by = [v \in Var |-> NoInst]
    /\ init_gc
    /\ held = {}
    /\ robbed = {}

Next ==
    \/ GcRun \/ MakeFromFreeList \/ MakeAfterGc \/ MakeGrowAfterGc \/ MakeGrow
    \/ Drop \/ AddElement \/ FetchElement \/ ClearElements
    \/ StoreVar \/ FetchVar \/ GcProtect \/ GcUnprotect
    \/ Comma
    \/ GcPush \/ GcPop \/ GcLoopReset

Spec == Init /\ [][Next]_vars

-----------------------------------------------------------------------------
(* Properties. *)

TypeOK ==
    /\ gc_mark \in [Inst -> SUBSET Bit]
    /\ last_instance \in 0..MaxInstances
    /\ inst_free_list \subseteq Inst
    /\ kids \in [Inst -> SUBSET Inst]
    /\ stack \subseteq Inst
    /\ held_by \in [Var -> Inst \cup {NoInst}]
    /\ gc_inst \in [Frame -> SUBSET Inst]
    /\ gc_frame_level \in Frame
    /\ held \subseteq Inst
    /\ robbed \subseteq Inst

\* What is on the free list is free, and in the table: gc_next_instance never
\* hands out a slot whose object somebody may still use, a slot is on the list
\* once, and no active frame, whose list shares the next field, has it.
FreeListSound == TypeOK /\
    \A i \in inst_free_list : GC_FREED_P(i) /\ i < last_instance /\ i \notin Active

\* An object in a variable or under gc-protect is not freed, unless another
\* variable, gc-unprotect or an overwritten variable took away the one PROTECT
\* bit they share (fth_gc_protect_set, fth_gc_unprotect).
HeldAlive == \A i \in Inst : Claimed(i) => i \in robbed \/ ~GC_FREED_P(i)

\* No step frees an object of an active frame: what FthScopes takes gc_run to do.
FramesKept == [][\A i \in Active : INSTANCE_P(i) => INSTANCE_P(i)']_vars

\* A collection that keeps a container keeps its elements, theirs and so on
\* ("Mark elements of already marked sequences"), for a container in any slot but
\* the table's last.  A container made in the same step is none that was kept.
LiveWithin(c) ==
    {x \in Inst : \A S \in SUBSET Inst :
        (c \in S /\ \A i \in S : LiveKids(i) \subseteq S) => x \in S}
KeepsElements ==
    [][\A c \in Inst :
        INSTANCE_P(c) /\ INSTANCE_P(c)' /\ c # last_instance - 1 /\ c \notin stack' \ stack =>
            \A x \in LiveWithin(c) : INSTANCE_P(x)']_vars

\* "Mark elements of already marked sequences (array etc)": a container that is
\* kept, in whichever slot, keeps its elements.
KeepsAllElements ==
    [][\A c \in Inst : INSTANCE_P(c) /\ INSTANCE_P(c)' =>
        \A k \in LiveKids(c) \cap kids'[c] : INSTANCE_P(k)']_vars
=============================================================================
