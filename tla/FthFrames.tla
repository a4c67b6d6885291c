------------------------------ MODULE FthFrames ------------------------------
(***************************************************************************)
(* The GC frames of a VM (src/src/object.c, gc_push ... init_gc).  A frame *)
(* lists the objects made while it was the current one; the collector      *)
(* keeps what the frames 0..gc_frame_level list.                           *)
(*                                                                         *)
(* A frame's list, linked through FInstance.next, is a set of slots.  A    *)
(* frame above gc_frame_level is empty here: gc_push empties it before it  *)
(* is read again.                                                          *)
(***************************************************************************)
EXTENDS Integers

CONSTANTS
    GC_FRAME_SIZE,   \* number of frames in the VM (128)
    MaxInstances     \* bound: slots of the instance table

ASSUME FrameAssumption == GC_FRAME_SIZE \in Nat \ {0} /\ MaxInstances \in Nat

VARIABLES gc_inst, gc_frame_level

Inst  == 0..(MaxInstances - 1)
Frame == 0..(GC_FRAME_SIZE - 1)

\* What gc_run's walk over the frames meets
Active == UNION {gc_inst[l] : l \in 0..gc_frame_level}

Saturates == gc_frame_level + 1 >= GC_FRAME_SIZE
LevelAbove == IF Saturates THEN GC_FRAME_SIZE - 1 ELSE gc_frame_level + 1
gc_push ==
    /\ gc_frame_level' = LevelAbove
    /\ gc_inst' = [gc_inst EXCEPT ![LevelAbove] = {}]

\* The level after n times gc_pop, each one frame too far.
LevelBelowTwice(n) == IF gc_frame_level < 2 * n THEN 0 ELSE gc_frame_level - 2 * n
\* The level after n times gc_pop
LevelBelow(n) == IF gc_frame_level < n THEN 0 ELSE gc_frame_level - n
gc_pop(n) ==
    /\ gc_frame_level' = LevelBelow(n)
    /\ gc_inst' = [l \in Frame |-> IF l > LevelBelow(n) THEN {} ELSE gc_inst[l]]

\* A gc_loop_reset that empties every frame.
gc_loop_reset_all ==
    /\ gc_inst' = [l \in Frame |-> {}]
    /\ UNCHANGED gc_frame_level
gc_loop_reset ==
    /\ gc_inst' = [gc_inst EXCEPT ![gc_frame_level] = {}]
    /\ UNCHANGED gc_frame_level

init_gc ==
    /\ gc_inst = [l \in Frame |-> {}]
    /\ gc_frame_level = 0
=============================================================================
