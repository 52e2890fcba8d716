----------------------------- MODULE FramePlane -----------------------------
(***************************************************************************)
(* The frame plane (ipc/src/shm.rs): one file per rendered frame, named by *)
(* the generation counter that send_frame in core/engine/src/session.rs    *)
(* increments, pruned to a fixed retention window.                         *)
(***************************************************************************)
EXTENDS Integers

CONSTANT Retained   \* RETAINED_GENERATIONS, 4 in the code

ASSUME RetainedAssumption == Retained \in Nat \ {0}

VARIABLES
    generation,     \* the core's frame counter
    frames          \* generations whose file is in frame_dir

frameVars == <<generation, frames>>

\* Mutant: the frame before the one that left the retention window.
ExpiredLate(g) == IF g > Retained THEN {g - Retained - 1} ELSE {}

\* One file is removed per write, by number; nothing scans the directory.
\* A number below the retention window's width has no predecessor to remove.
Expired(g) == IF g >= Retained THEN {g - Retained} ELSE {}

write_frame(g) == frames' = (frames \cup {g}) \ Expired(g)

next_frame ==
    /\ generation' = generation + 1
    /\ write_frame(generation + 1)
=============================================================================
