------------------------------ MODULE FramePool ------------------------------
(***************************************************************************)
(* What a page-table frame allocator promises (trait PageTableFrameAlloc   *)
(* of crates/hal/src/mmu.rs): a frame is either free or held by a client,  *)
(* allocation moves one free frame to the client, and a client gives back  *)
(* frames it holds.  A frame given back may be forgotten (the free list of *)
(* the implementation is bounded), so it need not become free again.       *)
(***************************************************************************)
EXTENDS Integers

CONSTANT Frame      \* the physical frames the allocator may hand out

VARIABLES free,     \* frames the allocator can still hand out
          held      \* frames handed out and not given back

vars == <<free, held>>

Init == /\ free \in SUBSET Frame
        /\ held = {}

alloc_frame_4k(f) == /\ f \in free
                     /\ free' = free \ {f}
                     /\ held' = held \cup {f}

\* One or several calls of free_frame_4k: frames leave the client's hands, and
\* nothing becomes free that the client did not give back.
free_frames_4k == /\ held' \subseteq held
                  /\ free \subseteq free'
                  /\ free' \ free \subseteq held \ held'

Next == \/ \E f \in free : alloc_frame_4k(f)
        \/ free_frames_4k

Spec == Init /\ [][Next]_vars
=============================================================================
