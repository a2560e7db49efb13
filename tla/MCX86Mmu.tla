------------------------------ MODULE MCX86Mmu ------------------------------
(***************************************************************************)
(* X86Mmu on small tables.  Entry 0 of a PML4 is the user half, the others *)
(* are the kernel half.  The boot loader's tables (frames 11 .. 14) map    *)
(* the kernel page <<1,0,0,0>> through one table of each level, and memory *)
(* that the allocator owns, from frame 1 on, by a large page next to it.   *)
(***************************************************************************)
EXTENDS X86Mmu, TLC

CONSTANT p1

Link(i, t) == [ZeroFrame EXCEPT ![i] = [p |-> TRUE, to |-> t, bits |-> {"W"}]]
MCBootMem == (14 :> Link(1, 13)) @@ (13 :> Link(0, 12)) @@ (11 :> Link(0, p1))
             @@ (12 :> [Link(0, 11) EXCEPT ![1] = [p |-> TRUE, to |-> 1, bits |-> {"W", "PS"}]])
MCBootLevel == (14 :> 4) @@ (13 :> 3) @@ (12 :> 2) @@ (11 :> 1)

u1 == <<0, 0, 0, 0>>
u2 == <<0, 0, 0, 1>>
k1 == <<1, 0, 0, 0>>
k2 == <<2, 0, 0, 0>>
kl == <<1, 0, 1, 0>>

\* One user page; two pages of one page table; one page of each half; a kernel page whose
\* PML4 entry is empty at boot; and one in the large page.
OneUserPage == {u1}
TwoUserPages == {u1, u2}
UserAndKernel == {u1, k1}
UnsharedKernel == {u1, k2}
InLarge == {u1, kl}

OneFlagSet == {{"WRITE", "USER"}}
TwoFlagSets == {{"WRITE"}, {"USER", "EXEC"}}
TwoUserFlagSets == {{"WRITE", "USER"}, {"USER", "EXEC"}}

\* Free frames are interchangeable: take the lowest.
LowestFrame == \A f \in pool \ pool', g \in pool : f <= g

\* The contents of frames that are no tables are never read before they are
\* zeroed, so states that differ only in them are one.
TablesInUse == <<[t \in Table |-> IF level[t] = 0 THEN ZeroFrame ELSE mem[t]],
                 pool, held, level, slots, lock, op>>
=============================================================================
