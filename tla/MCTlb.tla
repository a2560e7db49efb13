------------------------------- MODULE MCTlb --------------------------------
(***************************************************************************)
(* Tlb for two CPUs and one page: a user page with two spaces to switch    *)
(* between, or a kernel page with ordinary and global entries.             *)
(***************************************************************************)
EXTENDS Tlb, TLC

CONSTANTS c1, c2

\* The boot CPU has APIC identifier 0, as under QEMU, or another one.
BootIdZero == (c1 :> 0) @@ (c2 :> 1)
BootIdOne == (c1 :> 1) @@ (c2 :> 0)
=============================================================================
