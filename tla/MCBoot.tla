------------------------------- MODULE MCBoot -------------------------------
(***************************************************************************)
(* Boot on CPUs with every combination of CPUID answers that its decoding  *)
(* tells apart, with a 3-bit TSC and ticks of no, two or three units: the  *)
(* counter wraps around while the kernel runs, and the handler may be late *)
(* enough to miss a deadline.                                              *)
(***************************************************************************)
EXTENDS Boot

\* Leaf 0x15 (denominator, numerator, crystal) and leaf 0x16: no leaf, a frequency of 4
\* from the ratio, 6 MHz from leaf 0x16 because the crystal is not reported, a product
\* that saturates, a ratio that comes out as 0, one below two units per second, none.
Clocks == {<<20, <<0, 0, 0>>, 0>>, <<21, <<1, 2, 2>>, 0>>, <<22, <<1, 2, 0>>, 6>>,
           <<22, <<1, 9, 9>>, 4>>, <<22, <<9, 1, 1>>, 6>>, <<21, <<2, 1, 2>>, 0>>,
           <<22, <<0, 0, 0>>, 0>>}

\* The highest extended leaf, NX, invariant TSC; a CPU without extended leaves answers
\* with those of another leaf.
Extended == {<<0, TRUE, TRUE>>, <<1, TRUE, FALSE>>, <<7, TRUE, TRUE>>, <<7, FALSE, TRUE>>}

MachineWith(c, e, x, d, b, m) ==
  [max_leaf |-> c[1], leaf15 |-> c[2], leaf16 |-> c[3],
   max_ext |-> e[1], nx |-> e[2], invariant |-> e[3],
   x2apic |-> x, tsc_deadline |-> d, apic_base |-> b, memmap |-> m]

\* Every clock in both APIC modes with and without the deadline register, and every set
\* of extended leaves with and without a memory map.
MachinesAt(b) ==
  {MachineWith(c, <<7, TRUE, TRUE>>, x, d, b, TRUE) :
     c \in Clocks, x \in BOOLEAN, d \in BOOLEAN}
  \cup {MachineWith(<<21, <<1, 2, 2>>, 0>>, e, TRUE, TRUE, b, m) :
          e \in Extended, m \in BOOLEAN}

\* The APIC where it is after reset (0xfee00000), and above 4 GiB.
ResetBase == MachinesAt(1043968)
MovedBase == MachinesAt(1048576 + 1043968)

\* The address of the static TSS, in the kernel half.
KernelTss == <<16, 50, 84, 118, 152, 186, 255, 255>>
=============================================================================
