----------------------------- MODULE Descriptors -----------------------------
(***************************************************************************)
(* The bits of the descriptors (gdt.rs) and gates (idt.rs), byte by byte   *)
(* with the lowest byte first, and how the CPU reads them.  An address is  *)
(* the sequence of its eight bytes; those of a stub are tokens, so that a  *)
(* byte in the wrong place shows.                                          *)
(***************************************************************************)
EXTENDS Tss

KERNEL_CS == 8
KERNEL_DS == 16
TSS_SEL == 24

gdt_null == [k \in 1 .. 8 |-> 0]
gdt_code64 == <<255, 255, 0, 0, 0, 154, 175, 0>>
gdt_data == <<255, 255, 0, 0, 0, 146, 207, 0>>
NoTssDesc == [k \in 1 .. 16 |-> 0]

\* Bits 24 to 31 of the address are left out.
make_tss_desc_ShortBase(tss_addr, tss_len) ==
  LET limit == tss_len - 1
  IN  <<limit % 256, (limit \div 256) % 256, tss_addr[1], tss_addr[2], tss_addr[3],
        137, (limit \div 65536) % 16, 0>>
      \o SubSeq(tss_addr, 5, 8) \o <<0, 0, 0, 0>>

\* Type 0x89 is a present, available TSS.
make_tss_desc(tss_addr, tss_len) ==
  LET limit == tss_len - 1
  IN  <<limit % 256, (limit \div 256) % 256, tss_addr[1], tss_addr[2], tss_addr[3],
        137, (limit \div 65536) % 16, tss_addr[4]>>
      \o SubSeq(tss_addr, 5, 8) \o <<0, 0, 0, 0>>

\* Bits 48 to 63 repeat bit 47.
is_canonical(addr) ==
  IF addr[6] < 128 THEN addr[7] = 0 /\ addr[8] = 0 ELSE addr[7] = 255 /\ addr[8] = 255

\* The entry for a handler: offset_lo, selector, ist, type_attr, offset_mid, offset_hi
\* and zero.  Type 0x8E is a present interrupt gate of ring 0.
set_gate(handler, ist) ==
  SubSeq(handler, 1, 2) \o <<KERNEL_CS, 0>> \o <<ist % 8, 142>>
    \o SubSeq(handler, 3, 4) \o SubSeq(handler, 5, 8) \o <<0, 0, 0, 0>>

\* The bytes of the address of the stub for a vector (isr_stub_table, irq_stub_table,
\* irq_224, irq_225).
Stub(vec) == [k \in 1 .. 8 |-> <<vec, k>>]

-----------------------------------------------------------------------------
\* Hardware: the descriptor that a selector names, the bits of byte n of one, and
\* what the CPU takes from it.
Descriptor(table, sel, size) == SubSeq(table, sel + 1, sel + size)
Bit(byte, n) == (byte \div 2 ^ n) % 2 = 1
Access(d) == d[6]
Present0(d) == Bit(Access(d), 7) /\ ~Bit(Access(d), 6) /\ ~Bit(Access(d), 5)

\* A 64-bit code segment (S, executable, L and not D), a writable data segment.
IsCode64(d) == /\ Present0(d) /\ Bit(Access(d), 4) /\ Bit(Access(d), 3)
               /\ Bit(d[7], 5) /\ ~Bit(d[7], 6)
IsData(d) == Present0(d) /\ Bit(Access(d), 4) /\ ~Bit(Access(d), 3) /\ Bit(Access(d), 1)

\* A TSS descriptor, available (9) or busy (11): its base and its limit.
TssType(d) == Access(d) % 32
TssBase(d) == SubSeq(d, 3, 5) \o <<d[8]>> \o SubSeq(d, 9, 12)
TssLimit(d) == d[1] + 256 * d[2] + 65536 * (d[7] % 16)

\* ltr marks the descriptor busy, in the table itself.
MarkBusy(table, sel) == [table EXCEPT ![sel + 6] = @ + 2]

\* What the CPU takes from a gate.
GateOffset(g) == SubSeq(g, 1, 2) \o SubSeq(g, 7, 12)
GateSelector(g) == g[3] + 256 * g[4]
GateIst(g) == g[5] % 8
IsInterruptGate(g) == Bit(g[6], 7) /\ g[6] % 32 = 14
=============================================================================
