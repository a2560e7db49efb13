-------------------------------- MODULE Tss ---------------------------------
(***************************************************************************)
(* The bytes of struct Tss64 (tss.rs) and how the CPU reads them.  A value *)
(* is a token; its byte k is <<value, k>>, so that a read at a wrong offset *)
(* shows as a mixture of two values.                                       *)
(***************************************************************************)
EXTENDS Integers, Sequences

Field(f, n) == [name |-> f, size |-> n]

\* The fields in the order of the declaration; repr(C) aligns each to its size.
Tss64 == <<Field("rsv0", 4), Field("rsp0", 8), Field("rsp1", 8), Field("rsp2", 8),
           Field("rsv1", 8), Field("ist1", 8), Field("ist2", 8), Field("ist3", 8),
           Field("ist4", 8), Field("ist5", 8), Field("ist6", 8), Field("ist7", 8),
           Field("rsv2", 8), Field("rsv3", 2), Field("iopb_offset", 2)>>

RoundUp(n, a) == ((n + a - 1) \div a) * a

Offset[i \in 1 .. Len(Tss64)] ==
  IF i = 1 THEN 0 ELSE RoundUp(Offset[i - 1] + Tss64[i - 1].size, Tss64[i].size)

\* size_of::<Tss64>(): align(16) pads the end.
SizeOf == RoundUp(Offset[Len(Tss64)] + Tss64[Len(Tss64)].size, 16)

Zero == "zero"
ByteOf(v, k) == IF v = Zero THEN <<Zero, 0>> ELSE <<v, k>>

\* The struct in memory, when its fields have the values vals.
InMemory(vals) ==
  [b \in 0 .. (SizeOf - 1) |->
     IF \E i \in 1 .. Len(Tss64) : b - Offset[i] \in 0 .. (Tss64[i].size - 1)
       THEN LET i == CHOOSE i \in 1 .. Len(Tss64) : b - Offset[i] \in 0 .. (Tss64[i].size - 1)
            IN  ByteOf(vals[Tss64[i].name], b - Offset[i])
       ELSE ByteOf(Zero, 0)]

FieldNames == {Tss64[i].name : i \in 1 .. Len(Tss64)}
Zeroed == [f \in FieldNames |-> Zero]

\* Hardware: the CPU finds the stack of IST n in the eight bytes at 0x24 + 8 * (n - 1),
\* and the ring 0 stack in those at 4.
ReadQuad(mem, at) == [k \in 0 .. 7 |-> mem[at + k]]
IstStack(mem, n) == ReadQuad(mem, 36 + 8 * (n - 1))
Quad(v) == [k \in 0 .. 7 |-> ByteOf(v, k)]
=============================================================================
