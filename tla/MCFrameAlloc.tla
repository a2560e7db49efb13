---------------------------- MODULE MCFrameAlloc ----------------------------
(***************************************************************************)
(* FrameAlloc on every memory map of up to three entries drawn from a few  *)
(* shapes (aligned and unaligned bases, lengths below a page, several      *)
(* pages long, running past the u64 range; any order), with 4-byte pages,  *)
(* 5-bit addresses and a free list of two frames.                          *)
(***************************************************************************)
EXTENDS FrameAlloc

MCEntry ==
  [base : {0, 6}, len : {3, 10}, mem_type : {"Usable"}] \cup
  [base : {16, 20}, len : {4, 8, 16}, mem_type : {"BootloaderReclaimable"}] \cup
  [base : {12}, len : {4}, mem_type : {"Reserved"}]

MCMemMaps ==
  {m \in UNION {[entry_count : {n}, entries : [0 .. (n - 1) -> MCEntry]] : n \in 1 .. 3} :
     WellFormed(m)}
=============================================================================
