----------------------------- MODULE MCBootInfo -----------------------------
(***************************************************************************)
(* BootInfo for 16 bytes of memory with terminated and unterminated        *)
(* strings, a buffer that holds one or two of them, and memory maps with   *)
(* fewer and more entries than MAX_MEMMAP, one that overflows and two that *)
(* overlap.                                                                *)
(***************************************************************************)
EXTENDS BootInfo

CONSTANTS a, b

Content == <<a, b, NUL, b, NUL, a, a, b, a, a, NUL, b, b, b, b, NUL>>
SmallMemory == [p \in 0 .. 15 |-> Content[p + 1]]

Entry(base, len, type) == [base |-> base, len |-> len, type |-> type]
SmallMaps ==
  {<<>>,
   <<Entry(0, 8, "Usable")>>,
   <<Entry(0, 2, "AcpiNvs"), Entry(2, 3, "BootloaderReclaimable")>>,
   <<Entry(1, 4, "ExecutableAndModules"), Entry(5, 6, "Framebuffer"), Entry(11, 1, "Usable")>>,
   <<Entry(20, 44, "Reserved"), Entry(0, 5, "Usable")>>,
   <<Entry(1, 1, "Reserved"), Entry(0, 8, "Usable")>>}

SmallPointers == {0, 1, 3, 5, 7, 17, 19, 26}

\* Every combination of memory map, offset and strings, and every firmware.
SmallRequests ==
  [supported : {TRUE}, firmware : {"UEFI_64"}, hhdm : {0, 16}, rsdp : {9},
   memmap : SmallMaps \cup {None}, cmdline : SmallPointers \cup {None},
   name : SmallPointers, version : SmallPointers]
  \cup [supported : BOOLEAN, firmware : {None, "X86_BIOS", "UEFI_64", "UEFI_32"},
        hhdm : {0, 16}, rsdp : {0, 9}, memmap : SmallMaps \cup {None}, cmdline : {None, 17},
        name : {0, 19}, version : {17}]
=============================================================================
