------------------------------ MODULE BootInfo ------------------------------
(***************************************************************************)
(* gather_bootinfo (crates/bootloader/limine/src/lib.rs): the bootloader's *)
(* memory map and strings are copied into two static buffers, and the      *)
(* kernel gets pointers into them, which it follows in print_boot_info and *)
(* in vm::init.  What the bootloader left in memory is the input; a string *)
(* is a pointer to bytes that should end with NUL.                         *)
(***************************************************************************)
EXTENDS Integers, Sequences

CONSTANTS
  Memory,            \* physical memory: the byte at each address
  Requests,          \* the answers that the bootloader may give
  AddrLimit,         \* addresses are below this (2^64)
  MAX_MEMMAP, STRBUF_SIZE, ALIGN, MAX_STR_BYTES,
  MEMBUF, STRBUF,    \* addresses of the two buffers, in kernel virtual memory
  NUL, SPACE, Uninit,
  NonUtf8,           \* bytes that no UTF-8 text has
  None               \* no response, no string

VARIABLES
  req,               \* the answers of the bootloader; never changes
  step,              \* what comes next, see Steps
  membuf, view,      \* MEMBUF; MemMapView
  strbuf, STRBUF_USED,
  info,              \* BootInfo
  shown,             \* what print_boot_info logged, or None
  alloc              \* BootPtAlloc of vm::init, or None

kernel == <<shown, alloc>>
vars == <<req, step, membuf, view, strbuf, STRBUF_USED, info, kernel>>

\* The types of entries: MemType, as the kernel has them, and two more of the bootloader.
MemType == {"Reserved", "Usable", "AcpiReclaimable", "AcpiNvs", "Mmio", "BadMemory",
            "BootloaderReclaimable", "KernelAndModules"}
LimineType == (MemType \ {"Mmio", "KernelAndModules"}) \cup {"ExecutableAndModules", "Framebuffer"}
MemMapEntry == [base : Nat, len : Nat, type : MemType]
LimineEntry == [base : Nat, len : Nat, type : LimineType]

ASSUME BootInfoAssumption ==
  /\ \A r \in Requests :
       /\ r.supported \in BOOLEAN /\ {r.hhdm, r.rsdp, r.name, r.version} \subseteq Nat
       /\ r.cmdline # None => r.cmdline \in Nat
       /\ r.memmap # None => r.memmap \in Seq(LimineEntry)
  /\ None \notin Seq(MemMapEntry)
  /\ {AddrLimit, MAX_MEMMAP, STRBUF_SIZE, ALIGN, MAX_STR_BYTES} \subseteq Nat \ {0}
  /\ MEMBUF \in Nat \ {0} /\ STRBUF \in Nat \ {0}

\* What the memory map describes exists, as far as addresses go; None and Uninit are no
\* value that the code could find there or make of it.
Byte == {Memory[p] : p \in DOMAIN Memory}
ASSUME MemoryAssumption ==
  /\ \A r \in Requests : r.memmap # None =>
       \A i \in DOMAIN r.memmap :
         r.memmap[i].base + r.memmap[i].len < AddrLimit =>
           r.memmap[i].base .. (r.memmap[i].base + r.memmap[i].len - 1) \subseteq DOMAIN Memory
  /\ None \notin Nat \cup [virt : Nat, max : Nat]
  /\ None \notin Seq(Byte) /\ None \notin [text : BOOLEAN, bytes : Seq(Byte)]
  /\ Uninit \notin MemMapEntry

Steps == {"start", "memmap", "cmdline", "bootloader", "print", "vm_init", "up", "panic"}

\* The size of a MemMapEntry, and phys_addr_bits and virt_addr_bits of x86-64.
ENTRY_SIZE == 24
default_addr_bits == <<52, 48>>

\* BootMode, as BootInfo has it and as the kernel reads it.
as_raw(mode) == CASE mode = "Bios" -> 1 [] mode = "Uefi" -> 2 [] OTHER -> 0
from_raw(raw) == CASE raw = 1 -> "Bios" [] raw = 2 -> "Uefi" [] OTHER -> "Unknown"

Empty == [ptr |-> 0, len |-> 0]
is_empty(span) == span.ptr = 0 \/ span.len = 0

EmptyView == [entries_ptr |-> 0, entry_count |-> 0, entry_size |-> ENTRY_SIZE,
              truncated |-> FALSE]

\* No framebuffer is ever reported.
minimal_bootinfo ==
  [boot_mode |-> as_raw("Unknown"), addr_bits |-> default_addr_bits, hhdm_offset |-> 0,
   mem |-> EmptyView, acpi_rsdp |-> 0, fb_addr |-> 0, cmdline |-> Empty,
   bootloader |-> Empty, truncated |-> FALSE]

Init ==
  /\ req \in Requests
  /\ step = "start"
  /\ membuf = [i \in 1 .. MAX_MEMMAP |-> Uninit]
  /\ view = EmptyView
  /\ strbuf = [i \in 0 .. (STRBUF_SIZE - 1) |-> Uninit]
  /\ STRBUF_USED = 0
  /\ info = minimal_bootinfo
  /\ shown = None /\ alloc = None

\* The memory map as the kernel sees it, through entries_ptr and entry_count.
Entries == [i \in 1 .. view.entry_count |-> membuf[i]]

-----------------------------------------------------------------------------
boot_mode ==
  CASE req.firmware = "X86_BIOS" -> "Bios"
    [] req.firmware \in {"UEFI_64", "UEFI_32"} -> "Uefi"
    [] OTHER -> "Unknown"

\* The revision is not looked at.
start_Unchecked ==
  /\ step = "start"
  /\ step' = "memmap"
  /\ info' = [info EXCEPT !.boot_mode = as_raw(boot_mode), !.hhdm_offset = req.hhdm,
                          !.acpi_rsdp = req.rsdp]
  /\ UNCHANGED <<req, membuf, view, strbuf, STRBUF_USED, kernel>>

\* gather_bootinfo up to the memory map; an unsupported revision gives minimal_bootinfo.
\* BootInfo is assembled at the end of the code, and field by field here.
start ==
  /\ step = "start"
  /\ IF req.supported
       THEN /\ step' = "memmap"
            /\ info' = [info EXCEPT !.boot_mode = as_raw(boot_mode), !.hhdm_offset = req.hhdm,
                                    !.acpi_rsdp = req.rsdp]
       ELSE step' = "print" /\ info' = minimal_bootinfo
  /\ UNCHANGED <<req, membuf, view, strbuf, STRBUF_USED, kernel>>

\* Framebuffer and unknown types become Reserved.
map_memtype(t) ==
  IF t \in {"Usable", "Reserved", "AcpiReclaimable", "AcpiNvs", "BadMemory",
            "BootloaderReclaimable"}
    THEN t
    ELSE IF t = "ExecutableAndModules" THEN "KernelAndModules" ELSE "Reserved"

MinOf(a, b) == IF a < b THEN a ELSE b

\* One entry too few when the map just fits.
Copied_OneLess == MinOf(Len(req.memmap), MAX_MEMMAP - 1)

\* The number of entries that are copied.
Copied == MinOf(Len(req.memmap), MAX_MEMMAP)

convert_memmap_entries ==
  /\ step = "memmap"
  /\ step' = "cmdline"
  /\ IF req.memmap = None \/ req.memmap = <<>>
       THEN UNCHANGED <<membuf, view, info>>
       ELSE /\ membuf' = [i \in 1 .. MAX_MEMMAP |->
                            IF i <= Copied
                              THEN [req.memmap[i] EXCEPT !.type = map_memtype(@)]
                              ELSE membuf[i]]
            /\ view' = [entries_ptr |-> MEMBUF, entry_count |-> Copied,
                        entry_size |-> ENTRY_SIZE, truncated |-> Len(req.memmap) > Copied]
            /\ info' = [info EXCEPT !.mem = view', !.truncated = Len(req.memmap) > Copied]
  /\ UNCHANGED <<req, strbuf, STRBUF_USED, kernel>>

-----------------------------------------------------------------------------
\* phys_available: what the first entry that holds phys has left from there; an entry
\* whose end overflows ends the search.
End(i) == Entries[i].base + Entries[i].len
Overflows(i) == End(i) >= AddrLimit

phys_available(phys) ==
  LET stops == {i \in DOMAIN Entries : Overflows(i) \/ phys \in Entries[i].base .. (End(i) - 1)}
      first == CHOOSE i \in stops : \A j \in stops : i <= j
  IN  IF stops = {} THEN None
      ELSE IF Overflows(first) THEN None
      ELSE End(first) - phys

\* resolve_limine_ptr: below the HHDM a pointer is taken for a physical address.
PhysOf(ptr) == IF ptr < req.hhdm THEN ptr ELSE ptr - req.hhdm

resolve_limine_ptr(ptr) ==
  LET max == phys_available(PhysOf(ptr))
  IN  IF max = None THEN None
      ELSE [virt |-> IF ptr < req.hhdm THEN ptr + req.hhdm ELSE ptr, max |-> max]

\* The byte that the direct map shows at a virtual address.
ByteAt(virt) == Memory[virt - req.hhdm]

\* The search for NUL does not stop at the end of the entry.
ScanLength_Unbounded(r) == MAX_STR_BYTES

ScanLength(r) == MinOf(r.max, MAX_STR_BYTES)

\* cstr_view: the bytes before the first NUL, or None.
cstr_view(ptr) ==
  LET r == resolve_limine_ptr(ptr)
  IN  IF ptr = 0 \/ view.entries_ptr = 0 \/ view.entry_count = 0 THEN None
      ELSE IF r = None THEN None
      ELSE LET nul == {k \in 0 .. (ScanLength(r) - 1) : ByteAt(r.virt + k) = NUL}
               len == CHOOSE k \in nul : \A j \in nul : k <= j
           IN  IF nul = {} THEN None
               ELSE IF len = 0 THEN None
               ELSE [k \in 1 .. len |-> ByteAt(r.virt + k - 1)]

-----------------------------------------------------------------------------
\* Off by one: the last byte in use is overwritten.
NextFree_Overlaps == IF STRBUF_USED = 0 THEN 0 ELSE STRBUF_USED - 1

NextFree == ((STRBUF_USED + ALIGN - 1) \div ALIGN) * ALIGN

Fits(n) == NextFree + n <= STRBUF_SIZE

\* strbuf_alloc_copy of the bytes s: the resulting span, and the buffer.
SpanFor(s) == IF s # <<>> /\ Fits(Len(s)) THEN [ptr |-> STRBUF + NextFree, len |-> Len(s)]
                                          ELSE Empty
Store(s) ==
  IF SpanFor(s) = Empty
    THEN UNCHANGED <<strbuf, STRBUF_USED>>
    ELSE /\ strbuf' = [i \in 0 .. (STRBUF_SIZE - 1) |->
                         IF i - NextFree \in 0 .. (Len(s) - 1) THEN s[i - NextFree + 1]
                                                               ELSE strbuf[i]]
         /\ STRBUF_USED' = NextFree + Len(s)

OrEmpty(s) == IF s = None THEN <<>> ELSE s

\* strbuf_alloc_join: name and version, with a space between them if both are there.
Join(a, b) ==
  IF a = <<>> THEN b ELSE IF b = <<>> THEN a ELSE a \o <<SPACE>> \o b

Cmdline == IF req.cmdline = None THEN <<>> ELSE OrEmpty(cstr_view(req.cmdline))
Loader == Join(OrEmpty(cstr_view(req.name)), OrEmpty(cstr_view(req.version)))

copy_cmdline ==
  /\ step = "cmdline"
  /\ step' = "bootloader"
  /\ Store(Cmdline)
  /\ info' = [info EXCEPT !.cmdline = SpanFor(Cmdline)]
  /\ UNCHANGED <<req, membuf, view, kernel>>

copy_bootloader ==
  /\ step = "bootloader"
  /\ step' = "print"
  /\ Store(Loader)
  /\ info' = [info EXCEPT !.bootloader = SpanFor(Loader)]
  /\ UNCHANGED <<req, membuf, view, kernel>>

-----------------------------------------------------------------------------
\* The bytes that the kernel reads through a span.
Read(span) == [k \in 1 .. span.len |-> strbuf[span.ptr - STRBUF + k - 1]]

\* What is not UTF-8 is printed as numbers.
print_bytespan(span) ==
  IF is_empty(span) THEN None
  ELSE [text |-> \A k \in 1 .. span.len : Read(span)[k] \notin NonUtf8, bytes |-> Read(span)]

\* The list of entries, unless there are none or they have another size.
print_entries ==
  IF info.mem.entry_count = 0 \/ info.mem.entries_ptr = 0 \/ info.mem.entry_size # ENTRY_SIZE
    THEN None
    ELSE [i \in 1 .. info.mem.entry_count |-> membuf[i]]

print_boot_info ==
  /\ step = "print"
  /\ step' = "vm_init"
  /\ shown' = [mode |-> from_raw(info.boot_mode), addr_bits |-> info.addr_bits,
               hhdm |-> info.hhdm_offset, acpi_rsdp |-> info.acpi_rsdp, fb |-> info.fb_addr # 0,
               cmdline |-> print_bytespan(info.cmdline),
               bootloader |-> print_bytespan(info.bootloader),
               truncated |-> info.mem.truncated, entries |-> print_entries]
  /\ UNCHANGED <<req, membuf, view, strbuf, STRBUF_USED, info, alloc>>

\* The memory map is not looked at.
Refused_AnyMap == info.hhdm_offset = 0

\* BootPtAlloc::new returns None.
Refused ==
  \/ info.hhdm_offset = 0
  \/ info.mem.entries_ptr = 0 \/ info.mem.entry_count = 0
  \/ info.mem.entry_size # ENTRY_SIZE

\* vm::init as far as it depends on BootInfo; the rest is in Boot, FrameAlloc and Tlb.
vm_init ==
  /\ step = "vm_init"
  /\ IF Refused
       THEN step' = "panic" /\ UNCHANGED alloc
       ELSE /\ step' = "up"
            /\ alloc' = [entries_ptr |-> info.mem.entries_ptr,
                         entry_count |-> info.mem.entry_count,
                         cur_entry |-> 0, cur_addr |-> 0, hhdm_offset |-> info.hhdm_offset,
                         free_count |-> 0]
  /\ UNCHANGED <<req, membuf, view, strbuf, STRBUF_USED, info, shown>>

Next ==
  \/ start \/ convert_memmap_entries \/ copy_cmdline \/ copy_bootloader
  \/ print_boot_info \/ vm_init

Spec == Init /\ [][Next]_vars

-----------------------------------------------------------------------------
\* The variables keep their types; a revision that is not supported leaves the
\* minimal BootInfo and both buffers untouched (lib.rs:228).
TypeOK ==
  /\ step \in Steps
  /\ STRBUF_USED \in 0 .. STRBUF_SIZE
  /\ view.entry_count \in 0 .. MAX_MEMMAP /\ view.entries_ptr \in {0, MEMBUF}
  /\ \A f \in {"cmdline", "bootloader"} : info[f].len \in 0 .. STRBUF_SIZE
  /\ \A i \in 1 .. view.entry_count : membuf[i] # Uninit
  /\ ~req.supported => info = minimal_bootinfo /\ view = EmptyView /\ STRBUF_USED = 0

\* The C string that the bootloader's pointer refers to: it ends inside the memory
\* map entry that it starts in and is not longer than MAX_STR_BYTES allows.  Where entries
\* overlap, it starts in the first of them.
Extent(i) == req.memmap[i].base .. (req.memmap[i].base + req.memmap[i].len - 1)
StartsIn(i, from) ==
  /\ from \in Extent(i) /\ \A j \in 1 .. (i - 1) : from \notin Extent(j)
  /\ \A j \in 1 .. i : req.memmap[j].base + req.memmap[j].len < AddrLimit

InOneEntry(from, to) == \E i \in 1 .. Copied : StartsIn(i, from) /\ to \in Extent(i)

IsCString(s, ptr) ==
  LET phys == PhysOf(ptr)
  IN  /\ ptr # 0 /\ Len(s) \in 1 .. (MAX_STR_BYTES - 1)
      /\ InOneEntry(phys, phys + Len(s))
      /\ \A k \in 1 .. Len(s) : s[k] = Memory[phys + k - 1] /\ s[k] # NUL
      /\ Memory[phys + Len(s)] = NUL

HasString(ptr) ==
  \E n \in 1 .. (MAX_STR_BYTES - 1) :
    /\ ptr # 0 /\ InOneEntry(PhysOf(ptr), PhysOf(ptr) + n)
    /\ \A k \in 0 .. n : Memory[PhysOf(ptr) + k] = NUL <=> k = n

\* What the kernel prints as command line and bootloader, once everything is copied, is
\* what the bootloader's pointers refer to, undamaged by the copies that followed; a
\* command line that exists and fits is not dropped (lib.rs:129, 189, 283; kernel
\* bootinfo.rs:88).
StringsDelivered ==
  shown # None /\ req.supported /\ req.memmap # None =>
    /\ shown.cmdline # None => IsCString(shown.cmdline.bytes, req.cmdline)
    /\ shown.bootloader # None =>
         LET s == shown.bootloader.bytes
         IN  \/ IsCString(s, req.name) /\ ~HasString(req.version)
             \/ IsCString(s, req.version) /\ ~HasString(req.name)
             \/ \E m \in 1 .. Len(s) : /\ IsCString(SubSeq(s, 1, m - 1), req.name)
                                       /\ s[m] = SPACE
                                       /\ IsCString(SubSeq(s, m + 1, Len(s)), req.version)
    /\ req.cmdline # None /\ HasString(req.cmdline) /\ MAX_STR_BYTES <= STRBUF_SIZE =>
         shown.cmdline # None

\* The two strings are inside the buffer and do not share a byte.
Bytes(span) == IF span = Empty THEN {} ELSE span.ptr .. (span.ptr + span.len - 1)
SpansDisjoint ==
  /\ Bytes(info.cmdline) \cup Bytes(info.bootloader) \subseteq STRBUF .. (STRBUF + STRBUF_SIZE - 1)
  /\ Bytes(info.cmdline) \cap Bytes(info.bootloader) = {}

\* The memory map that the kernel prints and allocates from is the bootloader's, entry
\* for entry and with the same usable memory, up to MAX_MEMMAP entries, and is marked as
\* truncated exactly if that is not all of it (lib.rs:397, kernel bootinfo.rs:77).
MapFaithful ==
  shown # None /\ req.supported /\ req.memmap \notin {None, <<>>} =>
    /\ shown.entries # None
    /\ \A i \in DOMAIN shown.entries :
         /\ shown.entries[i].base = req.memmap[i].base
         /\ shown.entries[i].len = req.memmap[i].len
         /\ \A t \in {"Usable", "BootloaderReclaimable"} :
              shown.entries[i].type = t <=> req.memmap[i].type = t
    /\ shown.truncated <=> DOMAIN shown.entries # DOMAIN req.memmap
    /\ info.truncated <=> shown.truncated
    /\ Len(req.memmap) <= MAX_MEMMAP => ~shown.truncated
    /\ alloc # None => alloc.entry_count = Len(shown.entries) /\ alloc.entries_ptr = MEMBUF

\* The kernel starts exactly when the bootloader is one it supports and has given it a
\* direct map and a memory map with an entry, and panics otherwise, before it allocates
\* anything (vm.rs:23, 118); it never takes the zeroes of minimal_bootinfo for answers.
StartsOrPanics ==
  LET answered == req.supported /\ req.hhdm # 0 /\ req.memmap \notin {None, <<>>}
  IN  /\ step = "up" => answered /\ alloc.hhdm_offset = req.hhdm
      /\ step = "panic" => ~answered /\ alloc = None
      /\ shown # None => shown.mode = IF req.supported THEN boot_mode ELSE "Unknown"

\* crates/bootabi/src/lib.rs:178, "entries_ptr is physical": then it lies in an entry
\* of a memory map that is not truncated.
EntriesPtrIsPhysical ==
  info.mem.entries_ptr # 0 /\ ~view.truncated =>
    \E i \in DOMAIN Entries : info.mem.entries_ptr \in Entries[i].base .. (End(i) - 1)
=============================================================================
