--------------------------- MODULE BootInfoProofs ---------------------------
(***************************************************************************)
(* Theorems about what the kernel gets from the bootloader, for every      *)
(* memory, every answer of the bootloader and every size of the buffers.   *)
(***************************************************************************)
EXTENDS BootInfo, SequenceTheorems, WellFoundedInduction, TLAPS

\* The end of what is in use is rounded up.
LEMMA RoundsUp ==
  ASSUME NEW u \in Nat, NEW n \in Nat \ {0} PROVE ((u + n - 1) \div n) * n \in Nat
                                                  /\ ((u + n - 1) \div n) * n >= u
  <1> DEFINE q == (u + n - 1) \div n
             r == (u + n - 1) % n
  <1>1. q \in Nat /\ r \in Nat /\ r < n /\ u + n - 1 = n * q + r
    BY Z3
  <1> HIDE DEF q, r
  <1>2. q * n = n * q /\ q * n \in Nat
    BY <1>1
  <1>3. q * n >= u
    BY <1>1, <1>2
  <1> QED BY <1>2, <1>3 DEF q

\* A set of numbers has a least one.
LEMMA LeastExists ==
  ASSUME NEW T, T \subseteq Nat, T # {} PROVE \E x \in T : \A y \in T : x <= y
  <1> DEFINE R == OpToRel(<, Nat)
  <1>1. IsWellFoundedOn(R, Nat)
    BY NatLessThanWellFounded
  <1>2. \A x, y \in Nat : <<y, x>> \in R <=> y < x
    BY DEF OpToRel
  <1> HIDE DEF R
  <1>3. PICK x \in T : \A y \in T : ~ (<<y, x>> \in R)
    BY <1>1, WFMin, Zenon
  <1>4. \A y \in T : ~(y < x)
    BY <1>2, <1>3, Zenon
  <1> QED BY <1>4

-----------------------------------------------------------------------------
\* A string that has been found, or none, is a finite sequence.
Finite(s) == \E S : s \in Seq(S)

\* cstr_view yields None or a finite sequence of bytes.
LEMMA ViewFinite ==
  ASSUME NEW ptr PROVE Finite(OrEmpty(cstr_view(ptr)))
  <1> DEFINE r == resolve_limine_ptr(ptr)
             nul == {k \in 0 .. (ScanLength(r) - 1) : ByteAt(r.virt + k) = NUL}
             len == CHOOSE k \in nul : \A j \in nul : k <= j
             bytes == [k \in 1 .. len |-> ByteAt(r.virt + k - 1)]
  <1>1. cstr_view(ptr) = None \/ (nul # {} /\ cstr_view(ptr) = bytes)
    BY DEF cstr_view
  <1>2. CASE cstr_view(ptr) = None
    BY <1>2 DEF OrEmpty, Finite
  <1>3. CASE cstr_view(ptr) # None
    <2>1. OrEmpty(cstr_view(ptr)) = bytes /\ nul # {}
      BY <1>1, <1>3 DEF OrEmpty
    <2>2. nul \subseteq Nat
      OBVIOUS
    <2>3. len \in Nat
      <3> HIDE DEF nul
      <3>1. \E k \in nul : \A j \in nul : k <= j
        BY <2>1, <2>2, LeastExists, Zenon
      <3> QED BY <2>2, <3>1, Zenon
    <2>4. bytes \in Seq({bytes[k] : k \in 1 .. len})
      <3> DEFINE at(k) == ByteAt(r.virt + k - 1)
      <3> HIDE DEF len, at
      <3>1. [k \in 1 .. len |-> at(k)] \in Seq({at(k) : k \in 1 .. len})
        BY <2>3
      <3> QED BY <3>1, Zenon DEF at
    <2> QED BY <2>1, <2>4, Zenon DEF Finite
  <1> QED BY <1>2, <1>3

\* So are the command line and the joined name of the bootloader.
LEMMA TextsFinite == Finite(Cmdline) /\ Finite(Loader)
  <1>1. Finite(Cmdline)
    <2>1. Finite(<<>>)
      BY DEF Finite
    <2> QED BY <2>1, ViewFinite, Zenon DEF Cmdline
  <1>2. \A a, b : Finite(a) /\ Finite(b) => Finite(Join(a, b))
    <2> TAKE a, b
    <2> HAVE Finite(a) /\ Finite(b)
    <2>1. PICK S : a \in Seq(S)
      BY DEF Finite
    <2>2. PICK T : b \in Seq(T)
      BY DEF Finite
    <2>3. <<SPACE>> \in Seq({SPACE})
      OBVIOUS
    <2>4. a \o <<SPACE>> \o b \in Seq(S \cup T \cup {SPACE})
      BY <2>1, <2>2, <2>3
    <2> QED BY <2>4, Zenon DEF Join, Finite
  <1>3. Finite(Loader)
    BY <1>2, ViewFinite, Zenon DEF Loader
  <1> QED BY <1>1, <1>3

\* Where strbuf_alloc_copy puts a string: behind what is in use, inside the buffer.
LEMMA SpanPlace ==
  ASSUME NEW s, Finite(s), STRBUF_USED \in Nat
  PROVE  \/ SpanFor(s) = Empty
         \/ /\ SpanFor(s) = [ptr |-> STRBUF + NextFree, len |-> Len(s)]
            /\ Len(s) \in Nat \ {0} /\ NextFree \in Nat /\ NextFree >= STRBUF_USED
            /\ NextFree + Len(s) <= STRBUF_SIZE
  <1> SUFFICES ASSUME SpanFor(s) # Empty
               PROVE  /\ SpanFor(s) = [ptr |-> STRBUF + NextFree, len |-> Len(s)]
                      /\ Len(s) \in Nat \ {0} /\ NextFree \in Nat /\ NextFree >= STRBUF_USED
                      /\ NextFree + Len(s) <= STRBUF_SIZE
    OBVIOUS
  <1>1. s # <<>> /\ Fits(Len(s)) /\ SpanFor(s) = [ptr |-> STRBUF + NextFree, len |-> Len(s)]
    BY Zenon DEF SpanFor
  <1>2. PICK S : s \in Seq(S)
    BY DEF Finite
  <1>3. Len(s) \in Nat \ {0}
    BY <1>1, <1>2
  <1>4. NextFree \in Nat /\ NextFree >= STRBUF_USED
    BY RoundsUp, BootInfoAssumption, SMTT(30) DEF NextFree
  <1> QED BY <1>1, <1>3, <1>4 DEF Fits

-----------------------------------------------------------------------------
\* A span of bytes that are in use.
InUse(span) == /\ span.ptr \in Nat /\ span.len \in Nat \ {0}
               /\ span.ptr >= STRBUF /\ span.ptr + span.len <= STRBUF + STRBUF_USED

InfoFields == {"boot_mode", "addr_bits", "hhdm_offset", "mem", "acpi_rsdp", "fb_addr",
               "cmdline", "bootloader", "truncated"}

\* The fields of minimal_bootinfo.
LEMMA MinimalFields ==
  /\ DOMAIN minimal_bootinfo = InfoFields
  /\ minimal_bootinfo.cmdline = Empty /\ minimal_bootinfo.bootloader = Empty
  /\ minimal_bootinfo.hhdm_offset = 0 /\ minimal_bootinfo.boot_mode = as_raw("Unknown")
  /\ minimal_bootinfo.mem = EmptyView
  BY DEF minimal_bootinfo, InfoFields

\* The command line comes first, and everything up to STRBUF_USED is in use.
SpanInv ==
  /\ DOMAIN info = InfoFields
  /\ STRBUF_USED \in 0 .. STRBUF_SIZE
  /\ step \in {"start", "memmap", "cmdline"} => info.cmdline = Empty
  /\ step \in {"start", "memmap", "cmdline", "bootloader"} => info.bootloader = Empty
  /\ info.cmdline = Empty \/ InUse(info.cmdline)
  /\ SpansDisjoint

\* Every step keeps the strings apart.
LEMMA NextSpans ==
  ASSUME SpanInv, [Next]_vars PROVE SpanInv'
  <1> STRBUF \in Nat \ {0} /\ STRBUF_SIZE \in Nat
    BY BootInfoAssumption
  <1>1. CASE start
    <2>1. /\ step = "start" /\ step' \in {"memmap", "print"} /\ UNCHANGED STRBUF_USED
          /\ DOMAIN info' = InfoFields /\ info'.cmdline = Empty /\ info'.bootloader = Empty
      <3>1. CASE req.supported
        BY <1>1, <3>1, Zenon DEF start, SpanInv, InfoFields
      <3>2. CASE ~req.supported
        BY <1>1, <3>2, MinimalFields DEF start
      <3> QED BY <3>1, <3>2
    <2> QED BY <2>1 DEF SpanInv, SpansDisjoint, Bytes
  <1>2. CASE convert_memmap_entries
    <2>1. /\ step = "memmap" /\ step' = "cmdline" /\ UNCHANGED STRBUF_USED
          /\ DOMAIN info' = InfoFields /\ info'.cmdline = Empty /\ info'.bootloader = Empty
      BY <1>2, Zenon DEF convert_memmap_entries, SpanInv, InfoFields
    <2> QED BY <2>1 DEF SpanInv, SpansDisjoint, Bytes
  <1>3. CASE copy_cmdline
    <2>1. /\ step = "cmdline" /\ step' = "bootloader" /\ Store(Cmdline)
          /\ DOMAIN info' = InfoFields /\ info'.cmdline = SpanFor(Cmdline)
          /\ info'.bootloader = Empty
      BY <1>3 DEF copy_cmdline, SpanInv, InfoFields
    <2>2. CASE SpanFor(Cmdline) = Empty
      <3>1. UNCHANGED STRBUF_USED
        BY <2>1, <2>2 DEF Store
      <3> QED BY <2>1, <2>2, <3>1 DEF SpanInv, SpansDisjoint, Bytes
    <2>3. CASE SpanFor(Cmdline) # Empty
      <3>1. STRBUF_USED' = NextFree + Len(Cmdline)
        BY <2>1, <2>3 DEF Store
      <3>2. /\ SpanFor(Cmdline) = [ptr |-> STRBUF + NextFree, len |-> Len(Cmdline)]
            /\ Len(Cmdline) \in Nat \ {0} /\ NextFree \in Nat
            /\ NextFree + Len(Cmdline) <= STRBUF_SIZE
        BY <2>3, SpanPlace, TextsFinite DEF SpanInv
      <3>3. PICK n \in Nat \ {0}, f \in Nat : n = Len(Cmdline) /\ f = NextFree
        BY <3>2
      <3>4. /\ info'.cmdline.ptr = STRBUF + f /\ info'.cmdline.len = n /\ STRBUF_USED' = f + n
            /\ f + n <= STRBUF_SIZE
        BY <2>1, <3>1, <3>2, <3>3
      <3> QED BY <2>1, <3>4 DEF SpanInv, SpansDisjoint, Bytes, InUse, Empty
    <2> QED BY <2>2, <2>3
  <1>4. CASE copy_bootloader
    <2>1. /\ step = "bootloader" /\ step' = "print" /\ Store(Loader)
          /\ DOMAIN info' = InfoFields /\ info'.bootloader = SpanFor(Loader)
          /\ info'.cmdline = info.cmdline
      BY <1>4 DEF copy_bootloader, SpanInv, InfoFields
    <2>2. CASE SpanFor(Loader) = Empty
      <3>1. UNCHANGED STRBUF_USED
        BY <2>1, <2>2 DEF Store
      <3> QED BY <2>1, <2>2, <3>1 DEF SpanInv, SpansDisjoint, Bytes, InUse
    <2>3. CASE SpanFor(Loader) # Empty
      <3>1. STRBUF_USED' = NextFree + Len(Loader)
        BY <2>1, <2>3 DEF Store
      <3>2. /\ SpanFor(Loader) = [ptr |-> STRBUF + NextFree, len |-> Len(Loader)]
            /\ Len(Loader) \in Nat \ {0} /\ NextFree \in Nat /\ NextFree >= STRBUF_USED
            /\ NextFree + Len(Loader) <= STRBUF_SIZE
        BY <2>3, SpanPlace, TextsFinite DEF SpanInv
      <3>3. PICK n \in Nat \ {0}, f \in Nat : n = Len(Loader) /\ f = NextFree
        BY <3>2
      <3>4. /\ info'.bootloader.ptr = STRBUF + f /\ info'.bootloader.len = n
            /\ STRBUF_USED' = f + n /\ f + n <= STRBUF_SIZE /\ f >= STRBUF_USED
        BY <2>1, <3>1, <3>2, <3>3
      <3>5. Bytes(info'.bootloader) = (STRBUF + f) .. (STRBUF + f + n - 1)
        BY <3>4 DEF Bytes, Empty
      <3>6. Bytes(info'.cmdline) \subseteq STRBUF .. (STRBUF + STRBUF_USED - 1)
        <4>1. CASE info.cmdline = Empty
          BY <2>1, <4>1 DEF Bytes
        <4>2. CASE info.cmdline # Empty
          <5>1. InUse(info.cmdline) /\ STRBUF_USED \in Nat
            BY <4>2 DEF SpanInv
          <5> QED BY <2>1, <4>2, <5>1 DEF Bytes, InUse
        <4> QED BY <4>1, <4>2
      <3>7. SpansDisjoint'
        <4>1. STRBUF_USED \in Nat
          BY DEF SpanInv
        <4>2. Bytes(info'.cmdline) \cap Bytes(info'.bootloader) = {}
          BY <3>4, <3>5, <3>6, <4>1
        <4>3. Bytes(info'.cmdline) \cup Bytes(info'.bootloader)
                \subseteq STRBUF .. (STRBUF + STRBUF_SIZE - 1)
          BY <3>4, <3>5, <3>6, <4>1
        <4> QED BY <4>2, <4>3 DEF SpansDisjoint, Bytes
      <3>8. info'.cmdline = Empty \/ InUse(info.cmdline)'
        BY <2>1, <3>4 DEF SpanInv, InUse
      <3> QED BY <2>1, <3>4, <3>7, <3>8 DEF SpanInv
    <2> QED BY <2>2, <2>3
  <1>5. CASE print_boot_info \/ vm_init \/ UNCHANGED vars
    <2>1. /\ UNCHANGED <<info, STRBUF_USED>>
          /\ step' = step \/ step' \notin {"start", "memmap", "cmdline", "bootloader"}
      BY <1>5 DEF print_boot_info, vm_init, vars
    <2> QED BY <2>1 DEF SpanInv, SpansDisjoint, Bytes, InUse
  <1> QED BY <1>1, <1>2, <1>3, <1>4, <1>5 DEF Next

\* For every memory and every answer of the bootloader, whatever the sizes and the
\* alignment, the command line and the bootloader's name lie in the buffer and do not
\* overlap.
THEOREM StringsApart == Spec => []SpansDisjoint
  <1>1. Init => SpanInv
    BY BootInfoAssumption, MinimalFields DEF Init, SpanInv, SpansDisjoint, Bytes
  <1>2. SpanInv /\ [Next]_vars => SpanInv'
    BY NextSpans
  <1>3. SpanInv => SpansDisjoint
    BY DEF SpanInv
  <1> QED BY <1>1, <1>2, <1>3, PTL DEF Spec

-----------------------------------------------------------------------------
HasMap == req.memmap # None /\ req.memmap # <<>>

\* What the view of the memory map says after convert_memmap_entries.
CopiedView == [entries_ptr |-> MEMBUF, entry_count |-> Copied, entry_size |-> ENTRY_SIZE,
               truncated |-> Len(req.memmap) > Copied]

MapCopied ==
  /\ ~HasMap => info.mem = EmptyView
  /\ HasMap => /\ info.mem = CopiedView /\ info.truncated = (Len(req.memmap) > Copied)
               /\ \A i \in 1 .. Copied :
                    membuf[i] = [req.memmap[i] EXCEPT !.type = map_memtype(@)]

\* How far BootInfo agrees with the answers of the bootloader at each step.
Gathered ==
  /\ req \in Requests /\ step \in Steps /\ DOMAIN info = InfoFields
  /\ step = "start" => info = minimal_bootinfo
  /\ ~req.supported => /\ step \notin {"memmap", "cmdline", "bootloader"}
                       /\ info = minimal_bootinfo
  /\ req.supported /\ step # "start" =>
       info.boot_mode = as_raw(boot_mode) /\ info.hhdm_offset = req.hhdm
  /\ step = "memmap" => info.mem = EmptyView
  /\ req.supported /\ step \notin {"start", "memmap"} => MapCopied

\* What the kernel has made of BootInfo.
Taken ==
  /\ step \in {"start", "memmap", "cmdline", "bootloader", "print"} => shown = None
  /\ shown # None => /\ shown.mode = from_raw(info.boot_mode)
                     /\ shown.entries = print_entries
                     /\ shown.truncated = info.mem.truncated
  /\ step # "up" => alloc = None
  /\ step = "up" => /\ ~Refused /\ alloc.hhdm_offset = info.hhdm_offset
                    /\ alloc.entry_count = info.mem.entry_count
                    /\ alloc.entries_ptr = info.mem.entries_ptr
  /\ step = "panic" => Refused

\* The copied part of the memory map.
LEMMA CopiedBounds ==
  ASSUME req \in Requests, HasMap
  PROVE  /\ Len(req.memmap) \in Nat \ {0} /\ DOMAIN req.memmap = 1 .. Len(req.memmap)
         /\ Copied \in 1 .. MAX_MEMMAP /\ Copied <= Len(req.memmap)
         /\ Len(req.memmap) <= MAX_MEMMAP => Copied = Len(req.memmap)
         /\ \A i \in 1 .. Copied : req.memmap[i] \in LimineEntry
  <1>1. req.memmap \in Seq(LimineEntry) /\ MAX_MEMMAP \in Nat \ {0}
    BY BootInfoAssumption DEF HasMap
  <1>2. Len(req.memmap) \in Nat \ {0} /\ DOMAIN req.memmap = 1 .. Len(req.memmap)
    BY <1>1 DEF HasMap
  <1>3. /\ Copied \in 1 .. MAX_MEMMAP /\ Copied <= Len(req.memmap)
        /\ Len(req.memmap) <= MAX_MEMMAP => Copied = Len(req.memmap)
    BY <1>1, <1>2 DEF Copied, MinOf
  <1> QED BY <1>1, <1>2, <1>3

\* Every step of gather_bootinfo keeps BootInfo in agreement with the answers.
LEMMA NextGathered ==
  ASSUME Gathered, [Next]_vars PROVE Gathered'
  <1>1. CASE start
    <2>1. CASE req.supported
      <3>1. /\ step = "start" /\ step' = "memmap" /\ req' = req /\ DOMAIN info' = InfoFields
            /\ info'.boot_mode = as_raw(boot_mode) /\ info'.hhdm_offset = req.hhdm
            /\ info'.mem = info.mem
        BY <1>1, <2>1, Zenon DEF start, Gathered, InfoFields
      <3>2. info.mem = EmptyView
        BY <3>1, MinimalFields DEF Gathered
      <3>3. boot_mode' = boot_mode
        BY <3>1, Zenon DEF boot_mode
      <3> QED BY <2>1, <3>1, <3>2, <3>3 DEF Gathered, Steps
    <2>2. CASE ~req.supported
      <3>1. step' = "print" /\ req' = req /\ info' = minimal_bootinfo
        BY <1>1, <2>2 DEF start
      <3> QED BY <2>2, <3>1, MinimalFields DEF Gathered, Steps
    <2> QED BY <2>1, <2>2
  <1>2. CASE convert_memmap_entries
    <2>1. /\ step = "memmap" /\ step' = "cmdline" /\ req' = req /\ req.supported
          /\ boot_mode' = boot_mode
      BY <1>2, Zenon DEF convert_memmap_entries, Gathered, boot_mode
    <2>2. /\ DOMAIN info' = InfoFields
          /\ info'.boot_mode = info.boot_mode /\ info'.hhdm_offset = info.hhdm_offset
      BY <1>2, Zenon DEF convert_memmap_entries, Gathered, InfoFields
    <2>3. MapCopied'
      <3>1. HasMap' = HasMap /\ Copied' = Copied /\ CopiedView' = CopiedView
        BY <2>1, Zenon DEF HasMap, Copied, CopiedView
      <3>2. CASE ~HasMap
        <4>1. info' = info
          BY <1>2, <3>2 DEF convert_memmap_entries, HasMap
        <4> QED BY <2>1, <3>1, <3>2, <4>1 DEF MapCopied, Gathered
      <3>3. CASE HasMap
        <4>1. /\ membuf' = [i \in 1 .. MAX_MEMMAP |->
                              IF i <= Copied
                                THEN [req.memmap[i] EXCEPT !.type = map_memtype(@)]
                                ELSE membuf[i]]
              /\ view' = CopiedView
              /\ info' = [info EXCEPT !.mem = view', !.truncated = Len(req.memmap) > Copied]
          BY <1>2, <3>3, Zenon DEF convert_memmap_entries, HasMap, CopiedView
        <4>2. info'.mem = CopiedView /\ info'.truncated = (Len(req.memmap) > Copied)
          BY <4>1 DEF Gathered, InfoFields
        <4>3. \A i \in 1 .. Copied : i \in 1 .. MAX_MEMMAP /\ i <= Copied
          <5>1. Copied \in 1 .. MAX_MEMMAP /\ MAX_MEMMAP \in Nat
            BY <3>3, CopiedBounds, BootInfoAssumption DEF Gathered
          <5> QED BY <5>1
        <4>4. \A i \in 1 .. Copied :
                membuf'[i] = [req.memmap[i] EXCEPT !.type = map_memtype(@)]
          BY <4>1, <4>3, Zenon
        <4> QED BY <2>1, <3>1, <3>3, <4>2, <4>4 DEF MapCopied
      <3> QED BY <3>2, <3>3
    <2> QED BY <2>1, <2>2, <2>3 DEF Gathered, Steps
  <1>3. CASE copy_cmdline \/ copy_bootloader
    <2>1. /\ step \in {"cmdline", "bootloader"} /\ step' \in {"bootloader", "print"}
          /\ UNCHANGED <<req, membuf>> /\ DOMAIN info' = InfoFields
          /\ info'.boot_mode = info.boot_mode /\ info'.hhdm_offset = info.hhdm_offset
          /\ info'.mem = info.mem /\ info'.truncated = info.truncated
      BY <1>3 DEF copy_cmdline, copy_bootloader, Gathered, InfoFields
    <2>2. req.supported
      BY <2>1 DEF Gathered
    <2>3. boot_mode' = boot_mode /\ MapCopied' = MapCopied
      BY <2>1, Zenon DEF boot_mode, MapCopied, HasMap, CopiedView, Copied
    <2> QED BY <2>1, <2>2, <2>3 DEF Gathered, Steps
  <1>4. CASE print_boot_info \/ vm_init \/ UNCHANGED vars
    <2>1. /\ UNCHANGED <<req, membuf, info>>
          /\ step' = step \/ (step \in {"print", "vm_init"} /\ step' \in {"vm_init", "up", "panic"})
      BY <1>4 DEF print_boot_info, vm_init, vars
    <2>2. boot_mode' = boot_mode /\ MapCopied' = MapCopied
      BY <2>1, Zenon DEF boot_mode, MapCopied, HasMap, CopiedView, Copied
    <2> QED BY <2>1, <2>2 DEF Gathered, Steps
  <1> QED BY <1>1, <1>2, <1>3, <1>4 DEF Next

\* The kernel's steps take over what BootInfo says, and the others come before them.
LEMMA NextTaken ==
  ASSUME Taken, [Next]_vars PROVE Taken'
  <1>1. CASE start \/ convert_memmap_entries \/ copy_cmdline \/ copy_bootloader
    <2>1. /\ step \in {"start", "memmap", "cmdline", "bootloader"} /\ UNCHANGED kernel
          /\ step' \in {"memmap", "cmdline", "bootloader", "print"}
      BY <1>1 DEF start, convert_memmap_entries, copy_cmdline, copy_bootloader
    <2>2. shown' = None /\ alloc' = None
      BY <2>1 DEF Taken, kernel
    <2> QED BY <2>1, <2>2 DEF Taken
  <1>2. CASE print_boot_info
    <2>1. /\ step = "print" /\ step' = "vm_init" /\ UNCHANGED <<membuf, info, alloc>>
          /\ shown'.mode = from_raw(info.boot_mode) /\ shown'.entries = print_entries
          /\ shown'.truncated = info.mem.truncated
      BY <1>2 DEF print_boot_info
    <2>2. print_entries' = print_entries
      BY <2>1, Zenon DEF print_entries
    <2> QED BY <2>1, <2>2 DEF Taken
  <1>3. CASE vm_init
    <2>1. /\ step = "vm_init" /\ UNCHANGED <<membuf, info, shown>>
          /\ \/ Refused /\ step' = "panic" /\ alloc' = alloc
             \/ /\ ~Refused /\ step' = "up" /\ alloc'.hhdm_offset = info.hhdm_offset
                /\ alloc'.entry_count = info.mem.entry_count
                /\ alloc'.entries_ptr = info.mem.entries_ptr
      BY <1>3 DEF vm_init
    <2>2. print_entries' = print_entries /\ Refused' = Refused
      BY <2>1, Zenon DEF print_entries, Refused
    <2> QED BY <2>1, <2>2 DEF Taken
  <1>4. CASE UNCHANGED vars
    <2>1. UNCHANGED <<step, membuf, info, shown, alloc>>
      BY <1>4, Zenon DEF vars, kernel
    <2>2. print_entries' = print_entries /\ Refused' = Refused
      BY <2>1, Zenon DEF print_entries, Refused
    <2> QED BY <2>1, <2>2 DEF Taken
  <1> QED BY <1>1, <1>2, <1>3, <1>4 DEF Next

\* Both hold throughout.
THEOREM GatheredAndTaken == Spec => [](Gathered /\ Taken)
  <1>1. Init => Gathered /\ Taken
    BY MinimalFields DEF Init, Gathered, Taken, Steps
  <1>2. Gathered /\ Taken /\ [Next]_vars => (Gathered /\ Taken)'
    BY NextGathered, NextTaken
  <1> QED BY <1>1, <1>2, PTL DEF Spec

\* The kernel reads the mode that was written.
LEMMA ModeReadBack ==
  from_raw(as_raw(boot_mode)) = boot_mode /\ from_raw(as_raw("Unknown")) = "Unknown"
  <1>1. boot_mode \in {"Bios", "Uefi", "Unknown"}
    BY DEF boot_mode
  <1> QED BY <1>1 DEF as_raw, from_raw

\* For every answer of the bootloader, the kernel gets through vm::init exactly when it has
\* a supported bootloader, a direct map and a memory map; otherwise it panics, and it shows
\* the boot mode of the firmware.
THEOREM StartsExactlyWhenAnswered == Spec => []StartsOrPanics
  <1>1. Gathered /\ Taken => StartsOrPanics
    <2> SUFFICES ASSUME Gathered, Taken PROVE StartsOrPanics
      OBVIOUS
    <2> DEFINE answered == req.supported /\ req.hhdm # 0 /\ HasMap
    <2>0. MEMBUF # 0 /\ ENTRY_SIZE = 24
      BY BootInfoAssumption DEF ENTRY_SIZE
    <2>1. step \in {"up", "panic"} => (Refused <=> ~answered)
      <3> SUFFICES ASSUME step \in {"up", "panic"} PROVE Refused <=> ~answered
        OBVIOUS
      <3>1. CASE ~req.supported
        BY <3>1, MinimalFields DEF Refused, Gathered
      <3>2. CASE req.supported /\ ~HasMap
        <4>1. info.mem = EmptyView
          BY <3>2 DEF Gathered, MapCopied
        <4> QED BY <3>2, <4>1 DEF Refused, EmptyView
      <3>3. CASE req.supported /\ HasMap
        <4>1. info.mem = CopiedView /\ info.hhdm_offset = req.hhdm
          BY <3>3 DEF Gathered, MapCopied
        <4>2. Copied # 0
          BY <3>3, CopiedBounds, BootInfoAssumption DEF Gathered
        <4> QED BY <2>0, <3>3, <4>1, <4>2 DEF Refused, CopiedView
      <3> QED BY <3>1, <3>2, <3>3
    <2>2. step = "up" => answered /\ alloc.hhdm_offset = req.hhdm
      BY <2>1 DEF Gathered, Taken
    <2>3. step = "panic" => ~answered /\ alloc = None
      BY <2>1 DEF Taken
    <2>4. shown # None => shown.mode = IF req.supported THEN boot_mode ELSE "Unknown"
      <3> SUFFICES ASSUME shown # None
                   PROVE  shown.mode = IF req.supported THEN boot_mode ELSE "Unknown"
        OBVIOUS
      <3>1. step # "start" /\ shown.mode = from_raw(info.boot_mode)
        BY DEF Taken
      <3>2. CASE req.supported
        BY <3>1, <3>2, ModeReadBack DEF Gathered
      <3>3. CASE ~req.supported
        BY <3>1, <3>3, ModeReadBack, MinimalFields DEF Gathered
      <3> QED BY <3>2, <3>3
    <2> QED BY <2>2, <2>3, <2>4 DEF StartsOrPanics, HasMap
  <1> QED BY <1>1, GatheredAndTaken, PTL

\* map_memtype keeps apart what the kernel allocates from.
LEMMA TypesKept ==
  ASSUME NEW e \in LimineEntry, NEW c,
         c = [base |-> e.base, len |-> e.len, type |-> map_memtype(e.type)]
  PROVE  /\ c \in MemMapEntry /\ c.base = e.base /\ c.len = e.len
         /\ c.type = "Usable" <=> e.type = "Usable"
         /\ c.type = "BootloaderReclaimable" <=> e.type = "BootloaderReclaimable"
  <1>1. \A t \in LimineType :
          /\ map_memtype(t) \in MemType
          /\ map_memtype(t) = "Usable" <=> t = "Usable"
          /\ map_memtype(t) = "BootloaderReclaimable" <=> t = "BootloaderReclaimable"
    BY DEF map_memtype, MemType, LimineType
  <1>2. /\ e.base \in Nat /\ e.len \in Nat /\ e.type \in LimineType
    BY DEF LimineEntry
  <1>3. c.base = e.base /\ c.len = e.len /\ c.type = map_memtype(e.type)
    OBVIOUS
  <1>4. c \in MemMapEntry
    <2>1. PICK m \in MemType : m = map_memtype(e.type)
      BY <1>1, <1>2, Zenon
    <2>2. c = [base |-> e.base, len |-> e.len, type |-> m]
      BY <2>1, Zenon
    <2> QED BY <1>2, <2>2 DEF MemMapEntry
  <1>5. /\ c.type = "Usable" <=> e.type = "Usable"
        /\ c.type = "BootloaderReclaimable" <=> e.type = "BootloaderReclaimable"
    BY <1>1, <1>2, <1>3, Zenon
  <1> QED BY <1>3, <1>4, <1>5, Zenon

\* For every answer of the bootloader and every size of the buffer, the memory map that the
\* kernel prints and allocates from is the bootloader's, entry for entry, and is marked as
\* truncated exactly if entries are missing.
THEOREM MapAlwaysFaithful == Spec => []MapFaithful
  <1>1. Gathered /\ Taken => MapFaithful
    <2> SUFFICES ASSUME Gathered, Taken, shown # None, req.supported, HasMap
                 PROVE  /\ shown.entries # None
                        /\ \A i \in DOMAIN shown.entries :
                             /\ shown.entries[i].base = req.memmap[i].base
                             /\ shown.entries[i].len = req.memmap[i].len
                             /\ \A t \in {"Usable", "BootloaderReclaimable"} :
                                  shown.entries[i].type = t <=> req.memmap[i].type = t
                        /\ shown.truncated <=> DOMAIN shown.entries # DOMAIN req.memmap
                        /\ info.truncated <=> shown.truncated
                        /\ Len(req.memmap) <= MAX_MEMMAP => ~shown.truncated
                        /\ alloc # None => /\ alloc.entry_count = Len(shown.entries)
                                           /\ alloc.entries_ptr = MEMBUF
      BY DEF MapFaithful, HasMap
    <2>1. MapCopied
      BY DEF Gathered, Taken
    <2>2. /\ info.mem.entries_ptr = MEMBUF /\ info.mem.entry_count = Copied
          /\ info.mem.entry_size = ENTRY_SIZE
          /\ info.mem.truncated = (Len(req.memmap) > Copied)
          /\ info.truncated = (Len(req.memmap) > Copied)
      BY <2>1 DEF MapCopied, CopiedView
    <2>3. /\ Len(req.memmap) \in Nat \ {0} /\ DOMAIN req.memmap = 1 .. Len(req.memmap)
          /\ Copied \in Nat \ {0} /\ Copied <= Len(req.memmap)
          /\ Len(req.memmap) <= MAX_MEMMAP => Copied = Len(req.memmap)
          /\ \A i \in 1 .. Copied : req.memmap[i] \in LimineEntry
      BY CopiedBounds, BootInfoAssumption DEF Gathered
    <2>4. shown.entries = [i \in 1 .. Copied |-> membuf[i]]
      BY <2>2, <2>3, BootInfoAssumption DEF Taken, print_entries
    <2>5. \A i \in 1 .. Copied :
            shown.entries[i] = [req.memmap[i] EXCEPT !.type = map_memtype(@)]
      BY <2>1, <2>4 DEF MapCopied
    <2>6. \A i \in 1 .. Copied :
            /\ shown.entries[i] \in MemMapEntry
            /\ shown.entries[i].base = req.memmap[i].base
            /\ shown.entries[i].len = req.memmap[i].len
            /\ \A t \in {"Usable", "BootloaderReclaimable"} :
                 shown.entries[i].type = t <=> req.memmap[i].type = t
      <3> TAKE i \in 1 .. Copied
      <3>1. PICK e \in LimineEntry : e = req.memmap[i]
        BY <2>3
      <3>2. shown.entries[i] = [e EXCEPT !.type = map_memtype(@)]
        BY <2>5, <3>1, Zenon
      <3>3. PICK c : c = shown.entries[i]
        OBVIOUS
      <3>4. c = [base |-> e.base, len |-> e.len, type |-> map_memtype(e.type)]
        BY <3>2, <3>3 DEF LimineEntry
      <3>5. /\ c \in MemMapEntry /\ c.base = e.base /\ c.len = e.len
            /\ \A t \in {"Usable", "BootloaderReclaimable"} : c.type = t <=> e.type = t
        <4>1. /\ c \in MemMapEntry /\ c.base = e.base /\ c.len = e.len
              /\ c.type = "Usable" <=> e.type = "Usable"
              /\ c.type = "BootloaderReclaimable" <=> e.type = "BootloaderReclaimable"
          BY <3>4, TypesKept
        <4> QED BY <4>1, Zenon
      <3> QED BY <3>1, <3>3, <3>5
    <2>7. shown.entries \in Seq(MemMapEntry) /\ Len(shown.entries) = Copied
      BY <2>3, <2>4, <2>6
    <2>8. shown.entries # None
      BY <2>7, BootInfoAssumption
    <2>9. shown.truncated = (Len(req.memmap) > Copied)
      BY <2>2 DEF Taken
    <2>10. Len(req.memmap) > Copied <=> 1 .. Copied # 1 .. Len(req.memmap)
      BY <2>3
    <2>11. alloc # None => alloc.entry_count = Copied /\ alloc.entries_ptr = MEMBUF
      BY <2>2 DEF Taken
    <2>12. DOMAIN shown.entries = 1 .. Copied
      BY <2>4
    <2> QED BY <2>2, <2>3, <2>6, <2>7, <2>8, <2>9, <2>10, <2>11, <2>12, Zenon
  <1> QED BY <1>1, GatheredAndTaken, PTL

-----------------------------------------------------------------------------
\* The kernel's view of the memory map, the bytes in use, and the two spans.
ViewInv ==
  /\ view = IF req.supported /\ HasMap /\ step \notin {"start", "memmap"} THEN CopiedView ELSE EmptyView
  /\ step \in {"start", "memmap", "cmdline"} => STRBUF_USED = 0
  /\ ~req.supported => STRBUF_USED = 0
  /\ info.bootloader = Empty \/ InUse(info.bootloader)

\* Every step keeps the view.
LEMMA NextView ==
  ASSUME SpanInv, Gathered, ViewInv, [Next]_vars PROVE ViewInv'
  <1> STRBUF \in Nat \ {0} /\ STRBUF_SIZE \in Nat
    BY BootInfoAssumption
  <1>1. (req' = req) => (HasMap' = HasMap /\ CopiedView' = CopiedView)
    BY Zenon DEF HasMap, CopiedView, Copied
  <1>2. CASE start
    <2>1. /\ step = "start" /\ UNCHANGED <<req, view, STRBUF_USED>> /\ step' \in {"memmap", "print"}
          /\ req.supported => step' = "memmap"
      BY <1>2, Zenon DEF start
    <2>2. info'.bootloader = Empty
      <3>1. CASE req.supported BY <1>2, <2>1, <3>1, Zenon DEF start, SpanInv, InfoFields
      <3>2. CASE ~req.supported BY <1>2, <3>2, MinimalFields DEF start
      <3> QED BY <3>1, <3>2
    <2>3. view = EmptyView /\ STRBUF_USED = 0 BY <2>1 DEF ViewInv
    <2> QED BY <1>1, <2>1, <2>2, <2>3, Zenon DEF ViewInv
  <1>3. CASE convert_memmap_entries
    <2>1. /\ step = "memmap" /\ step' = "cmdline" /\ UNCHANGED <<req, STRBUF_USED>> /\ req.supported
      BY <1>3 DEF convert_memmap_entries, Gathered
    <2>2. view' = IF HasMap THEN CopiedView ELSE view
      BY <1>3, Zenon DEF convert_memmap_entries, HasMap, CopiedView
    <2>3. info'.bootloader = Empty
      BY <1>3, <2>1, Zenon DEF convert_memmap_entries, SpanInv, InfoFields
    <2>4. view = EmptyView /\ STRBUF_USED = 0 BY <2>1 DEF ViewInv
    <2> QED BY <1>1, <2>1, <2>2, <2>3, <2>4 DEF ViewInv
  <1>4. CASE copy_cmdline
    <2>1. /\ step = "cmdline" /\ step' = "bootloader" /\ UNCHANGED <<req, view>> /\ req.supported
      BY <1>4 DEF copy_cmdline, Gathered
    <2>2. info'.bootloader = Empty
      BY <1>4, <2>1, Zenon DEF copy_cmdline, SpanInv, InfoFields
    <2> QED BY <1>1, <2>1, <2>2 DEF ViewInv
  <1>5. CASE copy_bootloader
    <2>1. /\ step = "bootloader" /\ step' = "print" /\ UNCHANGED <<req, view>> /\ req.supported
      BY <1>5 DEF copy_bootloader, Gathered
    <2>2. info'.bootloader = Empty \/ InUse(info.bootloader)'
      <3>1. Store(Loader) /\ info'.bootloader = SpanFor(Loader)
        BY <1>5 DEF copy_bootloader, SpanInv, InfoFields
      <3>2. CASE SpanFor(Loader) = Empty BY <3>1, <3>2
      <3>3. CASE SpanFor(Loader) # Empty
        <4>1. STRBUF_USED' = NextFree + Len(Loader)
          BY <3>1, <3>3 DEF Store
        <4>2. /\ SpanFor(Loader) = [ptr |-> STRBUF + NextFree, len |-> Len(Loader)]
              /\ Len(Loader) \in Nat \ {0} /\ NextFree \in Nat
          BY <3>3, SpanPlace, TextsFinite DEF SpanInv
        <4>3. PICK n \in Nat \ {0}, f \in Nat : n = Len(Loader) /\ f = NextFree
          BY <4>2
        <4>4. info'.bootloader.ptr = STRBUF + f /\ info'.bootloader.len = n /\ STRBUF_USED' = f + n
          BY <3>1, <4>1, <4>2, <4>3
        <4> QED BY <4>4 DEF InUse
      <3> QED BY <3>2, <3>3
    <2> QED BY <1>1, <2>1, <2>2 DEF ViewInv
  <1>6. CASE print_boot_info \/ vm_init \/ UNCHANGED vars
    <2>1. /\ UNCHANGED <<req, view, info, STRBUF_USED>>
          /\ \/ step' = step
             \/ /\ step \notin {"start", "memmap", "cmdline"}
                /\ step' \notin {"start", "memmap", "cmdline"}
      BY <1>6 DEF print_boot_info, vm_init, vars
    <2>2. InUse(info.bootloader)' = InUse(info.bootloader) BY <2>1 DEF InUse
    <2> QED BY <1>1, <2>1, <2>2, SMTT(60) DEF ViewInv
  <1> QED BY <1>2, <1>3, <1>4, <1>5, <1>6 DEF Next

\* What is known of BootInfo before the strings are looked at.
THEOREM ViewKept == Spec => [](SpanInv /\ Gathered /\ Taken /\ ViewInv)
  <1>1. Init => SpanInv /\ Gathered /\ Taken /\ ViewInv
    <2> SUFFICES ASSUME Init PROVE SpanInv /\ Gathered /\ Taken /\ ViewInv BY SMTT(60)
    <2>1. SpanInv BY BootInfoAssumption, MinimalFields DEF Init, SpanInv, SpansDisjoint, Bytes
    <2>2. Gathered /\ Taken BY MinimalFields DEF Init, Gathered, Taken, Steps
    <2>3. ViewInv BY MinimalFields DEF Init, ViewInv
    <2> QED BY <2>1, <2>2, <2>3
  <1>2. SpanInv /\ Gathered /\ Taken /\ ViewInv /\ [Next]_vars
          => (SpanInv /\ Gathered /\ Taken /\ ViewInv)'
    BY NextSpans, NextGathered, NextTaken, NextView
  <1> QED BY <1>1, <1>2, PTL DEF Spec

\* For every answer of the bootloader: no entry of the memory map that the kernel may read
\* is uninitialised, and an unsupported bootloader leaves everything as it was.
THEOREM BootInfoTypeOK == Spec => []TypeOK
  <1>1. SpanInv /\ Gathered /\ ViewInv => TypeOK
    <2> SUFFICES ASSUME SpanInv, Gathered, ViewInv PROVE TypeOK OBVIOUS
    <2>1. STRBUF \in Nat /\ STRBUF_SIZE \in Nat /\ STRBUF_USED \in 0 .. STRBUF_SIZE /\ MAX_MEMMAP \in Nat
      BY BootInfoAssumption DEF SpanInv
    <2>2. \A f \in {"cmdline", "bootloader"} : info[f].len \in 0 .. STRBUF_SIZE
      <3>1. ASSUME NEW span, span = Empty \/ InUse(span) PROVE span.len \in 0 .. STRBUF_SIZE
        BY <2>1, <3>1 DEF InUse, Empty
      <3>2. info.cmdline = Empty \/ InUse(info.cmdline) BY DEF SpanInv
      <3>3. info.bootloader = Empty \/ InUse(info.bootloader) BY DEF ViewInv
      <3>4. info.cmdline.len \in 0 .. STRBUF_SIZE BY <3>1, <3>2
      <3>5. info.bootloader.len \in 0 .. STRBUF_SIZE BY <3>1, <3>3
      <3> QED BY <3>4, <3>5
    <2>3. CASE ~(req.supported /\ HasMap /\ step \notin {"start", "memmap"})
      <3>1. view = EmptyView BY <2>3 DEF ViewInv
      <3>2. view.entry_count = 0 /\ view.entries_ptr = 0 BY <3>1 DEF EmptyView
      <3>3. 1 .. view.entry_count = {} /\ view.entry_count \in 0 .. MAX_MEMMAP BY <2>1, <3>2
      <3>4. ~req.supported => info = minimal_bootinfo /\ STRBUF_USED = 0 BY DEF Gathered, ViewInv
      <3> QED BY <2>1, <2>2, <3>1, <3>2, <3>3, <3>4, Zenon DEF TypeOK, Gathered
    <2>4. CASE req.supported /\ HasMap /\ step \notin {"start", "memmap"}
      <3>1. view = CopiedView BY <2>4 DEF ViewInv
      <3>2. view.entry_count = Copied /\ view.entries_ptr = MEMBUF BY <3>1 DEF CopiedView
      <3>3. /\ Copied \in 1 .. MAX_MEMMAP /\ \A i \in 1 .. Copied : req.memmap[i] \in LimineEntry
        BY <2>4, CopiedBounds DEF Gathered
      <3>4. Copied \in 0 .. MAX_MEMMAP BY <2>1, <3>3
      <3>5. \A i \in 1 .. Copied : membuf[i] = [req.memmap[i] EXCEPT !.type = map_memtype(@)]
        BY <2>4, ZenonT(60) DEF Gathered, MapCopied
      <3>6. ASSUME NEW i \in 1 .. Copied PROVE membuf[i] # Uninit
        <4>1. PICK e \in LimineEntry : e = req.memmap[i] BY <3>3
        <4>2. PICK c : c = membuf[i] OBVIOUS
        <4>3. c = [e EXCEPT !.type = map_memtype(@)] BY <3>5, <4>1, <4>2, Zenon
        <4>4. c = [base |-> e.base, len |-> e.len, type |-> map_memtype(e.type)]
          BY <4>3 DEF LimineEntry
        <4>5. c \in MemMapEntry BY <4>4, TypesKept
        <4> QED BY <4>2, <4>5, MemoryAssumption, Zenon
      <3> QED BY <2>1, <2>2, <2>4, <3>2, <3>4, <3>6, Zenon DEF TypeOK, Gathered
    <2> QED BY <2>3, <2>4
  <1> QED BY <1>1, ViewKept, PTL

-----------------------------------------------------------------------------
\* The kernel's memory map is the bootloader's.
MapSeen ==
  /\ req \in Requests /\ HasMap /\ view = CopiedView
  /\ \A i \in 1 .. Copied : membuf[i] = [req.memmap[i] EXCEPT !.type = map_memtype(@)]

EndOf(i) == req.memmap[i].base + req.memmap[i].len

\* The entries that phys_available goes through.
LEMMA EntriesSeen ==
  ASSUME MapSeen
  PROVE  /\ DOMAIN Entries = 1 .. Copied /\ Copied \in Nat \ {0}
         /\ \A i \in 1 .. Copied : /\ req.memmap[i].base \in Nat /\ req.memmap[i].len \in Nat
                                   /\ Entries[i].base = req.memmap[i].base
                                   /\ End(i) = EndOf(i)
  <1>1. view.entry_count = Copied BY DEF MapSeen, CopiedView
  <1>2. Entries = [i \in 1 .. Copied |-> membuf[i]] BY <1>1 DEF Entries
  <1>3. Copied \in Nat \ {0} /\ \A i \in 1 .. Copied : req.memmap[i] \in LimineEntry
    BY CopiedBounds, BootInfoAssumption DEF MapSeen
  <1>4. ASSUME NEW i \in 1 .. Copied
        PROVE  /\ req.memmap[i].base \in Nat /\ req.memmap[i].len \in Nat
               /\ Entries[i].base = req.memmap[i].base /\ End(i) = EndOf(i)
    <2>1. PICK e \in LimineEntry : e = req.memmap[i] BY <1>3
    <2>2. Entries[i] = [e EXCEPT !.type = map_memtype(@)] BY <1>2, <2>1, Zenon DEF MapSeen
    <2>3. Entries[i].base = e.base /\ Entries[i].len = e.len /\ e.base \in Nat /\ e.len \in Nat
      BY <2>2 DEF LimineEntry
    <2> QED BY <2>1, <2>3 DEF End, EndOf
  <1> QED BY <1>2, <1>3, <1>4

\* phys_available finds the first entry that holds an address, unless one whose end
\* overflows comes before it, and what is left of that entry.
LEMMA Available ==
  ASSUME MapSeen, NEW p \in Nat
  PROVE  \/ phys_available(p) = None /\ \A i \in 1 .. Copied : ~StartsIn(i, p)
         \/ \E i \in 1 .. Copied : StartsIn(i, p) /\ phys_available(p) = EndOf(i) - p
  <1> DEFINE stops == {i \in DOMAIN Entries :
                         Overflows(i) \/ p \in Entries[i].base .. (End(i) - 1)}
             first == CHOOSE i \in stops : \A j \in stops : i <= j
  <1>1. /\ DOMAIN Entries = 1 .. Copied /\ Copied \in Nat
        /\ \A i \in 1 .. Copied : /\ Entries[i].base = req.memmap[i].base /\ End(i) = EndOf(i)
                                  /\ req.memmap[i].base \in Nat /\ EndOf(i) \in Nat
    BY EntriesSeen DEF EndOf
  <1>2. \A i : i \in stops <=> i \in 1 .. Copied /\ (EndOf(i) >= AddrLimit \/ p \in Extent(i))
    <2>1. ASSUME NEW i \in 1 .. Copied
          PROVE  /\ Overflows(i) <=> EndOf(i) >= AddrLimit
                 /\ Entries[i].base .. (End(i) - 1) = Extent(i)
      <3>1. Extent(i) = req.memmap[i].base .. (EndOf(i) - 1)
        <4>1. req.memmap[i].base \in Nat /\ req.memmap[i].len \in Nat BY EntriesSeen
        <4> QED BY <4>1, SMTT(60) DEF Extent, EndOf
      <3>2. Entries[i].base = req.memmap[i].base /\ End(i) = EndOf(i) BY <1>1
      <3> QED BY <3>1, <3>2, Zenon DEF Overflows
    <2> QED BY <1>1, <2>1, Zenon
  <1>3. phys_available(p) = IF stops = {} THEN None
                            ELSE IF Overflows(first) THEN None ELSE End(first) - p
    BY DEF phys_available
  <1>4. \A i \in 1 .. Copied : StartsIn(i, p) => /\ i \in stops
                                                 /\ \A j \in 1 .. i : EndOf(j) < AddrLimit
    BY <1>2 DEF StartsIn, EndOf
  <1>5. stops \subseteq Nat BY <1>1
  <1>6. AddrLimit \in Nat BY BootInfoAssumption
  <1> HIDE DEF stops
  <1>7. CASE stops = {} BY <1>3, <1>4, <1>7, Zenon
  <1>8. CASE stops # {}
    <2>1. first \in stops /\ \A j \in stops : first <= j BY <1>5, <1>8, LeastExists, Zenon
    <2> HIDE DEF first
    <2>2. first \in 1 .. Copied /\ End(first) = EndOf(first) /\ EndOf(first) \in Nat
      BY <1>1, <1>2, <2>1
    <2>3. CASE Overflows(first)
      <3>1. EndOf(first) >= AddrLimit BY <2>2, <2>3 DEF Overflows
      <3>2. ASSUME NEW i \in 1 .. Copied, StartsIn(i, p) PROVE FALSE
        <4>1. i \in stops /\ \A j \in 1 .. i : EndOf(j) < AddrLimit BY <1>4, <3>2
        <4>2. first \in 1 .. i BY <2>1, <2>2, <4>1
        <4> QED BY <1>6, <2>2, <3>1, <4>1, <4>2
      <3> QED BY <1>3, <1>8, <2>3, <3>2, Zenon
    <2>4. CASE ~Overflows(first)
      <3>1. EndOf(first) < AddrLimit BY <1>6, <2>2, <2>4 DEF Overflows
      <3>2. p \in Extent(first) BY <1>2, <1>6, <2>1, <2>2, <3>1
      <3>3. ASSUME NEW j \in 1 .. (first - 1) PROVE p \notin Extent(j) /\ EndOf(j) < AddrLimit
        <4>1. j \in 1 .. Copied /\ ~(first <= j) BY <1>1, <2>2
        <4>2. j \notin stops BY <2>1, <4>1
        <4> QED BY <1>1, <1>2, <1>6, <4>1, <4>2
      <3>4. \A j \in 1 .. first : EndOf(j) < AddrLimit
        <4>1. \A j \in 1 .. first : j = first \/ j \in 1 .. (first - 1) BY <2>2
        <4> QED BY <3>1, <3>3, <4>1, Zenon
      <3>5. StartsIn(first, p) BY <3>2, <3>3, <3>4, Zenon DEF StartsIn, EndOf
      <3>6. phys_available(p) = EndOf(first) - p BY <1>3, <1>8, <2>2, <2>4
      <3> QED BY <2>2, <3>5, <3>6
    <2> QED BY <2>3, <2>4
  <1> QED BY <1>7, <1>8

\* The bytes of a string of length n at physical address p.
Text(p, n) == [k \in 1 .. n |-> Memory[p + k - 1]]

\* resolve_limine_ptr: the address in the direct map, and what is left of its entry.
LEMMA Resolved ==
  ASSUME MapSeen, NEW ptr \in Nat, NEW a \in Nat, phys_available(PhysOf(ptr)) = a
  PROVE  \E v \in Nat : /\ resolve_limine_ptr(ptr) = [virt |-> v, max |-> a]
                        /\ resolve_limine_ptr(ptr) # None
                        /\ v - req.hhdm = PhysOf(ptr)
  <1>1. req.hhdm \in Nat BY BootInfoAssumption DEF MapSeen
  <1>2. PICK v \in Nat : v = IF ptr < req.hhdm THEN ptr + req.hhdm ELSE ptr BY <1>1
  <1>3. a # None BY MemoryAssumption, Zenon
  <1>4. resolve_limine_ptr(ptr) = [virt |-> v, max |-> a] BY <1>2, <1>3 DEF resolve_limine_ptr
  <1>5. [virt |-> v, max |-> a] \in [virt : Nat, max : Nat] OBVIOUS
  <1>6. [virt |-> v, max |-> a] # None BY <1>5, MemoryAssumption, Zenon
  <1>7. v - req.hhdm = PhysOf(ptr) BY <1>1, <1>2 DEF PhysOf
  <1> QED BY <1>4, <1>6, <1>7

\* cstr_view returns the bytes before the first NUL among those it may look at.
LEMMA ViewOfString ==
  ASSUME MapSeen, NEW ptr \in Nat, NEW p \in Nat, p = PhysOf(ptr),
         NEW a \in Nat, phys_available(p) = a, NEW n \in Nat, n = MinOf(a, MAX_STR_BYTES),
         NEW nul, nul = {k \in 0 .. (n - 1) : Memory[p + k] = NUL},
         NEW len, len = CHOOSE k \in nul : \A j \in nul : k <= j, nul # {} => len \in Nat
  PROVE  cstr_view(ptr) = IF ptr = 0 \/ nul = {} \/ len = 0 THEN None ELSE Text(p, len)
  <1>1. PICK v \in Nat : /\ resolve_limine_ptr(ptr) = [virt |-> v, max |-> a]
                         /\ resolve_limine_ptr(ptr) # None /\ v - req.hhdm = p
    BY Resolved
  <1>2. PICK r : r = resolve_limine_ptr(ptr) OBVIOUS
  <1>3. r # None /\ r.virt = v /\ r.max = a BY <1>1, <1>2
  <1>4. ScanLength(r) = n BY <1>3 DEF ScanLength
  <1>5. req.hhdm \in Nat BY BootInfoAssumption DEF MapSeen
  <1>6. \A k \in Nat : ByteAt(r.virt + k) = Memory[p + k]
    <2> TAKE k \in Nat
    <2>1. (r.virt + k) - req.hhdm = p + k BY <1>1, <1>3, <1>5
    <2> QED BY <2>1 DEF ByteAt
  <1>7. {k \in 0 .. (ScanLength(r) - 1) : ByteAt(r.virt + k) = NUL} = nul BY <1>4, <1>6
  <1>8. view.entries_ptr # 0 /\ view.entry_count # 0
    BY EntriesSeen, BootInfoAssumption DEF MapSeen, CopiedView
  <1>9. cstr_view(ptr) = IF ptr = 0 THEN None
                         ELSE IF nul = {} THEN None
                         ELSE IF len = 0 THEN None
                         ELSE [k \in 1 .. len |-> ByteAt(r.virt + k - 1)]
    BY <1>2, <1>3, <1>7, <1>8, ZenonT(60) DEF cstr_view
  <1>10. nul # {} => [k \in 1 .. len |-> ByteAt(r.virt + k - 1)] = Text(p, len)
    <2> SUFFICES ASSUME nul # {} PROVE [k \in 1 .. len |-> ByteAt(r.virt + k - 1)] = Text(p, len)
      OBVIOUS
    <2>1. ASSUME NEW k \in 1 .. len PROVE ByteAt(r.virt + k - 1) = Memory[p + k - 1]
      <3>1. k - 1 \in Nat /\ r.virt + k - 1 = r.virt + (k - 1) /\ p + k - 1 = p + (k - 1)
        BY <1>3
      <3> QED BY <1>6, <3>1
    <2> QED BY <2>1, Zenon DEF Text
  <1> QED BY <1>9, <1>10, Zenon

\* What cstr_view returns is the string that the pointer refers to, and it returns one
\* whenever there is one.
LEMMA StringFound ==
  ASSUME MapSeen, NEW ptr \in Nat
  PROVE  /\ cstr_view(ptr) # None => /\ IsCString(cstr_view(ptr), ptr)
                                     /\ cstr_view(ptr) \in Seq(Byte)
         /\ HasString(ptr) => cstr_view(ptr) # None
  <1>1. PICK p \in Nat : p = PhysOf(ptr)
    BY BootInfoAssumption DEF MapSeen, PhysOf
  <1>2. MAX_STR_BYTES \in Nat \ {0} /\ AddrLimit \in Nat BY BootInfoAssumption
  <1>3. CASE phys_available(p) = None /\ \A i \in 1 .. Copied : ~StartsIn(i, p)
    <2>1. resolve_limine_ptr(ptr) = None BY <1>1, <1>3, Zenon DEF resolve_limine_ptr
    <2>2. cstr_view(ptr) = None BY <2>1, Zenon DEF cstr_view
    <2>3. ~HasString(ptr) BY <1>1, <1>3, Zenon DEF HasString, InOneEntry
    <2> QED BY <2>2, <2>3
  <1>4. ASSUME NEW i \in 1 .. Copied, StartsIn(i, p), phys_available(p) = EndOf(i) - p
        PROVE  /\ cstr_view(ptr) # None => IsCString(cstr_view(ptr), ptr)
                                           /\ cstr_view(ptr) \in Seq(Byte)
               /\ HasString(ptr) => cstr_view(ptr) # None
    <2>1. /\ EndOf(i) \in Nat /\ EndOf(i) < AddrLimit /\ p < EndOf(i)
          /\ \A q \in Nat : q >= p => (q \in Extent(i) <=> q < EndOf(i))
      <3>1. Copied \in Nat /\ req.memmap[i].base \in Nat /\ req.memmap[i].len \in Nat
        BY EntriesSeen
      <3>2. Extent(i) = req.memmap[i].base .. (EndOf(i) - 1) /\ EndOf(i) \in Nat
        BY <3>1, SMTT(60) DEF Extent, EndOf
      <3>3. p \in Extent(i) /\ EndOf(i) < AddrLimit BY <1>4, <3>1 DEF StartsIn, EndOf
      <3> QED BY <3>1, <3>2, <3>3
    <2>2. PICK a \in Nat \ {0} : a = EndOf(i) - p BY <2>1
    <2>3. PICK n \in Nat : n = MinOf(a, MAX_STR_BYTES) BY <1>2, <2>2 DEF MinOf
    <2>4. n <= MAX_STR_BYTES /\ p + n <= EndOf(i) /\ (n = MAX_STR_BYTES \/ p + n = EndOf(i))
      BY <1>2, <2>1, <2>2, <2>3 DEF MinOf
    <2> DEFINE nul == {k \in 0 .. (n - 1) : Memory[p + k] = NUL}
               len == CHOOSE k \in nul : \A j \in nul : k <= j
    <2>5. nul # {} => len \in nul /\ \A j \in nul : len <= j
      <3>1. nul \subseteq Nat OBVIOUS
      <3> HIDE DEF nul
      <3> QED BY <3>1, LeastExists, Zenon
    <2>6. nul # {} => len \in 0 .. (n - 1) /\ Memory[p + len] = NUL
                      /\ \A k \in 0 .. (n - 1) : k < len => Memory[p + k] # NUL
      <3> HIDE DEF len
      <3> QED BY <2>5
    <2>7. cstr_view(ptr) = IF ptr = 0 \/ nul = {} \/ len = 0 THEN None ELSE Text(p, len)
      <3>1. PICK N : N = nul BY ZenonT(60)
      <3>2. PICK l : l = CHOOSE k \in N : \A j \in N : k <= j OBVIOUS
      <3>3. N = {k \in 0 .. (n - 1) : Memory[p + k] = NUL} BY <3>1
      <3>4. l = len BY <3>1, <3>2
      <3> HIDE DEF nul, len
      <3>5. N # {} => l \in Nat
        <4>1. N # {} => l \in 0 .. (n - 1) BY <2>6, <3>1, <3>4
        <4> QED BY <4>1
      <3>6. phys_available(p) = a BY <1>4, <2>2
      <3>7. a \in Nat BY <2>2
      <3>8. cstr_view(ptr) = IF ptr = 0 \/ N = {} \/ l = 0 THEN None ELSE Text(p, l)
        BY <1>1, <2>3, <3>2, <3>3, <3>5, <3>6, <3>7, ViewOfString, SMTT(60)
      <3> QED BY <3>1, <3>4, <3>8, Zenon
    <2>8. \A q \in p .. (EndOf(i) - 1) : q \in DOMAIN Memory
      <3>1. \A q \in p .. (EndOf(i) - 1) : q \in Extent(i) BY <2>1
      <3>2. i \in DOMAIN req.memmap BY CopiedBounds DEF MapSeen
      <3>3. req.memmap[i].base + req.memmap[i].len < AddrLimit BY <2>1 DEF EndOf
      <3>4. Extent(i) \subseteq DOMAIN Memory
        BY <3>2, <3>3, MemoryAssumption, Zenon DEF MapSeen, HasMap, Extent
      <3> QED BY <3>1, <3>4
    <2>9. ASSUME cstr_view(ptr) # None
          PROVE  IsCString(cstr_view(ptr), ptr) /\ cstr_view(ptr) \in Seq(Byte)
      <3>1. ptr # 0 /\ nul # {} /\ len # 0 /\ cstr_view(ptr) = Text(p, len) BY <2>7, <2>9
      <3>2. PICK l \in 1 .. (n - 1) : l = len
        <4>1. len \in 0 .. (n - 1) BY <2>6, <3>1
        <4> HIDE DEF nul, len
        <4>2. len \in 1 .. (n - 1) BY <3>1, <4>1
        <4> QED BY <4>2
      <3>3. Memory[p + l] = NUL /\ \A k \in 0 .. (n - 1) : k < l => Memory[p + k] # NUL
        BY <2>6, <3>1, <3>2
      <3> HIDE DEF nul, len
      <3>4. PICK s : s = cstr_view(ptr) OBVIOUS
      <3>5. s = [k \in 1 .. l |-> Memory[p + k - 1]] BY <3>1, <3>2, <3>4, Zenon DEF Text
      <3>6. \A k \in 1 .. l : Memory[p + k - 1] \in Byte /\ Memory[p + k - 1] # NUL
        <4> TAKE k \in 1 .. l
        <4>1. /\ k - 1 \in 0 .. (n - 1) /\ k - 1 < l /\ p + k - 1 = p + (k - 1)
              /\ p + k - 1 \in p .. (EndOf(i) - 1)
          BY <2>1, <2>4
        <4>2. Memory[p + (k - 1)] # NUL BY <3>3, <4>1, ZenonT(60)
        <4> QED BY <2>8, <4>1, <4>2 DEF Byte
      <3>7. s \in Seq(Byte) /\ Len(s) = l
        <4> DEFINE at(k) == Memory[p + k - 1]
        <4>1. \A k \in 1 .. l : at(k) \in Byte BY <3>6
        <4>2. s = [k \in 1 .. l |-> at(k)] BY <3>5
        <4> HIDE DEF at
        <4> QED BY <4>1, <4>2
      <3>8. \A k \in 1 .. l : s[k] = Memory[p + k - 1] BY <3>5
      <3>9. InOneEntry(p, p + l)
        <4>1. p + l \in Extent(i) BY <2>1, <2>4
        <4> QED BY <1>4, <4>1 DEF InOneEntry
      <3>10. l \in 1 .. (MAX_STR_BYTES - 1) BY <1>2, <2>4
      <3>11. IsCString(s, ptr)
        BY <1>1, <3>1, <3>3, <3>6, <3>7, <3>8, <3>9, <3>10, Zenon DEF IsCString
      <3> QED BY <3>4, <3>7, <3>11
    <2>10. ASSUME HasString(ptr) PROVE cstr_view(ptr) # None
      <3>1. PICK m \in 1 .. (MAX_STR_BYTES - 1) :
              /\ ptr # 0 /\ InOneEntry(p, p + m)
              /\ \A k \in 0 .. m : Memory[p + k] = NUL <=> k = m
        BY <1>1, <2>10, Zenon DEF HasString
      <3>2. PICK j \in 1 .. Copied : StartsIn(j, p) /\ p + m \in Extent(j)
        BY <3>1 DEF InOneEntry
      <3>3. j = i
        <4>1. p \in Extent(i) /\ p \in Extent(j)
              /\ (\A h \in 1 .. (i - 1) : p \notin Extent(h))
              /\ (\A h \in 1 .. (j - 1) : p \notin Extent(h))
          BY <1>4, <3>2, Zenon DEF StartsIn
        <4>2. Copied \in Nat BY EntriesSeen
        <4>3. j \notin 1 .. (i - 1) /\ i \notin 1 .. (j - 1) BY <4>1, Zenon
        <4> QED BY <4>2, <4>3
      <3>4. m \in Nat /\ p + m < EndOf(i) BY <1>2, <2>1, <3>2, <3>3
      <3>5. m \in nul BY <1>2, <2>1, <2>4, <3>1, <3>4
      <3>6. 0 \notin nul BY <1>2, <3>1
      <3>7. nul # {} /\ len # 0 BY <2>5, <3>5, <3>6
      <3> HIDE DEF nul, len
      <3>8. PICK l : l = len OBVIOUS
      <3>9. cstr_view(ptr) = Text(p, l) BY <2>7, <3>1, <3>7, <3>8
      <3>10. l \in 1 .. (n - 1) BY <2>6, <3>7, <3>8
      <3>11. \A k \in 1 .. l : Memory[p + k - 1] \in Byte
        <4> TAKE k \in 1 .. l
        <4>1. p + k - 1 \in p .. (EndOf(i) - 1) BY <2>1, <2>4, <3>10
        <4> QED BY <2>8, <4>1 DEF Byte
      <3>12. Text(p, l) \in Seq(Byte) BY <3>10, <3>11 DEF Text
      <3> QED BY <3>9, <3>12, MemoryAssumption, Zenon
    <2> QED BY <2>9, <2>10
  <1> QED BY <1>1, <1>3, <1>4, Available

-----------------------------------------------------------------------------
\* The steps after both strings were copied.
Late == {"print", "vm_init", "up", "panic"}

\* The span of the command line and that of the bootloader still show what was copied.
CmdlineKept ==
  \/ info.cmdline = Empty /\ (Cmdline = <<>> \/ Len(Cmdline) > STRBUF_SIZE)
  \/ InUse(info.cmdline) /\ Cmdline # <<>> /\ Read(info.cmdline) = Cmdline
LoaderKept ==
  \/ info.bootloader = Empty
  \/ InUse(info.bootloader) /\ Loader # <<>> /\ Read(info.bootloader) = Loader

\* What the strings are, from the step that copies them on.
TextInv ==
  /\ req.supported /\ step \in {"bootloader"} \cup Late => CmdlineKept
  /\ req.supported /\ step \in Late => LoaderKept
  /\ shown # None => /\ step \in Late
                     /\ shown.cmdline = print_bytespan(info.cmdline)
                     /\ shown.bootloader = print_bytespan(info.bootloader)

\* The strings that the bootloader's pointers refer to stay the same once the memory map
\* is copied.
LEMMA SameTexts ==
  ASSUME UNCHANGED <<req, membuf, view>> PROVE Cmdline' = Cmdline /\ Loader' = Loader
  <1> DEFINE left(e, phys) ==
               LET over(i) == e[i].base + e[i].len >= AddrLimit
                   stops == {i \in DOMAIN e :
                               over(i) \/ phys \in e[i].base .. ((e[i].base + e[i].len) - 1)}
                   first == CHOOSE i \in stops : \A j \in stops : i <= j
               IN  IF stops = {} THEN None ELSE IF over(first) THEN None
                   ELSE (e[first].base + e[first].len) - phys
             text(v, hhdm, r, ptr) ==
               IF ptr = 0 \/ v.entries_ptr = 0 \/ v.entry_count = 0 THEN None
               ELSE IF r = None THEN None
               ELSE LET nul == {k \in 0 .. (MinOf(r.max, MAX_STR_BYTES) - 1) :
                                  Memory[(r.virt + k) - hhdm] = NUL}
                        len == CHOOSE k \in nul : \A j \in nul : k <= j
                    IN  IF nul = {} THEN None ELSE IF len = 0 THEN None
                        ELSE [k \in 1 .. len |-> Memory[(r.virt + k - 1) - hhdm]]
  <1>1. Entries' = Entries BY DEF Entries
  <1>2. \A phys : /\ phys_available(phys) = left(Entries, phys)
                  /\ phys_available(phys)' = left(Entries', phys)
    BY Zenon DEF phys_available, Overflows, End
  <1>3. \A ptr : /\ cstr_view(ptr) = text(view, req.hhdm, resolve_limine_ptr(ptr), ptr)
                 /\ cstr_view(ptr)' = text(view', req'.hhdm, resolve_limine_ptr(ptr)', ptr)
    BY Zenon DEF cstr_view, ByteAt, ScanLength
  <1> HIDE DEF left, text
  <1>4. \A ptr : PhysOf(ptr)' = PhysOf(ptr) BY Zenon DEF PhysOf
  <1>5. \A phys : phys_available(phys)' = phys_available(phys) BY <1>1, <1>2, Zenon
  <1>6. \A ptr : phys_available(PhysOf(ptr))' = phys_available(PhysOf(ptr))
    <2> TAKE ptr
    <2>1. phys_available(PhysOf(ptr)') = left(Entries, PhysOf(ptr)) BY <1>2, <1>4
    <2> QED BY <1>1, <1>2, <1>4
  <1>7. \A ptr : resolve_limine_ptr(ptr)' = resolve_limine_ptr(ptr)
    BY <1>6, Zenon DEF resolve_limine_ptr
  <1>8. \A ptr : cstr_view(ptr)' = cstr_view(ptr) BY <1>3, <1>7, Zenon
  <1>9. /\ cstr_view(req.cmdline)' = cstr_view(req.cmdline)
        /\ cstr_view(req.name)' = cstr_view(req.name)
        /\ cstr_view(req.version)' = cstr_view(req.version)
    BY <1>8, Zenon
  <1> QED BY <1>9, Zenon DEF Cmdline, Loader, OrEmpty

\* strbuf_alloc_copy: the span that it returns shows the string, and what was in use
\* before is as it was.
LEMMA Stored ==
  ASSUME NEW s, Finite(s), STRBUF_USED \in 0 .. STRBUF_SIZE, Store(s), SpanFor(s) # Empty,
         NEW span, span = SpanFor(s)
  PROVE  /\ InUse(span)' /\ Read(span)' = s
         /\ STRBUF_USED' \in Nat /\ STRBUF_USED' >= STRBUF_USED
         /\ \A i \in 0 .. (STRBUF_USED - 1) : strbuf'[i] = strbuf[i]
  <1>1. STRBUF \in Nat \ {0} /\ STRBUF_SIZE \in Nat \ {0} /\ STRBUF_USED \in Nat
    BY BootInfoAssumption
  <1>2. PICK S : s \in Seq(S) BY DEF Finite
  <1>3. /\ span = [ptr |-> STRBUF + NextFree, len |-> Len(s)]
        /\ Len(s) \in Nat \ {0} /\ NextFree \in Nat /\ NextFree >= STRBUF_USED
        /\ NextFree + Len(s) <= STRBUF_SIZE
    BY <1>1, SpanPlace
  <1>4. PICK n \in Nat \ {0}, f \in Nat : n = Len(s) /\ f = NextFree BY <1>3
  <1>5. /\ span.ptr = STRBUF + f /\ span.len = n /\ f >= STRBUF_USED /\ f + n <= STRBUF_SIZE
        /\ s = [k \in 1 .. n |-> s[k]]
    BY <1>2, <1>3, <1>4
  <1>6. /\ strbuf' = [i \in 0 .. (STRBUF_SIZE - 1) |->
                        IF i - f \in 0 .. (n - 1) THEN s[i - f + 1] ELSE strbuf[i]]
        /\ STRBUF_USED' = f + n
    BY <1>4, Zenon DEF Store
  <1>7. InUse(span)' /\ STRBUF_USED' \in Nat /\ STRBUF_USED' >= STRBUF_USED
    BY <1>1, <1>5, <1>6 DEF InUse
  <1>8. \A i \in 0 .. (STRBUF_USED - 1) : strbuf'[i] = strbuf[i] BY <1>1, <1>5, <1>6
  <1>9. ASSUME NEW k \in 1 .. n PROVE strbuf'[span.ptr - STRBUF + k - 1] = s[k]
    <2>1. PICK i \in 0 .. (STRBUF_SIZE - 1) : i = span.ptr - STRBUF + k - 1 BY <1>1, <1>5, SMTT(60)
    <2>2. i - f \in 0 .. (n - 1) /\ i - f + 1 = k BY <1>1, <1>5, <2>1, SMTT(60)
    <2> QED BY <1>6, <2>1, <2>2, SMTT(60)
  <1>10. Read(span)' = [k \in 1 .. n |-> s[k]] BY <1>5, <1>9 DEF Read
  <1> QED BY <1>5, <1>7, <1>8, <1>10, Zenon

\* A span in use shows the same bytes as long as these stay as they are.
LEMMA ReadKept ==
  ASSUME NEW span, InUse(span), STRBUF_USED \in Nat, STRBUF_USED' \in Nat,
         STRBUF_USED' >= STRBUF_USED,
         \A i \in 0 .. (STRBUF_USED - 1) : strbuf'[i] = strbuf[i]
  PROVE  InUse(span)' /\ Read(span)' = Read(span)
  <1>1. STRBUF \in Nat BY BootInfoAssumption
  <1>2. InUse(span)' BY <1>1 DEF InUse
  <1>3. \A k \in 1 .. span.len : span.ptr - STRBUF + k - 1 \in 0 .. (STRBUF_USED - 1)
    BY <1>1 DEF InUse
  <1>4. \A k \in 1 .. span.len :
          strbuf'[span.ptr - STRBUF + k - 1] = strbuf[span.ptr - STRBUF + k - 1]
    BY <1>3, Zenon
  <1>5. Read(span)' = Read(span) BY <1>4, Zenon DEF Read
  <1> QED BY <1>2, <1>5

\* The length of a string that does not fit, at the start of the buffer.
LEMMA CmdlineDropped ==
  ASSUME NEW s, Finite(s), STRBUF_USED = 0, SpanFor(s) = Empty
  PROVE  s = <<>> \/ Len(s) > STRBUF_SIZE
  <1>1. ALIGN \in Nat \ {0} /\ STRBUF_SIZE \in Nat /\ STRBUF \in Nat \ {0} BY BootInfoAssumption
  <1>2. NextFree = 0
    <2>1. NextFree = ((ALIGN - 1) \div ALIGN) * ALIGN BY <1>1 DEF NextFree
    <2>2. (ALIGN - 1) \div ALIGN = 0 BY <1>1
    <2> QED BY <1>1, <2>1, <2>2
  <1>3. PICK S : s \in Seq(S) BY DEF Finite
  <1>4. PICK n \in Nat : n = Len(s) BY <1>3
  <1>5. ASSUME s # <<>>, Fits(n) PROVE FALSE
    <2>1. SpanFor(s) = [ptr |-> STRBUF + NextFree, len |-> n] BY <1>4, <1>5, Zenon DEF SpanFor
    <2>2. SpanFor(s).ptr = STRBUF + NextFree BY <2>1
    <2> QED BY <1>1, <1>2, <2>2 DEF Empty
  <1>6. ~Fits(n) => n > STRBUF_SIZE BY <1>1, <1>2 DEF Fits
  <1> QED BY <1>4, <1>5, <1>6

\* Copying the second string leaves the first one alone; printing and vm::init change none.
LEMMA NextText ==
  ASSUME SpanInv, Gathered, Taken, ViewInv, TextInv, [Next]_vars PROVE TextInv'
  <1>1. STRBUF_USED \in 0 .. STRBUF_SIZE /\ STRBUF_USED \in Nat /\ STRBUF_SIZE \in Nat
    BY BootInfoAssumption DEF SpanInv
  <1>2. CASE start \/ convert_memmap_entries
    <2>1. /\ req' = req /\ shown' = shown /\ shown = None
          /\ req.supported => step' \in {"memmap", "cmdline"}
      BY <1>2, SMTT(60) DEF start, convert_memmap_entries, kernel, Taken
    <2> QED BY <2>1 DEF TextInv, Late
  <1>3. CASE copy_cmdline
    <2>1. /\ step = "cmdline" /\ step' = "bootloader" /\ UNCHANGED <<req, membuf, view>>
          /\ shown' = shown /\ shown = None /\ Store(Cmdline)
          /\ info'.cmdline = SpanFor(Cmdline)
      BY <1>3 DEF copy_cmdline, kernel, Taken, SpanInv, InfoFields
    <2>2. STRBUF_USED = 0 BY <2>1 DEF ViewInv
    <2>3. Cmdline' = Cmdline BY <2>1, SameTexts
    <2>4. CmdlineKept'
      <3>1. CASE SpanFor(Cmdline) = Empty
        BY <2>1, <2>2, <2>3, <3>1, CmdlineDropped, TextsFinite, Zenon DEF CmdlineKept
      <3>2. CASE SpanFor(Cmdline) # Empty
        <4>1. PICK span : span = SpanFor(Cmdline) OBVIOUS
        <4>2. InUse(span)' /\ Read(span)' = Cmdline
          BY <1>1, <2>1, <3>2, <4>1, Stored, TextsFinite, SMTT(60)
        <4>3. span = info'.cmdline /\ Cmdline # <<>> BY <2>1, <3>2, <4>1 DEF SpanFor
        <4> QED BY <2>3, <4>2, <4>3, Zenon DEF CmdlineKept, InUse, Read
      <3> QED BY <3>1, <3>2
    <2> QED BY <2>1, <2>4 DEF TextInv, Late
  <1>4. CASE copy_bootloader
    <2>1. /\ step = "bootloader" /\ step' = "print" /\ UNCHANGED <<req, membuf, view>>
          /\ shown' = shown /\ shown = None /\ Store(Loader)
          /\ info'.bootloader = SpanFor(Loader) /\ info'.cmdline = info.cmdline
      BY <1>4 DEF copy_bootloader, kernel, Taken, SpanInv, InfoFields
    <2>2. Cmdline' = Cmdline /\ Loader' = Loader BY <2>1, SameTexts, SMTT(60)
    <2>3. req.supported /\ CmdlineKept BY <2>1, SMTT(60) DEF TextInv, Gathered
    <2>4. CASE SpanFor(Loader) = Empty
      <3>1. UNCHANGED <<strbuf, STRBUF_USED>> BY <2>1, <2>4 DEF Store
      <3>2. CmdlineKept'
        <4>1. InUse(info.cmdline)' = InUse(info.cmdline) /\ Read(info.cmdline)' = Read(info.cmdline)
          BY <2>1, <3>1, Zenon DEF InUse, Read
        <4> QED BY <2>1, <2>2, <2>3, <4>1, Zenon DEF CmdlineKept
      <3>3. LoaderKept' BY <2>1, <2>4 DEF LoaderKept
      <3> QED BY <2>1, <3>2, <3>3, SMTT(60) DEF TextInv
    <2>5. CASE SpanFor(Loader) # Empty
      <3>1. PICK span : span = SpanFor(Loader) OBVIOUS
      <3>2. /\ InUse(span)' /\ Read(span)' = Loader
            /\ STRBUF_USED' \in Nat /\ STRBUF_USED' >= STRBUF_USED
            /\ \A i \in 0 .. (STRBUF_USED - 1) : strbuf'[i] = strbuf[i]
        BY <1>1, <2>1, <2>5, <3>1, Stored, TextsFinite, SMTT(60)
      <3>3. span = info'.bootloader /\ Loader # <<>>
        BY <2>1, <2>5, <3>1 DEF SpanFor
      <3>4. LoaderKept' BY <2>2, <3>2, <3>3, ZenonT(60) DEF LoaderKept, InUse, Read
      <3>5. CmdlineKept'
        <4>1. CASE info.cmdline = Empty /\ (Cmdline = <<>> \/ Len(Cmdline) > STRBUF_SIZE)
          BY <2>1, <2>2, <4>1, Zenon DEF CmdlineKept
        <4>2. CASE InUse(info.cmdline) /\ Cmdline # <<>> /\ Read(info.cmdline) = Cmdline
          <5>1. PICK cmd : cmd = info.cmdline OBVIOUS
          <5>2. InUse(cmd) /\ Read(cmd) = Cmdline BY <4>2, <5>1
          <5>3. InUse(cmd)' /\ Read(cmd)' = Read(cmd) BY <1>1, <3>2, <5>2, ReadKept
          <5>4. cmd = info'.cmdline BY <2>1, <5>1, SMTT(60)
          <5> QED BY <2>2, <4>2, <5>2, <5>3, <5>4, Zenon DEF CmdlineKept, InUse, Read
        <4> QED BY <2>3, <4>1, <4>2 DEF CmdlineKept
      <3> QED BY <2>1, <3>4, <3>5 DEF TextInv
    <2> QED BY <2>4, <2>5
  <1>5. CASE print_boot_info \/ vm_init \/ UNCHANGED vars
    <2>1. /\ UNCHANGED <<req, membuf, view, strbuf, STRBUF_USED, info>>
          /\ step' = step \/ (step \in {"print", "vm_init"} /\ step' \in Late)
          /\ shown' = shown \/ (/\ step = "print"
                                /\ shown'.cmdline = print_bytespan(info.cmdline)
                                /\ shown'.bootloader = print_bytespan(info.bootloader))
      BY <1>5 DEF print_boot_info, vm_init, vars, kernel, Late
    <2>2. Cmdline' = Cmdline /\ Loader' = Loader BY <2>1, SameTexts
    <2>3. /\ InUse(info.cmdline)' = InUse(info.cmdline) /\ Read(info.cmdline)' = Read(info.cmdline)
          /\ InUse(info.bootloader)' = InUse(info.bootloader)
          /\ Read(info.bootloader)' = Read(info.bootloader)
      BY <2>1, Zenon DEF InUse, Read
    <2>4. (CmdlineKept => CmdlineKept') /\ (LoaderKept => LoaderKept')
      BY <2>1, <2>2, <2>3, Zenon DEF CmdlineKept, LoaderKept
    <2>5. /\ print_bytespan(info.cmdline)' = print_bytespan(info.cmdline)
          /\ print_bytespan(info.bootloader)' = print_bytespan(info.bootloader)
      BY <2>1, <2>3, Zenon DEF print_bytespan, is_empty
    <2> QED BY <2>1, <2>4, <2>5, SMTT(60) DEF TextInv, Late
  <1> QED BY <1>2, <1>3, <1>4, <1>5 DEF Next

\* What a part of a sequence consists of.
LEMMA PartOf ==
  ASSUME NEW S, NEW s \in Seq(S), NEW m \in 1 .. Len(s), NEW n \in m .. Len(s),
         NEW c, c = SubSeq(s, m, n)
  PROVE  \A i \in 1 .. n - m + 1 : c[i] = s[m + i - 1]
  <1>1. Len(s) \in Nat BY LenProperties
  <1>2. \A i \in m .. n : s[i] \in S BY <1>1, ElementOfSeq
  <1>3. m \in Int /\ n \in Int BY <1>1
  <1> QED BY <1>2, <1>3, SubSeqProperties

\* Two strings that are joined with a space can be told apart again.
LEMMA JoinParts ==
  ASSUME NEW S, NEW a \in Seq(S), NEW b \in Seq(S), NEW s, s = a \o <<SPACE>> \o b,
         NEW m, m = Len(a) + 1
  PROVE  /\ m \in 1 .. Len(s) /\ s[m] = SPACE
         /\ SubSeq(s, 1, m - 1) = a /\ SubSeq(s, m + 1, Len(s)) = b
  <1>1. PICK T : T = S \cup {SPACE} BY Zenon
  <1>2. a \in Seq(T) /\ b \in Seq(T) /\ <<SPACE>> \in Seq(T) BY <1>1
  <1>3. PICK x : x = a \o <<SPACE>> BY Zenon
  <1>4. /\ x \in Seq(T) /\ Len(x) = Len(a) + 1 /\ x[Len(a) + 1] = SPACE
        /\ \A i \in 1 .. Len(a) : x[i] = a[i]
    BY <1>2, <1>3
  <1>5. s = x \o b BY <1>3
  <1>6. PICK la \in Nat, lb \in Nat : la = Len(a) /\ lb = Len(b) BY <1>2
  <1>7. /\ s \in Seq(T) /\ Len(s) = la + 1 + lb
        /\ \A i \in 1 .. (la + 1) : s[i] = x[i]
        /\ \A i \in 1 .. lb : s[la + 1 + i] = b[i]
    BY <1>2, <1>4, <1>5, <1>6
  <1>8. m \in 1 .. Len(s) /\ s[m] = SPACE BY <1>4, <1>6, <1>7
  <1>9. SubSeq(s, 1, m - 1) = a
    <2>1. PICK c : c = SubSeq(s, 1, m - 1) BY Zenon
    <2>2. m - 1 = la BY <1>6
    <2>3. c \in Seq(T) /\ Len(c) = la BY <1>6, <1>7, <2>1, <2>2
    <2>4. \A i \in 1 .. la : c[i] = s[i] BY <1>6, <1>7, <2>1, <2>2
    <2>5. \A i \in 1 .. la : c[i] = a[i] BY <1>4, <1>6, <1>7, <2>4
    <2>6. c = [i \in 1 .. la |-> c[i]] /\ a = [i \in 1 .. la |-> a[i]] BY <1>2, <1>6, <2>3
    <2> QED BY <2>1, <2>5, <2>6, Zenon
  <1>10. SubSeq(s, m + 1, Len(s)) = b
    <2>1. PICK c : c = SubSeq(s, m + 1, Len(s)) BY Zenon
    <2>2. m + 1 = la + 2 /\ Len(s) = la + 1 + lb BY <1>6, <1>7
    <2>3. c \in Seq(T) /\ Len(c) = lb BY <1>6, <1>7, <2>1, <2>2
    <2>4. \A i \in 1 .. lb : c[i] = s[la + 1 + i]
      <3>1. PICK f \in Nat, l \in Nat : f = la + 2 /\ l = la + 1 + lb BY <1>6
      <3>2. c = SubSeq(s, f, l) BY <2>1, <2>2, <3>1, ZenonT(60)
      <3>3. s \in Seq(T) BY <1>7
      <3>4. CASE lb = 0 BY <3>4
      <3>5. CASE lb # 0
        <4>1. f \in 1 .. Len(s) /\ l \in f .. Len(s) BY <1>6, <1>7, <3>1, <3>5
        <4>2. \A i \in 1 .. l - f + 1 : c[i] = s[f + i - 1] BY <3>2, <3>3, <4>1, PartOf, ZenonT(60)
        <4>3. l - f + 1 = lb /\ \A i \in 1 .. lb : f + i - 1 = la + 1 + i BY <3>1
        <4> QED BY <4>2, <4>3, ZenonT(60)
      <3> QED BY <3>4, <3>5, ZenonT(60)
    <2>5. \A i \in 1 .. lb : c[i] = b[i] BY <1>7, <2>4, ZenonT(60)
    <2>6. c = [i \in 1 .. lb |-> c[i]] /\ b = [i \in 1 .. lb |-> b[i]] BY <1>2, <1>6, <2>3
    <2> QED BY <2>1, <2>5, <2>6, Zenon
  <1> QED BY <1>8, <1>9, <1>10

\* What print_bytespan shows of a span in use.
LEMMA Printed ==
  ASSUME NEW span, NEW s, InUse(span), Read(span) = s
  PROVE  print_bytespan(span).bytes = s /\ (s \in Seq(Byte) => print_bytespan(span) # None)
  <1>1. ~is_empty(span)
    <2>1. STRBUF \in Nat \ {0} BY BootInfoAssumption
    <2> QED BY <2>1 DEF InUse, is_empty
  <1>2. PICK t \in BOOLEAN : t = \A k \in 1 .. span.len : Read(span)[k] \notin NonUtf8 BY Zenon
  <1>3. print_bytespan(span) = [text |-> t, bytes |-> s]
    BY <1>1, <1>2, Zenon DEF print_bytespan
  <1>4. s \in Seq(Byte) => [text |-> t, bytes |-> s] \in [text : BOOLEAN, bytes : Seq(Byte)]
    OBVIOUS
  <1>5. [text |-> t, bytes |-> s].bytes = s BY SMTT(60)
  <1> QED BY <1>3, <1>4, <1>5, MemoryAssumption, Zenon

\* The joined name of the bootloader.
LEMMA LoaderText ==
  ASSUME MapSeen, Loader # <<>>, NEW s, s = Loader
  PROVE  \/ IsCString(s, req.name) /\ ~HasString(req.version)
         \/ IsCString(s, req.version) /\ ~HasString(req.name)
         \/ \E m \in 1 .. Len(s) : /\ IsCString(SubSeq(s, 1, m - 1), req.name)
                                   /\ s[m] = SPACE
                                   /\ IsCString(SubSeq(s, m + 1, Len(s)), req.version)
  <1>1. PICK na, ve : na = cstr_view(req.name) /\ ve = cstr_view(req.version) BY Zenon
  <1>2. req.name \in Nat /\ req.version \in Nat BY BootInfoAssumption DEF MapSeen
  <1>3. /\ na # None => IsCString(na, req.name) /\ na \in Seq(Byte)
        /\ HasString(req.name) => na # None
    BY <1>1, <1>2, StringFound, Zenon
  <1>4. /\ ve # None => IsCString(ve, req.version) /\ ve \in Seq(Byte)
        /\ HasString(req.version) => ve # None
    BY <1>1, <1>2, StringFound, Zenon
  <1>5. s = Join(OrEmpty(na), OrEmpty(ve)) BY <1>1, Zenon DEF Loader
  <1>6. \A x, ptr : IsCString(x, ptr) => x # <<>>
    <2>1. ASSUME NEW x, NEW ptr, IsCString(x, ptr), x = <<>> PROVE FALSE
      <3>1. Len(x) \in 1 .. (MAX_STR_BYTES - 1) BY <2>1, Zenon DEF IsCString
      <3>2. Len(x) = 0 BY <2>1
      <3> QED BY <3>1, <3>2, BootInfoAssumption
    <2> QED BY <2>1, Zenon
  <1>7. CASE na = None
    <2>1. s = OrEmpty(ve) BY <1>5, <1>7, Zenon DEF Join, OrEmpty
    <2>2. ve # None /\ s = ve BY <2>1, Zenon DEF OrEmpty
    <2> QED BY <1>3, <1>4, <1>7, <2>2, Zenon
  <1>8. CASE na # None /\ ve = None
    <2>1. s = na BY <1>3, <1>5, <1>6, <1>8, Zenon DEF Join, OrEmpty
    <2> QED BY <1>3, <1>4, <1>8, <2>1, Zenon
  <1>9. CASE na # None /\ ve # None
    <2>1. s = na \o <<SPACE>> \o ve BY <1>3, <1>4, <1>5, <1>6, <1>9, Zenon DEF Join, OrEmpty
    <2>2. /\ IsCString(na, req.name) /\ IsCString(ve, req.version)
          /\ na \in Seq(Byte) /\ ve \in Seq(Byte)
      BY <1>3, <1>4, <1>9, Zenon
    <2>3. PICK m \in Nat : m = Len(na) + 1 BY <2>2
    <2>4. /\ m \in 1 .. Len(s) /\ s[m] = SPACE
          /\ SubSeq(s, 1, m - 1) = na /\ SubSeq(s, m + 1, Len(s)) = ve
      BY <2>1, <2>2, <2>3, JoinParts
    <2> QED BY <2>2, <2>4, Zenon
  <1> QED BY <1>7, <1>8, <1>9

\* For every memory, every answer of the bootloader and every size of the buffers: what the
\* kernel prints is what the pointers refer to, and a command line that fits is printed.
THEOREM StringsAlwaysDelivered == Spec => []StringsDelivered
  <1>1. Init => TextInv BY DEF Init, TextInv, Late
  <1>2. /\ (SpanInv /\ Gathered /\ Taken /\ ViewInv) /\ TextInv /\ [Next]_vars => TextInv'
    BY NextText
  <1>3. SpanInv /\ Gathered /\ ViewInv /\ TextInv => StringsDelivered
    <2> SUFFICES ASSUME SpanInv, Gathered, ViewInv, TextInv,
                        shown # None, req.supported, req.memmap # None
                 PROVE  StringsDelivered
      BY SMTT(60) DEF StringsDelivered
    <2>1. /\ step \in Late /\ CmdlineKept /\ LoaderKept /\ req \in Requests
          /\ shown.cmdline = print_bytespan(info.cmdline)
          /\ shown.bootloader = print_bytespan(info.bootloader)
      BY DEF TextInv, Gathered
    <2>2. print_bytespan(Empty) = None BY DEF print_bytespan, is_empty, Empty
    <2>3. CASE ~HasMap
      <3>1. req.memmap = <<>> /\ view = EmptyView BY <2>3 DEF HasMap, ViewInv
      <3>2. \A ptr : cstr_view(ptr) = None
        <4>1. view.entry_count = 0 BY <3>1 DEF EmptyView
        <4> QED BY <4>1, ZenonT(60) DEF cstr_view
      <3>3. Cmdline = <<>> /\ Loader = <<>>
        <4>1. \A ptr : OrEmpty(cstr_view(ptr)) = <<>> BY <3>2, Zenon DEF OrEmpty
        <4>2. Cmdline = <<>> BY <4>1, Zenon DEF Cmdline
        <4>3. Loader = Join(<<>>, <<>>) BY <4>1 DEF Loader
        <4>4. Join(<<>>, <<>>) = <<>> BY DEF Join
        <4> QED BY <4>2, <4>3, <4>4, Zenon
      <3>4. info.cmdline = Empty /\ info.bootloader = Empty
        BY <2>1, <3>3, Zenon DEF CmdlineKept, LoaderKept
      <3>5. \A ptr : ~HasString(ptr)
        <4>1. Copied = 0 BY <3>1, BootInfoAssumption DEF Copied, MinOf
        <4>2. 1 .. Copied = {} BY <4>1
        <4> QED BY <4>2, Zenon DEF HasString, InOneEntry
      <3> QED BY <2>1, <2>2, <3>4, <3>5, Zenon DEF StringsDelivered
    <2>4. CASE HasMap
      <3>1. MapSeen
        <4>1. step \notin {"start", "memmap"} BY <2>1 DEF Late
        <4> QED BY <2>1, <2>4, <4>1, ZenonT(60) DEF MapSeen, ViewInv, Gathered, MapCopied
      <3>2. req.cmdline # None => req.cmdline \in Nat BY <2>1, BootInfoAssumption
      <3>3. ASSUME shown.cmdline # None PROVE IsCString(shown.cmdline.bytes, req.cmdline)
        <4>1. InUse(info.cmdline) /\ Cmdline # <<>> /\ Read(info.cmdline) = Cmdline
          BY <2>1, <2>2, <3>3, Zenon DEF CmdlineKept
        <4>2. shown.cmdline.bytes = Cmdline BY <2>1, <4>1, Printed, Zenon
        <4>3. req.cmdline # None /\ cstr_view(req.cmdline) # None /\ Cmdline = cstr_view(req.cmdline)
          BY <4>1, Zenon DEF Cmdline, OrEmpty
        <4> QED BY <3>1, <3>2, <4>2, <4>3, StringFound, Zenon
      <3>4. ASSUME req.cmdline # None, HasString(req.cmdline), MAX_STR_BYTES <= STRBUF_SIZE
            PROVE  shown.cmdline # None
        <4>1. PICK s : s = cstr_view(req.cmdline) BY Zenon
        <4>2. s # None /\ IsCString(s, req.cmdline) /\ s \in Seq(Byte)
          BY <3>1, <3>2, <3>4, <4>1, StringFound, Zenon
        <4>3. Cmdline = s BY <3>4, <4>1, <4>2, Zenon DEF Cmdline, OrEmpty
        <4>4. Len(s) \in 1 .. (MAX_STR_BYTES - 1) BY <4>2, Zenon DEF IsCString
        <4>5. ~(Len(s) > STRBUF_SIZE) /\ s # <<>>
          <5>1. {MAX_STR_BYTES, STRBUF_SIZE} \subseteq Nat BY BootInfoAssumption
          <5>2. ~(Len(s) > STRBUF_SIZE) BY <3>4, <4>4, <5>1
          <5>3. Len(s) # 0 BY <4>4, <5>1
          <5> QED BY <5>2, <5>3
        <4>6. InUse(info.cmdline) /\ Read(info.cmdline) = s
          BY <2>1, <4>3, <4>5, Zenon DEF CmdlineKept
        <4> QED BY <2>1, <4>2, <4>6, Printed, Zenon
      <3>5. ASSUME shown.bootloader # None
            PROVE  LET s == shown.bootloader.bytes
                   IN  \/ IsCString(s, req.name) /\ ~HasString(req.version)
                       \/ IsCString(s, req.version) /\ ~HasString(req.name)
                       \/ \E m \in 1 .. Len(s) :
                            /\ IsCString(SubSeq(s, 1, m - 1), req.name) /\ s[m] = SPACE
                            /\ IsCString(SubSeq(s, m + 1, Len(s)), req.version)
        <4>1. InUse(info.bootloader) /\ Loader # <<>> /\ Read(info.bootloader) = Loader
          BY <2>1, <2>2, <3>5, Zenon DEF LoaderKept
        <4>2. shown.bootloader.bytes = Loader BY <2>1, <4>1, Printed, Zenon
        <4> QED BY <3>1, <4>1, <4>2, LoaderText, Zenon
      <3> QED BY <3>3, <3>4, <3>5, Zenon DEF StringsDelivered
    <2> QED BY <2>3, <2>4, SMTT(60)
  <1> QED BY <1>1, <1>2, <1>3, ViewKept, PTL DEF Spec
=============================================================================
