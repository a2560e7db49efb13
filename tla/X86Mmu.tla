------------------------------- MODULE X86Mmu -------------------------------
(***************************************************************************)
(* Address spaces and four-level page tables: X86Mmu                       *)
(* (arch/x86_64/src/mmu.rs) called through kernel/src/svc/vm.rs by several *)
(* CPUs.  Creating, destroying and mapping hold the PT_ALLOC lock;         *)
(* unmapping and protecting do not.  Frames come from the allocator as     *)
(* FramePool promises it.  A virtual page is the tuple of its four table   *)
(* indices, so every page here is aligned and canonical; the calls the     *)
(* code rejects for that reason change nothing.  TLBs are in module Tlb.   *)
(***************************************************************************)
EXTENDS Integers

CONSTANTS
  Cpus, NoCpu,
  Frames,              \* frames the allocator can hand out
  BootTables,          \* frames holding the boot loader's page tables,
  BootRoot,            \*   the one CR3 points to at boot,
  BootMem, BootLevel,  \*   their entries, and the level of each (4 = PML4)
  PhysPages, NullAddr, \* frames mapped by clients; no table (PhysAddr(0))
  KAS,                 \* the handle of the kernel address space
  MAX_ADDRESS_SPACES, ENTRY_COUNT, KERNEL_PML4_START,
  Pages,               \* virtual pages, [1 .. 4 -> Idx]
  FlagSets,            \* the MapFlags values clients pass
  NxeEnabled           \* NXE_ENABLED after vm::init

VARIABLES
  mem,                 \* the entries of every table frame
  pool, held,          \* the allocator: free frames, frames handed out
  level,               \* history: 4 .. 1 for a table in use, 0 otherwise
  slots,               \* AS_SLOTS
  lock,                \* holder of PT_ALLOC
  op                   \* the operation each CPU is in the middle of

vars == <<mem, pool, held, level, slots, lock, op>>

Idx == 0 .. (ENTRY_COUNT - 1)
KernelIdx == KERNEL_PML4_START .. (ENTRY_COUNT - 1)
Slot == 0 .. (MAX_ADDRESS_SPACES - 1)
Handle == Slot \cup {KAS}
Table == Frames \cup BootTables
UserPages == {v \in Pages : v[1] \notin KernelIdx}

MapFlags == {"WRITE", "USER", "GLOBAL", "EXEC", "UNCACHED"}
PteBits == {"W", "U", "G", "NX", "PCD", "PWT", "PS"}
Entry == [p : BOOLEAN, to : Table \cup PhysPages \cup {NullAddr}, bits : SUBSET PteBits]
Zero == [p |-> FALSE, to |-> NullAddr, bits |-> {}]
ZeroFrame == [i \in Idx |-> Zero]

\* What a present entry of a directory leads to: a table, or with PTE_PS a large page.
IsLink(e) == e.p /\ "PS" \notin e.bits
IsLarge(e) == e.p /\ "PS" \in e.bits

ASSUME ConstantsAssumption ==
  /\ NoCpu \notin Cpus
  /\ KAS \notin Slot
  /\ NullAddr \notin Table
  /\ MAX_ADDRESS_SPACES \in Nat /\ ENTRY_COUNT \in Nat /\ KERNEL_PML4_START \in Nat
  /\ Pages \subseteq [1 .. 4 -> Idx] /\ Pages # {}
  /\ FlagSets \subseteq SUBSET MapFlags
  /\ NxeEnabled \in BOOLEAN

\* The boot loader's tables are a tree below the root, with large pages in PDPTs and
\* page directories.
ASSUME BootAssumption ==
  /\ BootRoot \in BootTables
  /\ BootMem \in [BootTables -> [Idx -> Entry]]
  /\ BootLevel \in [BootTables -> 1 .. 4]
  /\ \A t \in BootTables : BootLevel[t] = 4 <=> t = BootRoot
  /\ \A t \in BootTables, i \in Idx :
       BootLevel[t] > 1 /\ IsLink(BootMem[t][i])
         => BootMem[t][i].to \in BootTables /\ BootLevel[BootMem[t][i].to] = BootLevel[t] - 1
  /\ \A i \in Idx : ~IsLarge(BootMem[BootRoot][i])
  /\ \A t, u \in BootTables, i, j \in Idx :
       /\ BootLevel[t] > 1 /\ BootLevel[u] > 1 /\ IsLink(BootMem[t][i]) /\ IsLink(BootMem[u][j])
       /\ BootMem[t][i].to = BootMem[u][j].to
       => t = u /\ i = j

\* The allocator never hands out a frame the boot loader's tables occupy.
BootTablesOutsidePool == Frames \cap BootTables = {}

\* No page that a client names lies in a large page of the boot loader.
BootChild(t, i) == IF t # NullAddr /\ IsLink(BootMem[t][i]) THEN BootMem[t][i].to ELSE NullAddr
InLargePage(v) ==
  LET pdpt == BootChild(BootRoot, v[1])
      pd == BootChild(pdpt, v[2])
  IN  \/ pdpt # NullAddr /\ IsLarge(BootMem[pdpt][v[2]])
      \/ pd # NullAddr /\ IsLarge(BootMem[pd][v[3]])
NoPageInLarge == \A v \in Pages : ~InLargePage(v)

\* No page that a client names lies in a part of the kernel half that the boot loader left
\* empty.
NoPageInEmptyEntry == \A v \in Pages \ UserPages : BootMem[BootRoot][v[1]].p

\* What a frame holds before it is zeroed: anything; here, entries that look
\* present and lead back to the boot tables.
Junk == [i \in Idx |-> [p |-> TRUE, to |-> BootRoot, bits |-> {"W", "U"}]]

flags_to_pte(flags) ==
  {b \in PteBits : \/ b = "W" /\ "WRITE" \in flags
                   \/ b = "U" /\ "USER" \in flags
                   \/ b = "G" /\ "GLOBAL" \in flags
                   \/ b = "NX" /\ "EXEC" \notin flags /\ NxeEnabled
                   \/ b \in {"PCD", "PWT"} /\ "UNCACHED" \in flags}

-----------------------------------------------------------------------------
Idle == [kind |-> "idle", h |-> KAS, v |-> CHOOSE v \in Pages : TRUE,
         to |-> NullAddr, flags |-> {}, table |-> NullAddr, depth |-> 0]

\* vm::init has run: the kernel space is the boot loader's (init_kernel).
Init ==
  /\ mem = [t \in Table |-> IF t \in BootTables THEN BootMem[t] ELSE Junk]
  /\ pool = Frames
  /\ held = {}
  /\ level = [t \in Table |-> IF t \in BootTables THEN BootLevel[t] ELSE 0]
  /\ slots = [s \in Slot |-> [used |-> FALSE, pml4_phys |-> NullAddr]]
  /\ lock = NoCpu
  /\ op = [c \in Cpus |-> Idle]

Live(h) == h = KAS \/ (h \in Slot /\ slots[h].used)
Root(h) == IF h = KAS THEN BootRoot ELSE slots[h].pml4_phys

\* An operation borrows its handle exclusively (&mut AddressSpace).
Borrowed(h) == \E c \in Cpus : op[c].kind # "idle" /\ op[c].h = h
CanStart(c, h) == op[c].kind = "idle" /\ Live(h) /\ ~Borrowed(h)

\* One level of a walk; NullAddr once an entry is not present.
Descend(t, i) == IF t # NullAddr /\ mem[t][i].p THEN mem[t][i].to ELSE NullAddr
Walk(r, v) == Descend(Descend(Descend(r, v[1]), v[2]), v[3])

\* translate: the leaf entry of page v in space h, Zero if there is none.
translate(h, v) == LET pt == Walk(Root(h), v) IN
                   IF pt # NullAddr /\ mem[pt][v[4]].p THEN mem[pt][v[4]] ELSE Zero

-----------------------------------------------------------------------------
\* alloc_slot takes the first unused slot.
FirstUnused(s) == /\ s \in Slot /\ ~slots[s].used
                  /\ \A t \in 0 .. (s - 1) : slots[t].used

\* The copy starts one entry too high.
NewPml4_OffByOne ==
  [i \in Idx |-> IF i \in KernelIdx \ {KERNEL_PML4_START} THEN mem[BootRoot][i] ELSE Zero]

\* The new root: zeroed, with the kernel half of the kernel root.
NewPml4 == [i \in Idx |-> IF i \in KernelIdx THEN mem[BootRoot][i] ELSE Zero]

\* new_address_space.  With no frame left it fails and changes nothing; with no
\* slot left it fails after the frame was taken, and the frame is never freed.
address_space_new(c) ==
  /\ op[c].kind = "idle" /\ lock = NoCpu
  /\ \E f \in pool :
       /\ pool' = pool \ {f}
       /\ held' = held \cup {f}
       /\ mem' = [mem EXCEPT ![f] = NewPml4]
       /\ \/ \E s \in Slot :
               /\ FirstUnused(s)
               /\ slots' = [slots EXCEPT ![s] = [used |-> TRUE, pml4_phys |-> f]]
               /\ level' = [level EXCEPT ![f] = 4]
          \/ /\ \A s \in Slot : slots[s].used
             /\ UNCHANGED <<slots, level>>
  /\ UNCHANGED <<lock, op>>

\* The tables that the entries I of the tables T lead to; large pages are skipped.
ChildrenOf(T, I) == {t \in Table : \E u \in T, i \in I : IsLink(mem[u][i]) /\ mem[u][i].to = t}

\* The outer loop runs over all the entries of the root.
UserPdpts_All(r) == ChildrenOf({r}, Idx)

\* The tables address_space_destroy visits: the user half, three levels down.
UserPdpts(r) == ChildrenOf({r}, Idx \ KernelIdx)
UserPds(r) == ChildrenOf(UserPdpts(r), Idx)
UserPts(r) == ChildrenOf(UserPds(r), Idx)

\* The loop over the page directories forgets to free them.
FreedBy_NoPds(r) == {r} \cup UserPdpts(r) \cup UserPts(r)

FreedBy(r) == {r} \cup UserPdpts(r) \cup UserPds(r) \cup UserPts(r)

\* destroy_address_space; on the kernel space it does nothing.  The allocator
\* keeps some of the frames and drops those that find its free list full.
address_space_destroy(c, s) ==
  /\ lock = NoCpu /\ CanStart(c, s)
  /\ LET F == FreedBy(Root(s)) IN
     /\ \E kept \in SUBSET F : pool' = pool \cup kept
     /\ held' = held \ F
     /\ level' = [t \in Table |-> IF t \in F THEN 0 ELSE level[t]]
  /\ slots' = [slots EXCEPT ![s] = [used |-> FALSE, pml4_phys |-> NullAddr]]
  /\ UNCHANGED <<mem, lock, op>>

-----------------------------------------------------------------------------
\* map_4k takes the lock and starts at the root.
MapBegin(c, h, v, to, flags) ==
  /\ lock = NoCpu /\ CanStart(c, h)
  /\ lock' = c
  /\ op' = [op EXCEPT ![c] = [kind |-> "map", h |-> h, v |-> v, to |-> to,
                              flags |-> flags, table |-> Root(h), depth |-> 1]]
  /\ UNCHANGED <<mem, pool, held, level, slots>>

\* The operation of c returns; map_4k drops the lock.
Return(c) == /\ op' = [op EXCEPT ![c] = Idle]
             /\ lock' = IF op[c].kind = "map" THEN NoCpu ELSE lock

\* Skips a level.
MapTo_SkipsLevel(c, t) == op' = [op EXCEPT ![c].table = t, ![c].depth = @ + 2]

MapTo(c, t) == op' = [op EXCEPT ![c].table = t, ![c].depth = @ + 1]

\* A fresh table is linked without being zeroed.
NewTable_Dirty(t, i, f, user) ==
  [mem EXCEPT ![t][i] = [p |-> TRUE, to |-> f, bits |-> IF user THEN {"W", "U"} ELSE {"W"}]]

\* Frame f, zeroed, linked at entry i of table t.
NewTable(t, i, f, user) ==
  [mem EXCEPT ![f] = ZeroFrame,
              ![t][i] = [p |-> TRUE, to |-> f, bits |-> IF user THEN {"W", "U"} ELSE {"W"}]]

\* Waits for a frame instead of giving up.
ensure_table_Waits(c) ==
  LET t == op[c].table
      i == op[c].v[op[c].depth]
  IN /\ op[c].kind = "map" /\ op[c].depth \in 1 .. 3
     /\ \/ /\ mem[t][i].p
           /\ MapTo(c, mem[t][i].to)
           /\ UNCHANGED <<mem, pool, held, level>>
        \/ /\ ~mem[t][i].p
           /\ \E f \in pool :
                /\ pool' = pool \ {f}
                /\ held' = held \cup {f}
                /\ mem' = NewTable(t, i, f, "USER" \in op[c].flags)
                /\ level' = [level EXCEPT ![f] = 4 - op[c].depth]
                /\ MapTo(c, f)
     /\ UNCHANGED <<slots, lock>>

\* ensure_table at the current level: descend into what is there as into a table,
\* whatever its bits (PTE_PS too), or link a new one, or give up for want of a frame (the
\* tables linked so far stay).
ensure_table(c) ==
  LET t == op[c].table
      i == op[c].v[op[c].depth]
  IN /\ op[c].kind = "map" /\ op[c].depth \in 1 .. 3
     /\ \/ /\ mem[t][i].p
           /\ MapTo(c, mem[t][i].to)
           /\ UNCHANGED <<mem, pool, held, level, lock>>
        \/ /\ ~mem[t][i].p
           /\ \E f \in pool :
                /\ pool' = pool \ {f}
                /\ held' = held \cup {f}
                /\ mem' = NewTable(t, i, f, "USER" \in op[c].flags)
                /\ level' = [level EXCEPT ![f] = 4 - op[c].depth]
                /\ MapTo(c, f)
           /\ lock' = lock
        \/ /\ ~mem[t][i].p /\ pool = {}
           /\ Return(c)
           /\ UNCHANGED <<mem, pool, held, level>>
     /\ slots' = slots

\* The end of map_4k: AlreadyMapped, or the entry is written.
MapLeaf(c) ==
  LET t == op[c].table
      i == op[c].v[4]
  IN /\ op[c].kind = "map" /\ op[c].depth = 4
     /\ mem' = IF mem[t][i].p THEN mem
               ELSE [mem EXCEPT ![t][i] = [p |-> TRUE, to |-> op[c].to,
                                           bits |-> flags_to_pte(op[c].flags)]]
     /\ Return(c)
     /\ UNCHANGED <<pool, held, level, slots>>

\* unmap_4k and protect_4k without the lock: the walk and the test that the page
\* is mapped, then, some time later, the write of the entry.  A walk that ends at
\* an entry not present returns NotMapped and changes nothing.
WalkBegin(c, kind, h, v, flags) ==
  LET pt == Walk(Root(h), v) IN
  /\ CanStart(c, h)
  /\ pt # NullAddr /\ mem[pt][v[4]].p
  /\ op' = [op EXCEPT ![c] = [kind |-> kind, h |-> h, v |-> v, to |-> mem[pt][v[4]].to,
                              flags |-> flags, table |-> pt, depth |-> 4]]
  /\ UNCHANGED <<mem, pool, held, level, slots, lock>>

UnmapWrite(c) ==
  /\ op[c].kind = "unmap"
  /\ mem' = [mem EXCEPT ![op[c].table][op[c].v[4]] = Zero]
  /\ Return(c)
  /\ UNCHANGED <<pool, held, level, slots>>

\* The new bits are written without the old address.
ProtectWrite_NoAddr(c) ==
  /\ op[c].kind = "protect"
  /\ mem' = [mem EXCEPT ![op[c].table][op[c].v[4]] =
               [p |-> TRUE, to |-> NullAddr, bits |-> flags_to_pte(op[c].flags)]]
  /\ Return(c)
  /\ UNCHANGED <<pool, held, level, slots>>

ProtectWrite(c) ==
  /\ op[c].kind = "protect"
  /\ mem' = [mem EXCEPT ![op[c].table][op[c].v[4]] =
               [p |-> TRUE, to |-> op[c].to, bits |-> flags_to_pte(op[c].flags)]]
  /\ Return(c)
  /\ UNCHANGED <<pool, held, level, slots>>

-----------------------------------------------------------------------------
\* The next step of an operation in progress.
Continue(c) == ensure_table(c) \/ MapLeaf(c) \/ UnmapWrite(c) \/ ProtectWrite(c)

Next ==
  \E c \in Cpus :
    \/ Continue(c)
    \/ address_space_new(c)
    \/ \E s \in Slot : address_space_destroy(c, s)
    \/ \E h \in Handle, v \in Pages :
         \/ \E to \in PhysPages, flags \in FlagSets : MapBegin(c, h, v, to, flags)
         \/ WalkBegin(c, "unmap", h, v, {})
         \/ \E flags \in FlagSets : WalkBegin(c, "protect", h, v, flags)

\* A CPU inside an operation keeps executing it; nothing makes it start one.
Fairness == \A c \in Cpus : WF_vars(Continue(c))

Spec == Init /\ [][Next]_vars
FairSpec == Spec /\ Fairness

-----------------------------------------------------------------------------
Operation == [kind : {"idle", "map", "unmap", "protect"}, h : Handle, v : Pages,
              to : Table \cup PhysPages \cup {NullAddr}, flags : SUBSET MapFlags,
              table : Table \cup {NullAddr}, depth : 0 .. 4]

\* Tables, slots, the lock and the operations keep their types.
TypeOK ==
  /\ mem \in [Table -> [Idx -> Entry]]
  /\ pool \subseteq Frames /\ held \subseteq Frames
  /\ level \in [Table -> 0 .. 4]
  /\ slots \in [Slot -> [used : BOOLEAN, pml4_phys : Table \cup {NullAddr}]]
  /\ lock \in Cpus \cup {NoCpu}
  /\ op \in [Cpus -> Operation]

\* The tables in use whose entries lead to tables.
Directories == {t \in Table : level[t] \in 2 .. 4}

\* A present entry, unless it is a large page, leads to a table one level down.
EntriesLeadDown ==
  \A t \in Directories, i \in Idx :
    IsLink(mem[t][i]) => mem[t][i].to \in Table /\ level[mem[t][i].to] = level[t] - 1

\* No table has two parents, except that roots share the tables of kernel entries.
OneParent ==
  \A t, u \in Directories, i, j \in Idx :
    IsLink(mem[t][i]) /\ IsLink(mem[u][j]) /\ mem[t][i].to = mem[u][j].to
      => \/ t = u /\ i = j
         \/ level[t] = 4 /\ i = j /\ i \in KernelIdx

\* A table in use is a boot table or a frame taken from the allocator.
TablesAreHeld ==
  /\ \A t \in Table : level[t] > 0 => t \in BootTables \cup held
  /\ pool \cap held = {}

\* Every live space has a root of its own.
RootsAreOwn ==
  /\ \A s \in Slot : slots[s].used => /\ slots[s].pml4_phys \in held
                                      /\ level[slots[s].pml4_phys] = 4
  /\ \A s, t \in Slot :
       slots[s].used /\ slots[t].used /\ slots[s].pml4_phys = slots[t].pml4_phys => s = t

\* The page tables form a forest, whatever the interleaving of map_4k (mmu.rs:431)
\* with the lock-free unmap_4k and protect_4k and with creation and destruction of
\* spaces.  It is what makes a mapping of one space harmless to the others and
\* address_space_destroy free each table once.
TableForest == EntriesLeadDown /\ OneParent /\ TablesAreHeld /\ RootsAreOwn

\* A table an operation is about to read or write is still a table, of the level
\* the operation takes it for: no walk outlives the tables it walks, although
\* unmap_4k and protect_4k hold no lock.
NoStaleWalk ==
  \A c \in Cpus :
    op[c].kind # "idle" =>
      /\ op[c].table \in Table
      /\ level[op[c].table] = 5 - op[c].depth
      /\ (op[c].kind = "map") <=> (lock = c)

\* mmu.rs:257, "Allocate next-level table if missing; return physical address of that
\* table": what ensure_table returned to map_4k is a table of the next level.
EnsureReturnsTable ==
  \A c \in Cpus : op[c].kind = "map" => level[op[c].table] = 5 - op[c].depth

\* Every live space maps the kernel pages that lie below the boot loader's
\* entries of the kernel root exactly as the kernel space does, now and after
\* every later change to them, by whichever space it is made.
KernelHalfShared ==
  \A h \in Handle, v \in Pages :
    Live(h) /\ v[1] \in KernelIdx /\ BootMem[BootRoot][v[1]].p
      => translate(h, v) = translate(KAS, v)

\* crates/hal/src/mmu.rs:97: a new address space inherits the kernel mappings, that is, it
\* maps every kernel page as the kernel space did when the call was made.
NewSpaceInheritsKernel ==
  [][\A s \in Slot :
       ~slots[s].used /\ slots'[s].used
         => \A v \in Pages \ UserPages : translate(s, v)' = translate(KAS, v)]_vars

\* The tables one level below the tables T, and those that live spaces still use.
Below(T) == {mem[x[1]][x[2]].to : x \in {y \in T \X Idx : IsLink(mem[y[1]][y[2]])}} \cap Table
Reachable ==
  LET roots == {BootRoot} \cup {slots[s].pml4_phys : s \in {t \in Slot : slots[t].used}}
      pdpts == Below(roots)
      pds == Below(pdpts)
  IN roots \cup pdpts \cup pds \cup Below(pds)

\* The frames the allocator handed out that belong to no live space.
Leaked == held \ Reachable

\* crates/hal/src/mmu.rs:107, "free any page-table memory": no operation loses sight of
\* a frame, neither a map_4k that runs out of memory half-way nor the destruction of a
\* space.  The one exception is address_space_new with no slot left, which changes
\* neither slots nor op (mmu.rs:375).
NoLeak ==
  [][\/ UNCHANGED <<mem, held, slots>>
     \/ slots' = slots /\ op' = op
     \/ Leaked' \subseteq Leaked]_vars

\* crates/hal/src/mmu.rs:31: a mapping with USER is accessible from user mode, which takes
\* the U bit in the entries of all four levels.
UserMappingsAccessible ==
  \A h \in Handle, v \in UserPages :
    Live(h) /\ translate(h, v).p /\ "U" \in translate(h, v).bits
      => LET pdpt == Descend(Root(h), v[1])
             pd == Descend(pdpt, v[2])
         IN /\ "U" \in mem[Root(h)][v[1]].bits
            /\ "U" \in mem[pdpt][v[2]].bits
            /\ "U" \in mem[pd][v[3]].bits

\* crates/hal/src/mmu.rs:130: protect_4k updates the flags of an existing mapping and never
\* maps or remaps a page.
ProtectNeverRemaps ==
  [][\A c \in Cpus :
       LET e == mem[op[c].table][op[c].v[4]] IN
       op[c].kind = "protect" /\ op'[c].kind = "idle"
         => e.p /\ mem'[op[c].table][op[c].v[4]].to = e.to]_vars

\* Every operation returns, so PT_ALLOC is never held for ever.
OperationsReturn == \A c \in Cpus : op[c].kind # "idle" ~> op[c].kind = "idle"

\* The user halves implement independent partial functions from pages to entries.
Views == INSTANCE AddressSpaces WITH
           UserPage <- UserPages,
           live <- {h \in Handle : Live(h)},
           view <- [h \in Handle |-> [v \in UserPages |->
                      IF Live(h) THEN translate(h, v) ELSE Zero]]
ImplementsAddressSpaces == Views!Spec

\* The MMU is a proper client of the frame allocator: it gives back only frames
\* it holds.
Allocator == INSTANCE FramePool WITH Frame <- Frames, free <- pool
UsesAllocator == Allocator!Spec
=============================================================================
