# RincOS: TLA+ models and proofs

These modules model the parts of RincOS that carry state: page-table memory, address
spaces, TLBs, the boot with its descriptor tables, interrupts and the tick, the trap stubs
and the boot information. TLC checks them on small instances, and TLAPS proves the main
safety properties of all of them for every instance. Paths are relative to the repository root.

## The system

| Part | Source | Module | Status |
|---|---|---|---|
| Page-table frame allocator `BootPtAlloc` | `kernel/src/svc/vm.rs` | `FrameAlloc` (abstract: `FramePool`) | modelled; safety and refinement proved |
| Address spaces, four-level page tables | `arch/x86_64/src/mmu.rs`, `vm.rs` | `X86Mmu` (abstract: `AddressSpaces`, `FramePool`) | partly: without calls that are rejected for their address; safety and refinement proved |
| TLB flushes, shootdown, `current()` | `mmu.rs`, `apic.rs`, `interrupts/mod.rs` | `Tlb` | modelled, proved |
| Boot order, CPU features, GDT, TSS, IDT | `kernel/src/{main,kmain}.rs`, `arch/x86_64/src/{lib,gdt,tss,idt}.rs` | `Boot`, `Descriptors`, `Tss` | modelled byte by byte, proved |
| Timer and tick | `tsc.rs`, `crates/hal/src/time.rs`, `kernel/src/time.rs` | `Boot` | modelled on a counter that wraps; safety proved |
| Interrupt dispatch, fault policy | `interrupts/mod.rs`, `crates/hal/src/interrupt.rs`, `kernel/src/{interrupts,panic}.rs` | `Boot`, `Trap`, `Tlb` | modelled; safety proved |
| Trap stubs | `interrupts/stubs.S` | `Trap` | modelled, proved |
| Local APIC | `apic.rs` | `Boot`, `Tlb` | partly: the registers of both modes; an IPI by its effect |
| Boot information | `crates/bootloader/limine/src/lib.rs`, `kernel/src/{main,kmain}.rs`, `vm.rs` | `BootInfo` | modelled up to what the kernel prints and checks; proved |
| CPUID and MSR access | `cpuid.rs`, `msr.rs` | `Boot` | partly: the decoding of the leaves |
| Serial port, console, logging | `serial.rs`, `kernel/src/log` ... | - | pure output |
| IPC, scheduler, AArch64, UEFI platform | `kernel/src/svc/{ipc,sched}.rs`, `arch/aarch64`, `platform/uefi` | - | stubs |

How they interact: `kentry` gathers the boot information and calls `kmain`, which builds
the tables, registers the fault handler, initialises the MMU, the APIC and the tick, and
idles with interrupts on. `vm.rs` serves the MMU operations: it locks `PT_ALLOC` around
creation, destruction and `map_4k`, and takes no lock for `unmap_4k`, `protect_4k` and
`translate`. The MMU takes its tables from the allocator, which walks the memory map in
the boot information.

The kernel is run on one CPU today (`tools/run-x86_64-qemu.sh` passes `-smp 1`). The code
for several is there (per-CPU slots, the lock, shootdown interrupts), so `X86Mmu` and `Tlb`
have any number of CPUs; what they show of two is about that code, ahead of its use.

## Modules

**FramePool / FrameAlloc.** The state is the struct `BootPtAlloc` plus two history
variables, `held` (frames with a client) and `lost` (frames dropped because the free list
was full). An allocation is one of four actions: from the list, from the map, failed at an
entry whose bounds overflow, failed at the end. The loop of `next_from_map` is the
predicate `StopsAt`. Addresses are numbers up to `U64_MAX`; `align_up` and both
`checked_add`s are arithmetic. `FramePool` is the trait `PageTableFrameAlloc`.
A client frees only frames it holds; the memory map is well formed (`WellFormed`): usable
entries overlap nothing and no base lies in the last partial page.

**AddressSpaces / X86Mmu.** A table frame is a function from indices to entries; a virtual
page is the tuple of its four indices. `map_4k` is a step per level (`ensure_table`) and
one for the leaf, under the lock; `unmap_4k` and `protect_4k` are a walk and, later, a
write, without the lock. Creation and destruction are single steps: they hold the lock, and
nothing else reads or writes the tables they touch. `&mut AddressSpace` is exclusive
(`Borrowed`), which the Rust signatures demand. A frame holds junk until it is zeroed.
The boot loader's tables have large pages (`PTE_PS`). A walk tests `PTE_P` only, as the
code does, and so may descend into one; destruction tests both bits (`IsLink`).
`AddressSpaces` says what the trait `Mmu` promises of user halves: independent partial
functions. `X86Mmu` also refines `FramePool`, so that the two modules meet at the trait.

**Tlb.** The page tables are one entry per page and space, which `X86Mmu` justifies; kernel
pages share theirs (`KernelHalfShared`). Each operation is its write followed by its
`invlpg`, so that interrupts and other CPUs come in between. Hardware steps are `Fill` and
`IpiEnter`. `dirty` is history: the pages others changed with no shootdown sent since.

**Boot, Descriptors, Tss.** `Boot` is one CPU: a program counter over the steps of `kentry`,
`kmain` and `init_core`. Its state is the descriptor tables and the registers loaded from
them, the bits of CR0, CR4 and EFER with the flags that remember them, the APIC's mode, base
and registers, the timer, the handler of the tick in five steps, and faults. `machine` is
what CPUID and firmware offer; `tsc.rs` and `cpuid.rs` decode it in the model too, with the
saturating product and the ratio. Counter and deadline wrap around at `U64_MAX`, and the
history variable `wrapped` notes a deadline that came out as 0, which disarms the timer.
`Descriptors` builds GDT entries, the TSS descriptor and the gates as bytes and reads them
back as the CPU does. `Tss` computes the bytes of `struct Tss64` under `repr(C)`.

**Trap.** The stack as a sequence of words tagged with what they are and whose; the frame
that the dispatcher hands to the kernel's handler, with CR2 read after the stub; the
handler's choice between return and panic.

**BootInfo.** `gather_bootinfo` as steps over the two static buffers, then `print_boot_info`
and the checks of `vm::init`, which follow the pointers back. The boot loader's answers, any
of which may be missing, and its memory are the initial states. Alignment, bounds and the
search for NUL are computed as in the code. Entries of the memory map may overlap; a string
is then bounded by the first entry it starts in (`StartsIn`), which is where the code's loop
stops.

Definitions with a suffix such as `Fits_StartOnly` are faulty variants of the definition
below them. They are used by no specification; each shows that some property notices it.

## Runs

Deadlock is checked except where the system may stop: the allocator with no memory left,
the panic loop, and `gather_bootinfo`, which returns.

| Run | Configuration | States | What it shows |
|---|---|---|---|
| framealloc | `MCFrameAlloc.cfg` | 29,652 | disjoint whole usable frames, no overflow in `align_up`, `None` only when nothing is left, refinement of `FramePool` |
| mmu_smp | `MCX86Mmu_smp.cfg` | 167,132 | two CPUs: forest, no stale walk, shared kernel half, no frame lost, refinement of `AddressSpaces` and `FramePool`, operations return |
| tlb | `MCTlb_switch.cfg` | 1,738,578 | shootdown reaches every ordinary entry; `current()` is right |
| tlb_live | `MCTlb_live.cfg` | 95,986 | stale entries go away |
| boot | `MCBoot_boot.cfg` | 25,410 | selectors and gates decode to what the CPU needs, NX only where it exists, interrupts only when ready, exactly one tick outstanding, ticks go on, faults end in a panic |
| bootinfo | `MCBootInfo_gather.cfg` | 60,984 | strings and memory map arrive as they were; the kernel starts exactly when it got what it needs |
| trap | `MCTrap.cfg` | 78,541 | contexts, frames and returns are exact, nested |

Five runs end in a counterexample, and show a statement of the source that the code does
not keep:

| Run | Statement | What happens |
|---|---|---|
| mmu_useraccess | `crates/hal/src/mmu.rs:31` "user mode can access" | a USER page below tables made without USER is not accessible |
| mmu_large | `mmu.rs:257` "return physical address of that table" | for a page inside a large page `ensure_table` returns the large page |
| tlb_global | `mmu.rs:313` "full flush is safe for now" | the reload of CR3 keeps global entries |
| boot_earlyfault | `kernel/src/interrupts.rs:28` "fatal faults abort the current execution context" | before `interrupts::init` a fault repeats for ever |
| boot_ist | `idt.rs:59` "vec 8 = #DF uses IST1" | padding moves `ist[0]` to offset 40; the CPU reads 36 |

Further configurations, to be run by hand. One passes: `MCX86Mmu_isolation.cfg` (157,301
states, full mappings in two spaces on one CPU). The others end in a counterexample, for
statements that fail under narrower circumstances: `MCX86Mmu_remap.cfg` ("no remap",
`crates/hal/src/mmu.rs:130`: `protect_4k` of a shared kernel page against an unmap through
another handle), `MCX86Mmu_kernelleak.cfg` ("free any page-table memory", line 107: tables a
space made in its own kernel half), `MCX86Mmu_reclaim.cfg` (boot tables in reclaimable
memory are handed out, `vm.rs:174`), `MCTlb_current.cfg` (a boot CPU whose APIC identifier
is not 0), `MCBoot_apicbase.cfg` ("bits 12..35", `apic.rs:51`: the mask keeps 12 to 31) and
`MCBootInfo_physical.cfg` ("entries_ptr is physical", `crates/bootabi/src/lib.rs:178`).

**Bounds.** *FrameAlloc*: 4-byte pages, 5-bit addresses, two free-list slots: small enough
to overfill the list, to run out and to reach the end of the address range; maps of up to
three entries in any order. *X86Mmu*: entry 0 of a root is user, the others kernel; the boot
loader's tables map one kernel page and, next to it, a large page. With four frames
`mmu_smp` runs out at every level and of its two slots. The seven of the isolation
configuration are one full path for each of two spaces, minus the root the kernel space has.
*Tlb*: two CPUs and one page, since TLB entries of different pages never interact; two
entries to tell an old one from a new. *Boot*: a 3-bit counter, so that it wraps while the
kernel runs; ticks of 0, 2 and 3 units, so that the deadline is met and missed; seven
answers for the clock, among them one that saturates and one that is 0; extended leaves
absent and present. *Trap*: nine vectors (with and without error code, timer, shootdown) and
depth 3, so that a dispatcher that was interrupted is itself an interrupter. *BootInfo*: 16
bytes of memory, a buffer that holds one or two strings, maps around `MAX_MEMMAP`, one with
entries that overlap and one with an entry that overflows; every combination of strings and maps, and every combination of missing answers.

`mmu_smp` and the isolation configuration reduce the state space. Free frames are
interchangeable, since no definition orders them, so `LowestFrame` lets an allocation take
the lowest. `TablesInUse` identifies states that differ in the contents of frames that are
not tables: those are overwritten before they are read, because no page of these runs lies
in the large page. Both commute with every action and leave the action of each step alone,
so behaviours, and `OperationsReturn`, are the same up to the names of frames. `mmu_large`
uses neither.

**Fairness.** *X86Mmu*: a CPU inside an operation goes on with it; none has to start one.
*Tlb*: the same, and an interrupt that is requested is taken, since `kmain` leaves
interrupts on. *Boot*: the CPU executes, the TSC counts, the timer fires, an enabled
pending interrupt is taken, a fault is delivered. All are weak: no step depends on winning a
race for ever. The spin lock needs none, because waiting for it is not modelled as a step.

## Proofs

| Theorem | Property | Premises |
|---|---|---|
| `FrameAllocProofs!TypeCorrect` | `TypeOK` | |
| `FrameAllocProofs!FramesNeverShared` | `NoDoubleAllocation` | |
| `FrameAllocProofs!FramesComeFromUsableMemory` | `FramesUsable` | |
| `FrameAllocProofs!AlignUpNeverOverflows` | `AlignUpFits` | |
| `FrameAllocProofs!GivesUpOnlyWhenExhausted` | `NoneOnlyWhenExhausted` | |
| `FrameAllocProofs!AllocatorImplementsPool` | `ImplementsPool` | |
| `X86MmuProofs!TypeCorrect` | `TypeOK` | tables, pages |
| `X86MmuProofs!TablesFormForest` | `TableForest` | tables, pages |
| `X86MmuProofs!WalksNeverStale` | `NoStaleWalk` | tables, pages |
| `X86MmuProofs!KernelHalfIsShared` | `KernelHalfShared` | tables, pages |
| `X86MmuProofs!NoFrameLost` | `NoLeak` | tables, pages, `NoPageInEmptyEntry` |
| `X86MmuRefines!MmuUsesAllocator` | `UsesAllocator` | tables, pages |
| `X86MmuRefines!MmuImplementsAddressSpaces` | `ImplementsAddressSpaces` | tables, pages |
| `X86MmuRefines!NewSpacesInheritKernel` | `NewSpaceInheritsKernel` | tables, pages |
| `X86MmuRefines!EnsureReturnsTables` | `EnsureReturnsTable` | tables, pages |
| `TlbProofs!TypeCorrect` | `TypeOK` | |
| `TlbProofs!ShootdownReachesAll` | `ShootdownReaches` | |
| `TlbProofs!CurrentIsTheActiveSpace` | `CurrentIsActive` | `IdsFitSlots` |
| `BootProofs!FeaturesAlwaysAgree` | `FeaturesAgree` | |
| `BootProofs!InterruptsWaitUntilReady` | `InterruptsOnlyWhenReady` | `ApicBelow4G` |
| `BootProofs!OneTickAlwaysOutstanding` | `OneTickOutstanding` | `ApicBelow4G` |
| `BootProofs!SelectorsAlwaysDescribed` | `SelectorsDescribed` | `is_canonical(TSS_ADDR)` |
| `BootProofs!BootTypeOK` | `TypeOK` | |
| `BootInfoProofs!StringsApart` | `SpansDisjoint` | |
| `BootInfoProofs!MapAlwaysFaithful` | `MapFaithful` | |
| `BootInfoProofs!StartsExactlyWhenAnswered` | `StartsOrPanics` | |
| `BootInfoProofs!StringsAlwaysDelivered` | `StringsDelivered` | |
| `BootInfoProofs!BootInfoTypeOK` | `TypeOK` | |
| `TrapProofs!TypesKept` | `TypeOK` | |
| `TrapProofs!ContextTheorem` | `ContextDescribesTrap` | |
| `TrapProofs!FrameTheorem` | `FrameDescribesTrap` | |
| `TrapProofs!ResumesTheorem` | `ResumesExactly` | |

"Tables" is `BootTablesOutsidePool`: the allocator does not own the boot loader's tables.
"Pages" is `NoPageInLarge`: no client names a page inside a large page of the boot loader.
`NoPageInEmptyEntry` says that no client names a kernel page below a root entry that the boot
loader left empty. These premises are needed: `MCX86Mmu_reclaim.cfg`, `MCX86Mmu_large.cfg`,
`MCX86Mmu_kernelleak.cfg`, `MCTlb_current.cfg` and `MCBoot_apicbase.cfg` show what happens
without them. The TSS is a static of the kernel, so its address is canonical; for another one
the code would build no descriptor. All theorems also use the `ASSUME`s of
their modules, which TLC evaluates in the runs.

*FrameAlloc.* That frames are disjoint is not inductive: a new frame must be known to be
new. `BehindCursor` adds that every frame in play lies in a usable entry that the cursor has
passed, or in the part of the current entry below `cur_addr`. A candidate lies at or after
the cursor, so it is clear of them all. `cur_addr` stays aligned, and the size of the
address range is a multiple of the page, hence rounding up cannot overflow. The converse,
`Accounted`, says that every page of an entry the scan can reach is in play or ahead of the
cursor; `Passed` says that the cursor skipped no entry that overflows, so that the entry it
yields a frame of is one of those. An entry that is skipped has no page ahead, because
`align_up` yields the least multiple. From the two follow that `None` means exhaustion and
that each step is one of the pool's: an allocation takes its frame out of the free list or
out of the pages ahead, and the two never meet.

*X86Mmu.* The difficulty is the walk without the lock. `OpsOnPath` says that the table an
operation stands on is where the walk for its page still leads from the root of its space.
It is stable because present directory entries never change while their table is in use,
and because a space in use by an operation cannot be destroyed (`Exclusive`, and the guard
of destruction). `HeldBelow` says that what destruction frees came from the allocator and
not from the boot loader, `BootKept` that the boot loader's directories keep their entries,
and `KernelLinks` that all roots carry the boot loader's kernel entries. The invariant and the
steps over tables that exist are in `X86MmuOps`; the steps that make a table, destruction and
the theorems are in `X86MmuProofs`.

That no frame is lost is a property of steps. `Leaked` is what is held and cannot be reached
from a root, so each step must reach all that it does not give back. The tables below the
roots are four layers of links (`Tree`, which is `Reachable`). Links in use never change, hence
every layer survives `map_4k`, and a new table hangs below one of them. Destruction is the hard
case: it frees the user half only, so what hangs in the kernel half of the root must also hang
below another. `KernelFixed`, the invariant this takes beyond the others, says that no root
has a kernel entry that the boot root lacks; then `KernelLinks` gives the other root. Without
the premise `ensure_table` breaks it.

*X86MmuRefines.* Each write of a leaf must change one page of one space and nothing else.
Walks for different user pages, or for different roots, end in different entries
(`WalkUnique`, from the forest), and the entry an operation is about to write is still the
one its page translates by (`OpsStillMapped`). The other steps leave all views alone, make
an empty one or end one.

*Tlb.* A stale ordinary entry always has an excuse: the CPU's own `invlpg` is to come, a
shootdown is requested or being handled, or none was sent. A write creates the excuse, and
each step that ends one flushes the entry. Sending clears `dirty` only together with the
request, for which the APIC must be up (`SendsWithApic`). `current()` needs `IdsFitSlots`:
before `apic::init` every CPU uses slot 0.

*Boot.* `InOrder` says for each program counter what was set up before it: segments, IDT,
TSS, handler, APIC with the timer entry in deadline mode. On it rest `FeatureInv` (the
flags agree with CR4 and EFER), `InterruptInv` (interrupts are on only in the idle loop with
everything up) and `TickInv` (the tick is in exactly one place: armed, pending, or in a
handler that has yet to re-arm it). `ApicBelow4G` is needed because `apic::init` drops the
upper bits of the base, and the registers would be written elsewhere. `TableInv` says what
each descriptor table holds at each step. The table that GDTR points to is rewritten in use,
and is always one of three: without the TSS, with it, and with it marked busy. That these
decode to 64-bit code, data, the TSS and the stubs is shown byte by byte: the descriptors
scatter the bytes of an address, and the CPU's reading gathers them again. The type invariant
rests on the bounds of quotients: frequency and period come from products that saturate, the
deadline from a sum that wraps.

*BootInfo.* `SpanInv` bounds the used part of the string buffer and places both strings
below it, rounded up to the alignment. `Gathered` and `Taken` say, step by step, which
fields of `BootInfo` repeat which answer; the memory map is compared entry by entry, with
its conversion of types, up to the size of the buffer. `ViewInv` says that what the strings are
looked up in is that copy. On it rests `TextInv`: once copied, each span still reads as the
string its pointer refers to. The copy of the second string keeps the first because the
buffer only grows, and a span the kernel prints lies in the used part. `IsCString` follows from
the search for NUL, which ends at the first one inside the entry and the length limit.

*Trap.* The invariant describes the whole stack: `Layout` gives the height of every trap's
part and each word in it, `Contexts` says that a context is what the words at its height say,
`Nesting` relates the phases of an interrupter and what it interrupted, and `Handling` says
when the handler runs and that CR2 still belongs to the trap on top. Pushing and popping the
15 registers are opposite orders (`OppositeOrders`), from which follows that the return reads
back what the stub wrote. The depth of nesting is any number.

Only model-checked are the liveness properties, whose fairness is outside the reach of the
prover: `OperationsReturn`, `StaleGoes`, `TicksGoOn` and `LateFaultsAbort`.

## Not modelled

Paging-structure caches. Destruction of a space that is active somewhere, and use of a
handle after destruction, which the `&'static mut` handle is meant to exclude. Calls
rejected for an unaligned or non-canonical address, which change nothing, and the base of
the direct map, which every access to a table adds in the same way. The spurious vector, which has no gate.
The wait for the delivery status of an IPI, a poll of one register. Interrupts of other
devices, which the masked PIC does not deliver. The framebuffer answer, which
`gather_bootinfo` never reports. Overflow checks of the debug build, beyond those of
`FrameAlloc`. Serial port, console and logging are output without state that another part
reads; IPC, scheduler, AArch64 and UEFI platform have no behaviour yet.

`PT_ALLOC` is a lock whose waiting is not a step. No interrupt handler calls into `vm.rs`,
so the case of a handler that waits for a lock its own CPU holds cannot arise in the code as
it is; a handler that maps memory would bring it about.
