-------------------------------- MODULE Boot --------------------------------
(***************************************************************************)
(* One CPU from kentry to the idle loop of kmain, with the exceptions and  *)
(* timer interrupts that it takes on the way and afterwards.  The steps of *)
(* the boot are in the order of kentry, kmain and arch::init_core.  The    *)
(* answers of CPUID and of the firmware are the input.                     *)
(***************************************************************************)
EXTENDS Descriptors

CONSTANTS
  Machines,          \* what CPUs and firmware may offer
  U64_MAX,           \* the largest u64: the TSC wraps after it
  MHZ,               \* a megahertz,
  TICK_NS, SECOND,   \*   the period of the tick and a second, in one unit
  TSS_ADDR           \* the address of the static TSS

VARIABLES
  machine,           \* the machine at hand; never changes
  pc,                \* the step of the boot that comes next
  IF_flag,           \* RFLAGS.IF
  GDT, TSS_DESC, FULL,   \* the three tables of gdt.rs, byte by byte
  tss,               \* the fields of the task state segment
  loaded,            \* registers loaded from the tables: "gdtr", "cs", "ds", "tr", "idtr"
  IDT,               \* the gates that are set
  features,          \* bits that are set in CR0, CR4 and EFER
  NXE_ENABLED,
  HANDLER_SET, TIMER, TSC_HZ,
  APIC_MODE, LAPIC_BASE, \* the page of the local APIC, as apic.rs computed it
  lapic,             \* the registers of the local APIC, by offset
  tsc, deadline,     \* the time stamp counter, IA32_TSC_DEADLINE (0 is disarmed)
  now,               \* what arm_next_tick read from the counter
  irr, isr,          \* timer vector requested, in service
  tick,              \* where the timer interrupt handler stands
  wrapped,           \* history: a deadline wrapped around to exactly 0
  faulty, exc        \* the current instruction faults; its handler runs

tables == <<GDT, TSS_DESC, FULL, tss, loaded, IDT>>
cpu == <<features, NXE_ENABLED>>
hal == <<HANDLER_SET, TIMER, TSC_HZ>>
apic == <<APIC_MODE, LAPIC_BASE, lapic>>
timer == <<tsc, deadline, now, irr, isr, tick, wrapped>>
fault == <<faulty, exc>>
vars == <<machine, pc, IF_flag, tables, cpu, hal, apic, timer, fault>>

Machine == [max_leaf : Nat, leaf15 : Nat \X Nat \X Nat, leaf16 : Nat, max_ext : Nat,
            nx : BOOLEAN, invariant : BOOLEAN, x2apic : BOOLEAN, tsc_deadline : BOOLEAN,
            apic_base : Nat, memmap : BOOLEAN]

ASSUME BootAssumption ==
  /\ Machines \subseteq Machine /\ \A m \in Machines : m.leaf16 * MHZ <= U64_MAX
  /\ U64_MAX \in Nat \ {0} /\ MHZ \in Nat /\ TICK_NS \in Nat /\ SECOND \in Nat \ {0}
  /\ TSS_ADDR \in [1 .. 8 -> 0 .. 255]

TIMER_VEC == 224
TLB_SHOOTDOWN_VEC == 225

-----------------------------------------------------------------------------
\* Hardware: the CPU knows EFER.NXE and bit 63 of a table entry.
SupportsNx == machine.max_ext >= 1 /\ machine.nx

\* The highest extended leaf is not looked at.
has_nx_AnyLeaf == machine.nx

\* cpuid.rs.  The extended leaves count from 0x8000_0000, the others from 0; nx and
\* invariant are what the CPU answers, also for a leaf it does not have.
has_leaf(leaf) == leaf <= machine.max_leaf
has_invariant_tsc == machine.max_ext >= 7 /\ machine.invariant
has_nx == machine.max_ext >= 1 /\ machine.nx
has_x2apic == machine.x2apic

saturating_mul(a, b) == IF a * b > U64_MAX THEN U64_MAX ELSE a * b

\* Leaf 0x15 has the ratio (denominator, numerator) and the crystal's frequency, leaf
\* 0x16 the base frequency in MHz; 0 stands for None, as in tsc::hz.
tsc_hz ==
  LET denom == machine.leaf15[1]
      numer == machine.leaf15[2]
      crystal == machine.leaf15[3]
  IN  IF has_leaf(21) /\ denom # 0 /\ numer # 0 /\ crystal # 0
        THEN saturating_mul(crystal, numer) \div denom
      ELSE IF has_leaf(22) THEN machine.leaf16 * MHZ ELSE 0

-----------------------------------------------------------------------------
\* The registers of the local APIC that the code writes.
LAPIC_EOI == 176
LAPIC_SVR == 240
LAPIC_LVT_TIMER == 800
LAPIC_TIMER_DIV == 992

\* 1 << 8, the spurious vector 0xff; TSC-deadline mode is 2 in bits 17 and 18.
SVR_APIC_ENABLE == 256
LVT_MODE_TSC_DEADLINE == 2 * 131072
LVT_Masked(lvt) == Bit(lvt, 16)

\* Hardware: after reset the APIC is disabled by software and its entries masked.
ResetLapic == [r \in {LAPIC_EOI, LAPIC_SVR, LAPIC_LVT_TIMER, LAPIC_TIMER_DIV} |->
                 IF r = LAPIC_SVR THEN 255 ELSE IF r = LAPIC_LVT_TIMER THEN 65536 ELSE 0]

\* apic::write at an offset: x2APIC registers are MSRs from 0x800 on, one per 16 bytes,
\* which the hardware maps back; the xAPIC is reached when the page is right.
apic_msr(off) == 2048 + off \div 16
Register(mode, off) == IF mode = "x2apic" THEN (apic_msr(off) - 2048) * 16 ELSE off
Reachable(mode, base) ==
  mode = "x2apic" \/ (mode = "xapic" /\ base = machine.apic_base)

\* The registers after the writes ws (offset, value), in order.
Written(mode, base, ws) ==
  IF Reachable(mode, base)
    THEN [r \in DOMAIN lapic |->
            LET hits == {i \in 1 .. Len(ws) : Register(mode, ws[i][1]) = r}
            IN  IF hits = {} THEN lapic[r]
                ELSE ws[CHOOSE i \in hits : \A j \in hits : j <= i][2]]
    ELSE lapic

\* Hardware: the timer raises the vector of its entry when the APIC is enabled and the
\* entry is unmasked and in TSC-deadline mode.
Bits17And18(lvt) == (lvt \div 131072) % 4
DeadlineMode == Bits17And18(lapic[LAPIC_LVT_TIMER]) = 2
TimerDelivers == /\ DeadlineMode /\ ~LVT_Masked(lapic[LAPIC_LVT_TIMER])
                 /\ Bit(lapic[LAPIC_SVR], 8)
TimerVector == lapic[LAPIC_LVT_TIMER] % 256

-----------------------------------------------------------------------------
Init ==
  /\ machine \in Machines
  /\ pc = "early_init"
  /\ IF_flag \in BOOLEAN
  /\ GDT = gdt_null \o gdt_null \o gdt_null
  /\ TSS_DESC = NoTssDesc /\ FULL = GDT \o TSS_DESC
  /\ tss = Zeroed
  /\ loaded = {} /\ IDT = <<>>
  /\ features \in SUBSET {"EM", "TS", "NXE"} /\ ("NXE" \in features => SupportsNx)
  /\ NXE_ENABLED = FALSE
  /\ HANDLER_SET = FALSE /\ TIMER = FALSE /\ TSC_HZ = 0
  /\ APIC_MODE = "none" /\ LAPIC_BASE = 0 /\ lapic = ResetLapic
  /\ tsc = 0 /\ deadline = 0 /\ now = 0 /\ irr = FALSE /\ isr = FALSE
  /\ tick = "none" /\ wrapped = FALSE
  /\ faulty = FALSE /\ exc = FALSE

\* The boot code executes step l, outside any handler, and goes on to m.
At(l) == pc = l /\ tick = "none" /\ ~faulty
Go(l, m) == At(l) /\ pc' = m /\ UNCHANGED <<machine, timer, fault>>

-----------------------------------------------------------------------------
\* early_init without cli.
early_init_NoCli ==
  /\ Go("early_init", "gather_bootinfo")
  /\ features' = (features \ {"EM", "TS"}) \cup {"MP", "NE", "OSFXSR", "OSXMMEXCPT"}
  /\ UNCHANGED <<IF_flag, tables, NXE_ENABLED, hal, apic>>

\* arch::early_init with enable_sse.
early_init ==
  /\ Go("early_init", "gather_bootinfo")
  /\ IF_flag' = FALSE
  /\ features' = (features \ {"EM", "TS"}) \cup {"MP", "NE", "OSFXSR", "OSXMMEXCPT"}
  /\ UNCHANGED <<tables, NXE_ENABLED, hal, apic>>

\* gather_bootinfo is module BootInfo; the console has no state of this module.
gather_bootinfo ==
  /\ Go("gather_bootinfo", "init_tss")
  /\ UNCHANGED <<IF_flag, tables, cpu, hal, apic>>

\* init_core: the tables of gdt.rs and tss.rs.
init_tss ==
  /\ Go("init_tss", "build_gdt_entries")
  /\ tss' = [tss EXCEPT !["rsp0"] = "boot_stack", !["ist1"] = "df_stack",
                        !["iopb_offset"] = "tss_size"]
  /\ UNCHANGED <<IF_flag, GDT, TSS_DESC, FULL, loaded, IDT, cpu, hal, apic>>

build_gdt_entries_only ==
  /\ Go("build_gdt_entries", "build_full_table")
  /\ GDT' = SubSeq(GDT, 1, 8) \o gdt_code64 \o gdt_data
  /\ UNCHANGED <<IF_flag, TSS_DESC, FULL, tss, loaded, IDT, cpu, hal, apic>>

\* Copies GDT and TSS_DESC; the second time while the CPU uses the copy.
build_full_table ==
  /\ Go("build_full_table", "load_gdt") \/ Go("rebuild_full_table", "load_tss")
  /\ FULL' = GDT \o TSS_DESC
  /\ UNCHANGED <<IF_flag, GDT, TSS_DESC, tss, loaded, IDT, cpu, hal, apic>>

load_gdt ==
  /\ Go("load_gdt", "reload_segments")
  /\ loaded' = loaded \cup {"gdtr"}
  /\ UNCHANGED <<IF_flag, GDT, TSS_DESC, FULL, tss, IDT, cpu, hal, apic>>

reload_segments ==
  /\ Go("reload_segments", "init_idt")
  /\ loaded' = loaded \cup {"cs", "ds"}
  /\ UNCHANGED <<IF_flag, GDT, TSS_DESC, FULL, tss, IDT, cpu, hal, apic>>

\* The exceptions, the sixteen legacy lines, the timer and the shootdown get a gate.
Vectors == (0 .. 31) \cup (32 .. 47) \cup {TIMER_VEC, TLB_SHOOTDOWN_VEC}

init_idt ==
  /\ Go("init_idt", "mask_legacy_pic")
  /\ IDT' = [vec \in Vectors |-> set_gate(Stub(vec), IF vec = 8 THEN 1 ELSE 0)]
  /\ loaded' = loaded \cup {"idtr"}
  /\ UNCHANGED <<IF_flag, GDT, TSS_DESC, FULL, tss, cpu, hal, apic>>

\* The legacy interrupt controllers get no vectors: no state of this module.
mask_legacy_pic ==
  /\ Go("mask_legacy_pic", "build_tss_desc")
  /\ UNCHANGED <<IF_flag, tables, cpu, hal, apic>>

build_tss_desc ==
  /\ Go("build_tss_desc", "rebuild_full_table")
  /\ TSS_DESC' = IF is_canonical(TSS_ADDR) THEN make_tss_desc(TSS_ADDR, SizeOf) ELSE TSS_DESC
  /\ UNCHANGED <<IF_flag, GDT, FULL, tss, loaded, IDT, cpu, hal, apic>>

\* ltr on a descriptor that is not an available TSS faults.
load_tss ==
  /\ At("load_tss")
  /\ IF TssType(Descriptor(FULL, TSS_SEL, 16)) = 9
       THEN /\ pc' = "init_mmu"
            /\ loaded' = loaded \cup {"tr"}
            /\ FULL' = MarkBusy(FULL, TSS_SEL)
            /\ UNCHANGED faulty
       ELSE faulty' = TRUE /\ UNCHANGED <<pc, loaded, FULL>>
  /\ UNCHANGED <<machine, IF_flag, GDT, TSS_DESC, tss, IDT, cpu, hal, apic, timer, exc>>

-----------------------------------------------------------------------------
\* mmu::init_features.
init_features(enable_nx) ==
  /\ features' = features \cup {"WP", "PGE"} \cup (IF enable_nx /\ has_nx THEN {"NXE"} ELSE {})
  /\ NXE_ENABLED' = (enable_nx /\ has_nx)

\* init_mmu, after init_core.
init_mmu ==
  /\ Go("init_mmu", "interrupts_init")
  /\ init_features(FALSE)
  /\ UNCHANGED <<IF_flag, tables, hal, apic>>

interrupts_init ==
  /\ Go("interrupts_init", "vm_init")
  /\ HANDLER_SET' = TRUE
  /\ UNCHANGED <<IF_flag, tables, cpu, TIMER, TSC_HZ, apic>>

enable_nx == IF NXE_ENABLED \/ ~has_nx THEN UNCHANGED cpu ELSE init_features(TRUE)

\* vm::init: without HHDM or memory map it panics; it ends with enable_nx.  What it
\* does to the address spaces is VmInit of module Tlb.
vm_init ==
  /\ At("vm_init")
  /\ IF machine.memmap THEN pc' = "init_time_source" /\ enable_nx
                       ELSE pc' = "panic" /\ UNCHANGED cpu
  /\ UNCHANGED <<machine, IF_flag, tables, hal, apic, timer, fault>>

\* tsc::init
init_time_source ==
  /\ Go("init_time_source", "apic_init")
  /\ TSC_HZ' = IF has_invariant_tsc THEN tsc_hz ELSE 0
  /\ UNCHANGED <<IF_flag, tables, cpu, HANDLER_SET, TIMER, apic>>

\* What apic::init writes, in both modes.
Programmed == <<<<LAPIC_SVR, SVR_APIC_ENABLE + 255>>, <<LAPIC_TIMER_DIV, 11>>,
                <<LAPIC_LVT_TIMER, TIMER_VEC + LVT_MODE_TSC_DEADLINE>>>>

\* init_irqs: apic::init, which always succeeds.  The page of the xAPIC is bits 12 to 31
\* of the MSR.
apic_init ==
  /\ Go("apic_init", "register_timer")
  /\ APIC_MODE' = IF has_x2apic THEN "x2apic" ELSE "xapic"
  /\ LAPIC_BASE' = IF has_x2apic THEN LAPIC_BASE ELSE machine.apic_base % 1048576
  /\ lapic' = Written(APIC_MODE', LAPIC_BASE', Programmed)
  /\ UNCHANGED <<IF_flag, tables, cpu, hal>>

\* init_irqs: the timer is registered when tsc::init returned true.
register_timer ==
  /\ Go("register_timer", "time_init")
  /\ TIMER' = has_invariant_tsc
  /\ UNCHANGED <<IF_flag, tables, cpu, HANDLER_SET, TSC_HZ, apic>>

enable_interrupts ==
  /\ Go("enable_interrupts", "idle")
  /\ IF_flag' = TRUE
  /\ UNCHANGED <<tables, cpu, hal, apic>>

frequency_hz == IF TIMER THEN TSC_HZ ELSE 0
TicksPerPeriod == [hz \in 0 .. U64_MAX |-> saturating_mul(TICK_NS, hz) \div SECOND]
ticks == TicksPerPeriod[frequency_hz]

-----------------------------------------------------------------------------
\* A plain addition.
Deadline_Unbounded == now + ticks

\* now.wrapping_add(ticks)
Deadline == (now + ticks) % (U64_MAX + 1)

\* arm_next_tick, called by time::init and by the handler, reads the TSC, unless there is
\* no frequency or the period comes out as 0, and later writes IA32_TSC_DEADLINE, which
\* the hardware ignores in another timer mode.  A CPU without that register faults.
ArmOneShot ==
  /\ faulty' = ~machine.tsc_deadline
  /\ deadline' = IF machine.tsc_deadline /\ DeadlineMode THEN Deadline ELSE deadline
  /\ wrapped' = (wrapped \/ (machine.tsc_deadline /\ Deadline = 0))
  /\ UNCHANGED <<machine, IF_flag, tables, cpu, hal, apic, tsc, now, irr, isr, exc>>

time_init ==
  /\ At("time_init")
  /\ IF ticks = 0 THEN pc' = "enable_interrupts" /\ UNCHANGED now
                  ELSE pc' = "arm_first" /\ now' = tsc
  /\ UNCHANGED <<machine, IF_flag, tables, cpu, hal, apic, tsc, deadline, irr, isr, tick,
                 wrapped, fault>>

arm_first ==
  /\ At("arm_first")
  /\ ArmOneShot
  /\ pc' = IF machine.tsc_deadline THEN "enable_interrupts" ELSE pc
  /\ UNCHANGED tick

-----------------------------------------------------------------------------
\* Hardware: the deadline is due when the counter has reached it, or is past it when
\* it is written.  The counter counts until then; what it did before time::init reads
\* it makes no difference.
Due == deadline # 0 /\ tsc >= deadline
Elapse ==
  /\ pc \in {"time_init", "arm_first", "enable_interrupts", "idle"} /\ ~Due
  /\ tsc' = (tsc + 1) % (U64_MAX + 1)
  /\ UNCHANGED <<machine, pc, IF_flag, tables, cpu, hal, apic, deadline, now, irr, isr, tick,
                 wrapped, fault>>

\* Hardware: the timer fires and disarms itself.
Fire ==
  /\ Due
  /\ irr' = (irr \/ TimerDelivers)
  /\ deadline' = 0
  /\ UNCHANGED <<machine, pc, IF_flag, tables, cpu, hal, apic, tsc, now, isr, tick, wrapped,
                 fault>>

\* Hardware: the interrupt gate clears IF.
TimerEnter ==
  /\ IF_flag /\ irr /\ ~isr /\ ~faulty
  /\ TimerVector \in DOMAIN IDT
  /\ IF_flag' = FALSE
  /\ irr' = FALSE /\ isr' = TRUE /\ tick' = "dispatch"
  /\ UNCHANGED <<machine, pc, tables, cpu, hal, apic, tsc, deadline, now, wrapped, fault>>

\* The handler executes its step l.
InHandler(l) ==
  /\ tick = l /\ ~faulty /\ pc # "panic"
  /\ UNCHANGED <<machine, pc, tables, cpu, hal, apic, tsc, irr, exc>>

\* irq_dispatch and hal::interrupt::dispatch.
irq_dispatch ==
  /\ InHandler("dispatch")
  /\ tick' = IF HANDLER_SET /\ TimerVector = TIMER_VEC THEN "read" ELSE "eoi"
  /\ UNCHANGED <<IF_flag, deadline, now, isr, wrapped, faulty>>

\* The handler of the tick does not arm the next one.
on_timer_tick_Forgets ==
  /\ InHandler("read")
  /\ tick' = "eoi"
  /\ UNCHANGED <<IF_flag, deadline, now, isr, wrapped, faulty>>

on_timer_tick ==
  /\ InHandler("read")
  /\ IF ticks = 0 THEN tick' = "eoi" /\ UNCHANGED now
                  ELSE tick' = "arm" /\ now' = tsc
  /\ UNCHANGED <<IF_flag, deadline, isr, wrapped, faulty>>

arm_one_shot ==
  /\ InHandler("arm")
  /\ ArmOneShot
  /\ tick' = IF machine.tsc_deadline THEN "eoi" ELSE tick

\* irq_dispatch returns before the EOI.
eoi_Skipped ==
  /\ InHandler("eoi")
  /\ tick' = "iret"
  /\ UNCHANGED <<IF_flag, deadline, now, isr, wrapped, faulty>>

\* apic::eoi: the write reaches the APIC, or there is none yet.
eoi ==
  /\ InHandler("eoi")
  /\ isr' = (isr /\ ~Reachable(APIC_MODE, LAPIC_BASE))
  /\ tick' = "iret"
  /\ UNCHANGED <<IF_flag, deadline, now, wrapped, faulty>>

\* The stub's iretq restores IF, which was set when the interrupt came.
iretq ==
  /\ InHandler("iret")
  /\ IF_flag' = TRUE
  /\ tick' = "none"
  /\ UNCHANGED <<deadline, now, isr, wrapped, faulty>>

-----------------------------------------------------------------------------
\* The current instruction turns out to fault, now and whenever it is executed again.
\* Before the kernel's IDT is loaded a fault is not the kernel's to handle.
BecomeFaulty ==
  /\ "idtr" \in loaded /\ ~faulty /\ pc # "panic"
  /\ faulty' = TRUE
  /\ UNCHANGED <<machine, pc, IF_flag, tables, cpu, hal, apic, timer, exc>>

Raise ==
  /\ faulty /\ ~exc /\ pc # "panic"
  /\ exc' = TRUE
  /\ IF_flag' = FALSE
  /\ UNCHANGED <<machine, pc, tables, cpu, hal, apic, timer, faulty>>

\* handle_fault reports the fault and returns.
exception_dispatch_Returns ==
  /\ exc /\ pc # "panic"
  /\ exc' = FALSE
  /\ UNCHANGED <<machine, pc, IF_flag, tables, cpu, hal, apic, timer, faulty>>

\* exception_dispatch: the handler panics; without a handler the stub returns to the
\* instruction that faulted (interrupts are still off then).
exception_dispatch ==
  /\ exc /\ pc # "panic"
  /\ IF HANDLER_SET THEN pc' = "panic" /\ UNCHANGED exc
                    ELSE exc' = FALSE /\ UNCHANGED pc
  /\ UNCHANGED <<machine, IF_flag, tables, cpu, hal, apic, timer, faulty>>

-----------------------------------------------------------------------------
CoreStep ==
  early_init \/ gather_bootinfo \/ init_tss \/ build_gdt_entries_only \/ build_full_table
  \/ load_gdt \/ reload_segments \/ init_idt \/ mask_legacy_pic \/ build_tss_desc \/ load_tss

KmainStep ==
  init_mmu \/ interrupts_init \/ vm_init \/ init_time_source \/ apic_init \/ register_timer
  \/ time_init \/ arm_first \/ enable_interrupts

TickStep == irq_dispatch \/ on_timer_tick \/ arm_one_shot \/ eoi \/ iretq

Next ==
  \/ CoreStep \/ KmainStep \/ TickStep
  \/ Elapse \/ Fire \/ TimerEnter
  \/ BecomeFaulty \/ Raise \/ exception_dispatch

\* The CPU keeps executing, the TSC keeps counting, a pending interrupt is taken.
Fairness ==
  /\ WF_vars(CoreStep \/ KmainStep) /\ WF_vars(TickStep)
  /\ WF_vars(Elapse) /\ WF_vars(Fire) /\ WF_vars(TimerEnter)
  /\ WF_vars(Raise) /\ WF_vars(exception_dispatch)

Spec == Init /\ [][Next]_vars
FairSpec == Spec /\ Fairness

-----------------------------------------------------------------------------
Steps == {"early_init", "gather_bootinfo", "init_tss", "build_gdt_entries",
          "build_full_table", "load_gdt", "reload_segments", "init_idt", "mask_legacy_pic",
          "build_tss_desc", "rebuild_full_table", "load_tss", "init_mmu", "interrupts_init",
          "vm_init", "init_time_source", "apic_init", "register_timer", "time_init",
          "arm_first", "enable_interrupts", "idle"}

\* The steps from the end of vm::init on, and from the end of time::init on.
VmUp == {"init_time_source", "apic_init", "register_timer", "time_init", "arm_first",
         "enable_interrupts", "idle"}
TimeUp == {"enable_interrupts", "idle"}

\* The variables keep their types; in particular the sum of time and period stays a
\* u64 (time.rs:21).
TypeOK ==
  /\ machine \in Machines
  /\ pc \in Steps \cup {"panic"}
  /\ loaded \subseteq {"gdtr", "cs", "ds", "tr", "idtr"} /\ DOMAIN IDT \subseteq 0 .. 255
  /\ features \subseteq {"EM", "TS", "MP", "NE", "OSFXSR", "OSXMMEXCPT", "WP", "PGE", "NXE"}
  /\ {IF_flag, NXE_ENABLED, HANDLER_SET, TIMER, irr, isr, wrapped, faulty, exc} \subseteq BOOLEAN
  /\ TSC_HZ \in 0 .. U64_MAX /\ LAPIC_BASE \in Nat
  /\ APIC_MODE \in {"none", "xapic", "x2apic"}
  /\ {tsc, deadline, now} \subseteq 0 .. U64_MAX
  /\ tick \in {"none", "dispatch", "read", "arm", "eoi", "iret"}

\* The CPU never runs on a selector whose descriptor in the table that GDTR points to
\* says something else, although build_full_table rewrites that table while it is in use
\* (gdt.rs:115): 64-bit code, data, and the whole TSS at its address.  ltr finds an
\* available TSS, and every gate leads to its own stub once the IDT is loaded.
SelectorsDescribed ==
  /\ "cs" \in loaded => /\ "gdtr" \in loaded
                        /\ IsCode64(Descriptor(FULL, KERNEL_CS, 8))
                        /\ IsData(Descriptor(FULL, KERNEL_DS, 8))
  /\ pc = "load_tss" => TssType(Descriptor(FULL, TSS_SEL, 16)) = 9
  /\ "tr" \in loaded => LET d == Descriptor(FULL, TSS_SEL, 16)
                        IN  /\ TssType(d) = 11 /\ TssBase(d) = TSS_ADDR
                            /\ TssLimit(d) = SizeOf - 1 /\ TssLimit(d) >= 103
  /\ "idtr" \in loaded =>
       /\ "cs" \in loaded
       /\ \A vec \in DOMAIN IDT : /\ IsInterruptGate(IDT[vec])
                                  /\ GateSelector(IDT[vec]) = KERNEL_CS
                                  /\ GateOffset(IDT[vec]) = Stub(vec)

\* What the rest of the kernel assumes of the CPU: SSE is usable in all code after
\* early_init (arch lib.rs:50), a table entry gets the NX bit only where it is not a
\* reserved bit (mmu.rs:240), and after vm::init write protection and global entries
\* are on and NX is in use if the CPU has it.
FeaturesAgree ==
  /\ pc # "early_init" => {"EM", "TS"} \cap features = {} /\ "OSFXSR" \in features
  /\ NXE_ENABLED => "NXE" \in features /\ SupportsNx
  /\ pc \in VmUp => {"WP", "PGE"} \subseteq features /\ NXE_ENABLED = SupportsNx

\* Interrupts are on only when everything that handles one is in place: tables, handler,
\* and an APIC that is enabled and sends the timer's vector.  They are never on in a
\* handler or after a panic, whose loop does not turn them off itself (panic.rs:17).
InterruptsOnlyWhenReady ==
  IF_flag /\ pc # "early_init" =>
    /\ {"cs", "tr", "idtr"} \subseteq loaded /\ TIMER_VEC \in DOMAIN IDT
    /\ HANDLER_SET /\ APIC_MODE # "none"
    /\ TimerDelivers /\ TimerVector = TIMER_VEC
    /\ tick = "none" /\ ~exc /\ ~isr /\ pc = "idle"

\* On a machine with a usable timer, from time::init on there is exactly one tick
\* outstanding: armed, requested, or in a handler that has yet to arm the next.  The one
\* way to lose it is a deadline that wraps around to 0 and so disarms (time.rs:21).
Rearming == tick \in {"dispatch", "read", "arm"}
OneTickOutstanding ==
  pc \in TimeUp /\ ticks > 0 /\ ~wrapped =>
    \/ deadline # 0 /\ ~irr /\ ~Rearming
    \/ deadline = 0 /\ irr /\ ~Rearming
    \/ deadline = 0 /\ ~irr /\ Rearming

\* The tick never stops: however late the handler arms the deadline, and also when the
\* counter wraps around, another tick comes, unless the kernel faults or a deadline
\* wraps to 0.
TicksGoOn ==
  (pc = "idle" /\ ticks > 0 /\ tick # "dispatch") ~> (tick = "dispatch" \/ faulty \/ wrapped)

\* kernel/src/interrupts.rs:28, for faults after interrupts::init.
LateFaultsAbort == (faulty /\ HANDLER_SET) ~> (pc = "panic")

\* kernel/src/interrupts.rs:28, "fatal faults abort the current execution context",
\* for every fault that the kernel's IDT catches.
FaultsAbort == faulty ~> (pc = "panic")

\* idt.rs:59, "vec 8 = #DF uses IST1": the stack that the CPU finds through the gate of
\* vector 8 is the one that init_tss put there.
DoubleFaultUsesIst1 ==
  "tr" \in loaded => IstStack(InMemory(tss), GateIst(IDT[8])) = Quad("df_stack")

\* apic.rs:51, "physical base is bits 12..35 (4KiB aligned)": the page that the code
\* writes to is the APIC's.
ApicBaseKept == APIC_MODE = "xapic" => LAPIC_BASE = machine.apic_base
=============================================================================
