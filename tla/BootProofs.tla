----------------------------- MODULE BootProofs -----------------------------
(***************************************************************************)
(* Theorems about the boot and the timer for every machine, every width of *)
(* the counter and every period.  The page of the local APIC is assumed to *)
(* lie below 4 GiB, where apic.rs looks for it.                            *)
(***************************************************************************)
EXTENDS Boot, SequenceTheorems, TLAPS

\* The page number of the APIC has no bits that apic::init drops.
ApicBelow4G == \A m \in Machines : m.apic_base % 1048576 = m.apic_base

\* What has been set up before each step of the boot: the steps after apic::init, after
\* interrupts::init, and so on back to the steps after reload_segments.
ApicUp == {"register_timer", "time_init", "arm_first"} \cup TimeUp
HandlerUp == {"vm_init", "init_time_source", "apic_init"} \cup ApicUp
MmuUp == {"interrupts_init"} \cup HandlerUp
TssUp == {"init_mmu"} \cup MmuUp
IdtUp == {"mask_legacy_pic", "build_tss_desc", "rebuild_full_table", "load_tss"} \cup TssUp
SegmentsUp == {"init_idt"} \cup IdtUp

\* The registers of the local APIC after apic::init: enabled, and the timer's entry
\* unmasked, in TSC-deadline mode, with the timer's vector.
ApicReady == /\ APIC_MODE \in {"xapic", "x2apic"}
             /\ Reachable(APIC_MODE, LAPIC_BASE)
             /\ lapic[LAPIC_SVR] = SVR_APIC_ENABLE + 255
             /\ lapic[LAPIC_LVT_TIMER] = TIMER_VEC + LVT_MODE_TSC_DEADLINE

InOrder ==
  /\ machine \in Machines
  /\ pc \in Steps \cup {"panic"}
  /\ DOMAIN lapic = {LAPIC_EOI, LAPIC_SVR, LAPIC_LVT_TIMER, LAPIC_TIMER_DIV}
  /\ pc \in SegmentsUp => "cs" \in loaded
  /\ pc \in IdtUp => "idtr" \in loaded /\ TIMER_VEC \in DOMAIN IDT
  /\ pc \in TssUp => "tr" \in loaded
  /\ pc \in HandlerUp => HANDLER_SET
  /\ pc \in ApicUp => ApicReady

USE DEF TimeUp, VmUp, ApicUp, HandlerUp, MmuUp, TssUp, IdtUp, SegmentsUp, Steps

\* The effect of apic::init on the registers.
LEMMA WrittenRegisters ==
  ASSUME NEW mode \in {"xapic", "x2apic"}, NEW base, Reachable(mode, base),
         DOMAIN lapic = {LAPIC_EOI, LAPIC_SVR, LAPIC_LVT_TIMER, LAPIC_TIMER_DIV}
  PROVE  /\ DOMAIN Written(mode, base, Programmed) = DOMAIN lapic
         /\ Written(mode, base, Programmed)[LAPIC_SVR] = SVR_APIC_ENABLE + 255
         /\ Written(mode, base, Programmed)[LAPIC_LVT_TIMER] = TIMER_VEC + LVT_MODE_TSC_DEADLINE
  <1> DEFINE hits(r) == {i \in 1 .. Len(Programmed) : Register(mode, Programmed[i][1]) = r}
  <1>1. /\ Len(Programmed) = 3
        /\ Programmed[1] = <<240, SVR_APIC_ENABLE + 255>> /\ Programmed[2] = <<992, 11>>
        /\ Programmed[3] = <<800, TIMER_VEC + LVT_MODE_TSC_DEADLINE>>
    BY SMT DEF Programmed, LAPIC_SVR, LAPIC_TIMER_DIV, LAPIC_LVT_TIMER
  <1>2. \A i \in 1 .. 3 : Register(mode, Programmed[i][1]) = Programmed[i][1]
    BY <1>1 DEF Register, apic_msr
  <1>3. hits(240) = {1} /\ hits(800) = {3}
    BY <1>1, <1>2
  <1>4. Written(mode, base, Programmed) =
          [r \in DOMAIN lapic |->
             IF hits(r) = {} THEN lapic[r]
             ELSE Programmed[CHOOSE i \in hits(r) : \A j \in hits(r) : j <= i][2]]
    BY Zenon DEF Written
  <1>5. /\ (CHOOSE i \in hits(240) : \A j \in hits(240) : j <= i) = 1
        /\ (CHOOSE i \in hits(800) : \A j \in hits(800) : j <= i) = 3
    <2> HIDE DEF hits
    <2> QED BY <1>3
  <1> HIDE DEF hits
  <1> QED BY <1>1, <1>3, <1>4, <1>5 DEF LAPIC_EOI, LAPIC_SVR, LAPIC_LVT_TIMER, LAPIC_TIMER_DIV

\* The order of the boot is kept by a step that does not touch what it is about.
LEMMA InOrderKept ==
  ASSUME InOrder, UNCHANGED <<machine, pc, loaded, IDT, HANDLER_SET, apic>>
  PROVE  InOrder'
  BY DEF InOrder, ApicReady, Reachable, apic

\* The steps of the boot are taken in their order.
LEMMA CoreInOrder ==
  ASSUME InOrder, CoreStep PROVE InOrder'
  <1> USE DEF Go, At, tables, cpu, hal, apic, timer, fault
  <1>1. CASE \/ early_init \/ gather_bootinfo \/ init_tss \/ build_gdt_entries_only
             \/ build_full_table \/ mask_legacy_pic \/ build_tss_desc
    <2>1. /\ UNCHANGED <<machine, loaded, IDT, HANDLER_SET, apic>>
          /\ \/ pc' \notin SegmentsUp /\ pc' \in Steps
             \/ pc \in IdtUp \ TssUp /\ pc' \in IdtUp \ TssUp
      BY <1>1 DEF early_init, gather_bootinfo, init_tss, build_gdt_entries_only,
                  build_full_table, mask_legacy_pic, build_tss_desc
    <2> QED BY <2>1, SMTT(30) DEF InOrder, ApicReady, Reachable
  <1>2. CASE load_gdt
    BY <1>2 DEF load_gdt, InOrder, ApicReady, Reachable
  <1>3. CASE reload_segments
    BY <1>3 DEF reload_segments, InOrder, ApicReady, Reachable
  <1>4. CASE init_idt
    <2>1. TIMER_VEC \in DOMAIN IDT'
      BY <1>4 DEF init_idt, Vectors, TIMER_VEC
    <2>2. /\ pc = "init_idt" /\ pc' = "mask_legacy_pic" /\ loaded' = loaded \cup {"idtr"}
          /\ UNCHANGED <<machine, HANDLER_SET, apic>>
      BY <1>4 DEF init_idt
    <2> QED BY <2>1, <2>2 DEF InOrder, ApicReady, Reachable
  <1>5. CASE load_tss
    <2>1. /\ pc = "load_tss" /\ UNCHANGED <<machine, IDT, HANDLER_SET, apic>>
          /\ \/ pc' = "init_mmu" /\ loaded' = loaded \cup {"tr"}
             \/ pc' = pc /\ loaded' = loaded
      BY <1>5, Zenon DEF load_tss
    <2> QED BY <2>1 DEF InOrder, ApicReady, Reachable
  <1> QED BY <1>1, <1>2, <1>3, <1>4, <1>5 DEF CoreStep

\* So are those of kmain.
LEMMA KmainInOrder ==
  ASSUME ApicBelow4G, InOrder, KmainStep PROVE InOrder'
  <1> USE DEF Go, At, tables, cpu, hal, apic, timer, fault
  <1>1. CASE init_mmu \/ interrupts_init \/ vm_init \/ init_time_source
    <2>1. /\ UNCHANGED <<machine, loaded, IDT, apic>>
          /\ pc \in TssUp \ ApicUp /\ pc' \in (TssUp \ ApicUp) \cup {"panic"}
          /\ HANDLER_SET' = HANDLER_SET \/ HANDLER_SET'
          /\ pc' \in HandlerUp => HANDLER_SET' \/ pc \in HandlerUp
      BY <1>1, Zenon DEF init_mmu, interrupts_init, vm_init, init_time_source
    <2> QED BY <2>1 DEF InOrder, ApicReady, Reachable
  <1>2. CASE apic_init
    <2>1. /\ pc = "apic_init" /\ pc' = "register_timer"
          /\ UNCHANGED <<machine, loaded, IDT, HANDLER_SET>>
          /\ APIC_MODE' = IF machine.x2apic THEN "x2apic" ELSE "xapic"
          /\ LAPIC_BASE' = IF machine.x2apic THEN LAPIC_BASE ELSE machine.apic_base
          /\ lapic' = Written(APIC_MODE', LAPIC_BASE', Programmed)
      BY <1>2, SMT DEF apic_init, has_x2apic, InOrder, ApicBelow4G
    <2>2. APIC_MODE' \in {"xapic", "x2apic"} /\ Reachable(APIC_MODE', LAPIC_BASE')
      BY <2>1 DEF Reachable
    <2>3. PICK mode, base : mode = APIC_MODE' /\ base = LAPIC_BASE'
      BY <2>2
    <2>4. /\ DOMAIN lapic' = DOMAIN lapic
          /\ lapic'[LAPIC_SVR] = SVR_APIC_ENABLE + 255
          /\ lapic'[LAPIC_LVT_TIMER] = TIMER_VEC + LVT_MODE_TSC_DEADLINE
      BY <2>1, <2>2, <2>3, WrittenRegisters DEF InOrder
    <2>5. ApicReady'
      BY <2>1, <2>2, <2>4 DEF ApicReady, Reachable
    <2> QED BY <2>1, <2>4, <2>5 DEF InOrder
  <1>3. CASE register_timer \/ time_init \/ arm_first \/ enable_interrupts
    <2>1. /\ UNCHANGED <<machine, loaded, IDT, HANDLER_SET, apic>>
          /\ pc \in ApicUp /\ pc' \in ApicUp
      BY <1>3 DEF register_timer, time_init, arm_first, enable_interrupts, ArmOneShot
    <2> QED BY <2>1 DEF InOrder, ApicReady, Reachable
  <1> QED BY <1>1, <1>2, <1>3 DEF KmainStep

\* Interrupts and faults leave the order alone, except for a panic.
LEMMA NextInOrder ==
  ASSUME ApicBelow4G, InOrder, [Next]_vars PROVE InOrder'
  <1>1. CASE TickStep
    <2>1. UNCHANGED <<machine, pc, tables, hal, apic>>
      BY <1>1, Zenon DEF TickStep, irq_dispatch, on_timer_tick, arm_one_shot, eoi, iretq, InHandler
    <2> QED BY <2>1, InOrderKept DEF tables, hal
  <1>2. CASE Elapse \/ Fire \/ TimerEnter \/ BecomeFaulty \/ Raise
    <2>1. UNCHANGED <<machine, pc, tables, hal, apic>>
      BY <1>2, Zenon DEF Elapse, Fire, TimerEnter, BecomeFaulty, Raise
    <2> QED BY <2>1, InOrderKept DEF tables, hal
  <1>3. CASE exception_dispatch
    <2>1. UNCHANGED <<machine, tables, hal, apic>> /\ (pc' = pc \/ pc' = "panic")
      BY <1>3, Zenon DEF exception_dispatch
    <2> QED BY <2>1 DEF InOrder, ApicReady, Reachable, tables, hal, apic
  <1>4. CASE UNCHANGED vars
    BY <1>4, InOrderKept DEF vars, tables, hal
  <1> QED BY <1>1, <1>2, <1>3, <1>4, CoreInOrder, KmainInOrder, Zenon DEF Next

\* The boot keeps to its order on every machine with its APIC below 4 GiB.
THEOREM BootInOrder ==
  ASSUME ApicBelow4G PROVE Spec => []InOrder
  <1>1. Init => InOrder
    BY DEF Init, InOrder, ResetLapic
  <1>2. InOrder /\ [Next]_vars => InOrder'
    BY NextInOrder
  <1> QED BY <1>1, <1>2, PTL DEF Spec

-----------------------------------------------------------------------------
\* What the features need beyond FeaturesAgree: write protection and global entries are on
\* from init_mmu on, before vm::init relies on them.
FeatureInv ==
  /\ FeaturesAgree
  /\ pc \in Steps \cup {"panic"}
  /\ pc \in MmuUp => {"WP", "PGE"} \subseteq features
  /\ machine \in Machines /\ NXE_ENABLED \in BOOLEAN
  /\ pc = "early_init" => ~HANDLER_SET

\* A step that moves on within the same stage and leaves the features alone.
LEMMA FeaturesKept ==
  ASSUME FeatureInv, UNCHANGED <<machine, features, NXE_ENABLED>>,
         pc' \in Steps \cup {"panic"},
         pc' # "early_init" => pc # "early_init",
         pc' = "early_init" => pc = "early_init" /\ UNCHANGED HANDLER_SET,
         pc' \in MmuUp => pc \in MmuUp,
         pc' \in VmUp => pc \in VmUp
  PROVE  FeatureInv'
  <1>1. pc' = "early_init" => ~HANDLER_SET'
    BY Zenon DEF FeatureInv
  <1>2. FeaturesAgree'
    BY DEF FeatureInv, FeaturesAgree, SupportsNx
  <1> QED BY <1>1, <1>2 DEF FeatureInv

\* Every step keeps the CPU's features as the rest of the kernel assumes them.
LEMMA NextFeatures ==
  ASSUME FeatureInv, [Next]_vars PROVE FeatureInv'
  <1> USE DEF Go, At, tables, cpu, hal, apic, timer, fault
  <1>1. CASE early_init
    BY <1>1 DEF early_init, FeatureInv, FeaturesAgree, SupportsNx
  <1>2. CASE CoreStep /\ ~early_init
    <2>1. /\ UNCHANGED <<machine, features, NXE_ENABLED>>
          /\ pc # "early_init" /\ pc' # "early_init" /\ pc' \in Steps \ MmuUp
      BY <1>2, ZenonT(60)
      DEF CoreStep, gather_bootinfo, init_tss, build_gdt_entries_only, build_full_table,
                  load_gdt, reload_segments, init_idt, mask_legacy_pic, build_tss_desc, load_tss
    <2> QED BY <2>1, FeaturesKept, SMTT(30)
  <1>3. CASE init_mmu
    <2>1. /\ pc = "init_mmu" /\ pc' = "interrupts_init" /\ UNCHANGED machine
          /\ features' = features \cup {"WP", "PGE"} /\ NXE_ENABLED' = FALSE
      BY <1>3, Zenon DEF init_mmu, init_features
    <2> QED BY <2>1, Zenon DEF FeatureInv, FeaturesAgree, SupportsNx
  <1>4. CASE vm_init
    <2>1. CASE ~machine.memmap
      BY <1>4, <2>1, FeaturesKept, SMTT(30) DEF vm_init
    <2>2. CASE machine.memmap /\ (NXE_ENABLED \/ ~has_nx)
      <3>1. /\ pc = "vm_init" /\ pc' = "init_time_source"
            /\ UNCHANGED <<machine, features, NXE_ENABLED>>
        BY <1>4, <2>2, Zenon DEF vm_init, enable_nx
      <3> QED BY <2>2, <3>1, BootAssumption
              DEF FeatureInv, FeaturesAgree, SupportsNx, has_nx, Machine
    <2>3. CASE machine.memmap /\ ~(NXE_ENABLED \/ ~has_nx)
      <3>1. /\ pc = "vm_init" /\ pc' = "init_time_source" /\ UNCHANGED machine
            /\ features' = features \cup {"WP", "PGE", "NXE"} /\ NXE_ENABLED' = TRUE
        BY <1>4, <2>3, Zenon DEF vm_init, enable_nx, init_features
      <3> QED BY <2>3, <3>1, BootAssumption, ZenonT(60)
              DEF FeatureInv, FeaturesAgree, SupportsNx, has_nx, Machine
    <2> QED BY <2>1, <2>2, <2>3
  <1>5. CASE interrupts_init \/ init_time_source \/ apic_init \/ register_timer \/ time_init
             \/ arm_first \/ enable_interrupts
    <2>1. /\ UNCHANGED <<machine, features, NXE_ENABLED>>
          /\ \/ pc = "interrupts_init" /\ pc' = "vm_init"
             \/ pc \in VmUp /\ pc' \in VmUp
      BY <1>5 DEF interrupts_init, init_time_source, apic_init, register_timer, time_init,
                  arm_first, ArmOneShot, enable_interrupts
    <2> QED BY <2>1, FeaturesKept, SMTT(60)
  <1>6. CASE TickStep
    <2>1. UNCHANGED <<machine, pc, features, NXE_ENABLED, HANDLER_SET>>
      BY <1>6, Zenon DEF TickStep, irq_dispatch, on_timer_tick, arm_one_shot, eoi, iretq, InHandler
    <2> QED BY <2>1, FeaturesKept DEF FeatureInv
  <1>7. CASE Elapse \/ Fire \/ TimerEnter \/ BecomeFaulty \/ Raise \/ UNCHANGED vars
    <2>1. UNCHANGED <<machine, pc, features, NXE_ENABLED, HANDLER_SET>>
      BY <1>7, Zenon DEF Elapse, Fire, TimerEnter, BecomeFaulty, Raise, vars
    <2> QED BY <2>1, FeaturesKept DEF FeatureInv
  <1>8. CASE exception_dispatch
    <2>1. /\ UNCHANGED <<machine, features, NXE_ENABLED, HANDLER_SET>>
          /\ pc' = pc \/ (pc' = "panic" /\ HANDLER_SET)
      BY <1>8, Zenon DEF exception_dispatch
    <2>2. CASE pc' = pc
      BY <2>1, <2>2, FeaturesKept DEF FeatureInv
    <2>3. CASE pc' = "panic" /\ pc # "early_init"
      BY <2>1, <2>3, FeaturesKept
    <2> QED BY <2>1, <2>2, <2>3 DEF FeatureInv
  <1> QED BY <1>1, <1>2, <1>3, <1>4, <1>5, <1>6, <1>7, <1>8, Zenon DEF Next, KmainStep

\* On every machine the CPU's features are what the rest of the kernel assumes of them:
\* SSE after early_init, NX in entries only where EFER.NXE is set and the CPU has it, and
\* after vm::init write protection, global entries, and NX exactly if the CPU has it.
THEOREM FeaturesAlwaysAgree == Spec => []FeaturesAgree
  <1>1. Init => FeatureInv
    BY Zenon DEF Init, FeatureInv, FeaturesAgree
  <1>2. FeatureInv /\ [Next]_vars => FeatureInv'
    BY NextFeatures
  <1>3. FeatureInv => FeaturesAgree
    BY DEF FeatureInv
  <1> QED BY <1>1, <1>2, <1>3, PTL DEF Spec

-----------------------------------------------------------------------------
\* Where interrupts may be on, where the handlers may run, and that no tick is due before
\* time::init has armed one.
InterruptInv ==
  /\ IF_flag \in BOOLEAN /\ irr \in BOOLEAN /\ isr \in BOOLEAN
  /\ faulty \in BOOLEAN /\ exc \in BOOLEAN
  /\ IF_flag => pc \in {"early_init", "idle"} /\ tick = "none" /\ ~exc
  /\ tick # "none" => pc \in {"idle", "panic"}
  /\ isr => tick \in {"dispatch", "read", "arm", "eoi"}
  /\ exc => faulty
  /\ pc \notin TimeUp \cup {"panic"} => deadline = 0 /\ ~irr

\* The timer's entry that apic::init has written makes the timer send its vector.
LEMMA ReadyDelivers ==
  ASSUME ApicReady PROVE DeadlineMode /\ TimerDelivers /\ TimerVector = TIMER_VEC
  <1>1. lapic[LAPIC_SVR] = 511 /\ lapic[LAPIC_LVT_TIMER] = 262368
    BY SMT DEF ApicReady, SVR_APIC_ENABLE, TIMER_VEC, LVT_MODE_TSC_DEADLINE
  <1>2. /\ Bits17And18(262368) = 2 /\ ~LVT_Masked(262368) /\ Bit(511, 8)
        /\ 262368 % 256 = TIMER_VEC
    BY SMT DEF Bits17And18, LVT_Masked, Bit, TIMER_VEC
  <1> QED BY <1>1, <1>2, SMT DEF DeadlineMode, TimerDelivers, TimerVector

\* Every step of the boot, in a handler or of the hardware keeps InterruptInv.
LEMMA NextInterrupts ==
  ASSUME InOrder, InterruptInv, [Next]_vars PROVE InterruptInv'
  <1> USE DEF Go, At, tables, cpu, hal, apic, timer, fault
  <1>1. CASE CoreStep
    <2>1. /\ UNCHANGED timer /\ tick = "none" /\ UNCHANGED exc
          /\ faulty' = faulty \/ faulty' = TRUE
          /\ pc \notin TimeUp \cup {"panic"} /\ pc' \notin TimeUp \cup {"panic"}
          /\ pc' # "early_init"
          /\ \/ pc = "early_init" /\ IF_flag' = FALSE
             \/ pc # "early_init" /\ UNCHANGED IF_flag
      BY <1>1, Zenon DEF CoreStep, early_init, gather_bootinfo, init_tss, build_gdt_entries_only,
                  build_full_table, load_gdt, reload_segments, init_idt, mask_legacy_pic,
                  build_tss_desc, load_tss
    <2>2. faulty' \in BOOLEAN /\ (exc' => faulty')
      <3>1. CASE faulty' = faulty
        BY <2>1, <3>1 DEF InterruptInv
      <3>2. CASE faulty' = TRUE
        BY <3>2
      <3> QED BY <2>1, <3>1, <3>2, Zenon
    <2>3. IF_flag' = FALSE
      BY <2>1 DEF InterruptInv
    <2> QED BY <2>1, <2>2, <2>3, Zenon DEF InterruptInv
  <1>2. CASE KmainStep /\ ~arm_first /\ ~enable_interrupts
    <2>1. /\ UNCHANGED <<IF_flag, deadline, irr, isr, tick, fault>> /\ tick = "none"
          /\ pc \in Steps \ {"early_init", "enable_interrupts", "idle"}
          /\ pc' \notin {"early_init", "idle"}
      <3>1. CASE apic_init
        BY <3>1, SMT DEF apic_init
      <3>2. CASE init_mmu \/ interrupts_init
        BY <3>2, SMT DEF init_mmu, init_features, interrupts_init
      <3>3. CASE vm_init \/ time_init
        BY <3>3, SMT DEF vm_init, time_init
      <3>4. CASE init_time_source \/ register_timer
        BY <3>4, SMT DEF init_time_source, register_timer
      <3> QED BY <1>2, <3>1, <3>2, <3>3, <3>4, Zenon DEF KmainStep
    <2> QED BY <2>1 DEF InterruptInv
  <1>3. CASE arm_first
    <2>1. /\ UNCHANGED <<IF_flag, irr, isr, tick, exc>> /\ tick = "none" /\ ~faulty
          /\ faulty' \in BOOLEAN
          /\ pc = "arm_first"
          /\ pc' = "enable_interrupts" \/ (pc' = pc /\ deadline' = deadline)
      BY <1>3 DEF arm_first, ArmOneShot
    <2> QED BY <2>1 DEF InterruptInv
  <1>4. CASE enable_interrupts
    BY <1>4 DEF enable_interrupts, InterruptInv
  <1>5. CASE TickStep
    <2>1. CASE irq_dispatch \/ on_timer_tick \/ arm_one_shot
      <3>1. /\ tick \in {"dispatch", "read", "arm"} /\ pc # "panic" /\ ~faulty
            /\ faulty' \in BOOLEAN
            /\ tick' \in {"read", "arm", "eoi"} /\ UNCHANGED <<pc, IF_flag, irr, isr, exc>>
        BY <2>1, Zenon
           DEF irq_dispatch, on_timer_tick, arm_one_shot, InHandler, ArmOneShot, InterruptInv
      <3> QED BY <3>1 DEF InterruptInv
    <2>2. CASE eoi
      <3>1. /\ tick = "eoi" /\ pc # "panic" /\ ~faulty /\ tick' = "iret"
            /\ isr' = (isr /\ ~Reachable(APIC_MODE, LAPIC_BASE))
            /\ UNCHANGED <<pc, IF_flag, irr, deadline, fault>>
        BY <2>2, Zenon DEF eoi, InHandler
      <3>2. pc = "idle" /\ Reachable(APIC_MODE, LAPIC_BASE)
        BY <3>1 DEF InterruptInv, InOrder, ApicReady
      <3>3. isr' = FALSE
        BY <3>1, <3>2, Zenon
      <3> QED BY <3>1, <3>2, <3>3 DEF InterruptInv
    <2>3. CASE iretq
      BY <2>3 DEF iretq, InHandler, InterruptInv
    <2> QED BY <1>5, <2>1, <2>2, <2>3 DEF TickStep
  <1>6. CASE Elapse
    BY <1>6 DEF Elapse, InterruptInv
  <1>7. CASE Fire
    <2>1. /\ UNCHANGED <<pc, IF_flag, isr, tick, fault>> /\ deadline' = 0 /\ deadline # 0
          /\ irr' = (irr \/ TimerDelivers)
      BY <1>7, Zenon DEF Fire, Due
    <2>2. irr' \in BOOLEAN
      BY <2>1, Zenon
    <2> QED BY <2>1, <2>2 DEF InterruptInv
  <1>8. CASE TimerEnter
    BY <1>8, Zenon DEF TimerEnter, InterruptInv
  <1>9. CASE BecomeFaulty \/ Raise
    <2>1. CASE BecomeFaulty
      <3>1. /\ UNCHANGED <<pc, IF_flag, irr, isr, tick, deadline, exc>> /\ faulty' = TRUE
        BY <2>1, Zenon DEF BecomeFaulty
      <3> QED BY <3>1 DEF InterruptInv
    <2>2. CASE Raise
      <3>1. /\ UNCHANGED <<pc, irr, isr, tick, deadline, faulty>> /\ faulty
            /\ exc' = TRUE /\ IF_flag' = FALSE
        BY <2>2, Zenon DEF Raise
      <3> QED BY <3>1, Zenon DEF InterruptInv
    <2> QED BY <1>9, <2>1, <2>2
  <1>10. CASE exception_dispatch
    BY <1>10, Zenon DEF exception_dispatch, InterruptInv
  <1>11. CASE UNCHANGED vars
    BY <1>11 DEF vars, InterruptInv
  <1> QED BY <1>1, <1>2, <1>3, <1>4, <1>5, <1>6, <1>7, <1>8, <1>9, <1>10, <1>11, Zenon DEF Next

\* On every machine with its APIC below 4 GiB, interrupts are on only when the tables, the
\* handler and the APIC are in place, and never in a handler or after a panic.
THEOREM InterruptsWaitUntilReady ==
  ASSUME ApicBelow4G PROVE Spec => []InterruptsOnlyWhenReady
  <1>1. Init => InterruptInv
    BY Zenon DEF Init, InterruptInv
  <1>2. InOrder /\ InterruptInv /\ [Next]_vars => InterruptInv'
    BY NextInterrupts
  <1>3. InOrder /\ InterruptInv => InterruptsOnlyWhenReady
    <2> SUFFICES ASSUME InOrder, InterruptInv, IF_flag, pc # "early_init"
                 PROVE  /\ {"cs", "tr", "idtr"} \subseteq loaded /\ TIMER_VEC \in DOMAIN IDT
                        /\ HANDLER_SET /\ APIC_MODE # "none"
                        /\ TimerDelivers /\ TimerVector = TIMER_VEC
                        /\ tick = "none" /\ ~exc /\ ~isr /\ pc = "idle"
      BY Zenon DEF InterruptsOnlyWhenReady
    <2>1. pc = "idle" /\ tick = "none" /\ ~exc /\ ~isr
      BY DEF InterruptInv
    <2>2. TimerDelivers /\ TimerVector = TIMER_VEC
      BY <2>1, ReadyDelivers DEF InOrder
    <2> QED BY <2>1, <2>2 DEF InOrder, ApicReady
  <1> QED BY <1>1, <1>2, <1>3, BootInOrder, PTL DEF Spec

-----------------------------------------------------------------------------
\* The tick of time::init and of its handler stays outstanding.
TickInv == wrapped \in BOOLEAN /\ OneTickOutstanding

\* The period depends on what is registered with the HAL only.
LEMMA SamePeriod ==
  ASSUME UNCHANGED hal PROVE ticks' = ticks
  BY Zenon DEF ticks, frequency_hz, TicksPerPeriod, saturating_mul, hal

\* Without a period no tick is due.
LEMMA NoPeriod ==
  ASSUME TickInv, ticks = 0, UNCHANGED <<wrapped, hal>> PROVE TickInv'
  <1>1. ticks' = 0
    BY SamePeriod, Zenon
  <1> QED BY <1>1 DEF TickInv, OneTickOutstanding

\* The handler goes on and has still to arm the next tick.
LEMMA StillRearming ==
  ASSUME TickInv, UNCHANGED <<pc, hal, deadline, irr, wrapped>>, Rearming,
         tick' \in {"read", "arm"}
  PROVE  TickInv'
  <1>1. ticks' = ticks
    BY SamePeriod
  <1> QED BY <1>1 DEF TickInv, OneTickOutstanding, Rearming

\* A step that touches neither the timer, nor the handler's place, nor the period.
LEMMA TickKept ==
  ASSUME TickInv, UNCHANGED <<deadline, irr, tick, wrapped, hal>>,
         pc' \in TimeUp => pc \in TimeUp
  PROVE  TickInv'
  <1>1. ticks' = ticks
    BY SamePeriod
  <1> QED BY <1>1 DEF TickInv, OneTickOutstanding, Rearming

\* In deadline mode arming sets a deadline, unless that has wrapped around to 0.
LEMMA Arms ==
  ASSUME ArmOneShot, DeadlineMode, machine.tsc_deadline, ~wrapped'
  PROVE  deadline' # 0 /\ UNCHANGED <<machine, hal, irr>>
  BY Zenon DEF ArmOneShot

\* Every step keeps exactly one tick outstanding.
LEMMA NextTick ==
  ASSUME InOrder, InterruptInv, TickInv, [Next]_vars PROVE TickInv'
  <1> USE DEF Go, At, timer, fault
  <1>1. CASE CoreStep
    <2>1. pc' \notin TimeUp /\ UNCHANGED wrapped
      <3>1. CASE load_tss
        BY <3>1, SMT DEF load_tss
      <3>2. CASE early_init \/ gather_bootinfo \/ init_tss \/ build_gdt_entries_only
        BY <3>2, SMT DEF early_init, gather_bootinfo, init_tss, build_gdt_entries_only
      <3>3. CASE build_full_table \/ load_gdt \/ reload_segments
        BY <3>3, SMT DEF build_full_table, load_gdt, reload_segments
      <3>4. CASE init_idt \/ mask_legacy_pic \/ build_tss_desc
        BY <3>4, SMTT(30) DEF init_idt, mask_legacy_pic, build_tss_desc
      <3> QED BY <1>1, <3>1, <3>2, <3>3, <3>4, Zenon DEF CoreStep
    <2> QED BY <2>1 DEF TickInv, OneTickOutstanding
  <1>2. CASE init_mmu \/ interrupts_init \/ vm_init \/ init_time_source \/ apic_init
             \/ register_timer
    <2>1. pc' \notin TimeUp /\ UNCHANGED wrapped
      BY <1>2, SMT DEF init_mmu, init_features, interrupts_init, vm_init, init_time_source,
                       apic_init, register_timer
    <2> QED BY <2>1 DEF TickInv, OneTickOutstanding
  <1>3. CASE time_init
    <2>1. CASE ticks = 0
      <3>1. UNCHANGED <<wrapped, hal>>
        BY <1>3, Zenon DEF time_init
      <3> QED BY <2>1, <3>1, NoPeriod
    <2>2. CASE ticks # 0
      <3>1. UNCHANGED wrapped /\ pc' = "arm_first"
        BY <1>3, <2>2, Zenon DEF time_init
      <3> QED BY <3>1 DEF TickInv, OneTickOutstanding
    <2> QED BY <2>1, <2>2
  <1>4. CASE arm_first
    <2>1. /\ ArmOneShot /\ pc = "arm_first" /\ tick = "none" /\ tick' = tick
          /\ pc' = IF machine.tsc_deadline THEN "enable_interrupts" ELSE pc
      BY <1>4, ZenonT(40) DEF arm_first
    <2>2. DeadlineMode /\ ~irr
      BY <2>1, ReadyDelivers DEF InOrder, InterruptInv
    <2>3. wrapped' \in BOOLEAN
      BY <2>1, Zenon DEF ArmOneShot
    <2>4. CASE pc' \in TimeUp /\ ~wrapped'
      <3>1. machine.tsc_deadline
        BY <2>1, <2>4
      <3>2. deadline' # 0 /\ irr' = irr
        BY <2>1, <2>2, <2>4, <3>1, Arms
      <3> QED BY <2>1, <2>2, <2>3, <3>2 DEF TickInv, OneTickOutstanding, Rearming
    <2>5. CASE ~(pc' \in TimeUp /\ ~wrapped')
      BY <2>3, <2>5 DEF TickInv, OneTickOutstanding
    <2> QED BY <2>4, <2>5
  <1>5. CASE enable_interrupts
    BY <1>5, TickKept DEF enable_interrupts
  <1>6. CASE irq_dispatch
    <2>1. /\ tick = "dispatch" /\ pc # "panic" /\ UNCHANGED <<pc, hal, deadline, irr, wrapped>>
          /\ tick' = IF HANDLER_SET /\ TimerVector = TIMER_VEC THEN "read" ELSE "eoi"
      BY <1>6, Zenon DEF irq_dispatch, InHandler
    <2>2. HANDLER_SET /\ TimerVector = TIMER_VEC
      BY <2>1, ReadyDelivers DEF InOrder, InterruptInv
    <2>3. tick' = "read"
      BY <2>1, <2>2
    <2> QED BY <2>1, <2>3, StillRearming DEF Rearming
  <1>7. CASE on_timer_tick
    <2>1. CASE ticks = 0
      <3>1. UNCHANGED <<wrapped, hal>>
        BY <1>7, Zenon DEF on_timer_tick, InHandler
      <3> QED BY <2>1, <3>1, NoPeriod
    <2>2. CASE ticks # 0
      <3>1. /\ tick = "read" /\ tick' = "arm" /\ UNCHANGED <<pc, hal, deadline, irr, wrapped>>
        BY <1>7, <2>2, Zenon DEF on_timer_tick, InHandler
      <3> QED BY <3>1, StillRearming DEF Rearming
    <2> QED BY <2>1, <2>2
  <1>8. CASE arm_one_shot
    <2>1. /\ ArmOneShot /\ tick = "arm" /\ pc # "panic" /\ UNCHANGED <<pc, irr, hal>>
          /\ tick' = IF machine.tsc_deadline THEN "eoi" ELSE tick
      BY <1>8, Zenon DEF arm_one_shot, InHandler
    <2>2. wrapped' \in BOOLEAN /\ (wrapped => wrapped')
      BY <2>1, Zenon DEF ArmOneShot
    <2>3. DeadlineMode
      BY <2>1, ReadyDelivers DEF InOrder, InterruptInv
    <2>4. ticks' = ticks
      BY <2>1, SamePeriod
    <2>5. CASE wrapped'
      BY <2>2, <2>5 DEF TickInv, OneTickOutstanding
    <2>6. CASE ~wrapped' /\ machine.tsc_deadline
      <3>1. deadline' # 0 /\ tick' = "eoi"
        BY <2>1, <2>3, <2>6, Arms
      <3>2. pc' \in TimeUp /\ ticks' > 0 => ~irr
        BY <2>1, <2>2, <2>4, <2>6 DEF TickInv, OneTickOutstanding, Rearming
      <3> QED BY <2>1, <2>2, <3>1, <3>2 DEF TickInv, OneTickOutstanding, Rearming
    <2>7. CASE ~wrapped' /\ ~machine.tsc_deadline
      <3>1. UNCHANGED <<deadline, tick>>
        BY <2>1, <2>7 DEF ArmOneShot
      <3> QED BY <2>1, <2>2, <2>4, <2>7, <3>1 DEF TickInv, OneTickOutstanding, Rearming
    <2> QED BY <2>5, <2>6, <2>7, Zenon
  <1>9. CASE eoi \/ iretq
    <2>1. /\ tick \in {"eoi", "iret"} /\ tick' \in {"iret", "none"}
          /\ UNCHANGED <<pc, hal, deadline, irr, wrapped>>
      BY <1>9 DEF eoi, iretq, InHandler
    <2>2. ticks' = ticks
      BY <2>1, SamePeriod
    <2> QED BY <2>1, <2>2 DEF TickInv, OneTickOutstanding, Rearming
  <1>10. CASE Fire
    <2>1. /\ UNCHANGED <<pc, hal, tick, wrapped>> /\ deadline # 0 /\ deadline' = 0
          /\ irr' = (irr \/ TimerDelivers)
      BY <1>10, Zenon DEF Fire, Due
    <2>2. ticks' = ticks
      BY <2>1, SamePeriod
    <2>3. pc \in TimeUp => irr' = TRUE
      <3>1. pc \in TimeUp => TimerDelivers
        BY ReadyDelivers DEF InOrder
      <3> QED BY <2>1, <3>1, Zenon
    <2> QED BY <2>1, <2>2, <2>3 DEF TickInv, OneTickOutstanding, Rearming
  <1>11. CASE TimerEnter
    <2>1. /\ IF_flag /\ irr /\ irr' = FALSE /\ tick' = "dispatch"
          /\ UNCHANGED <<pc, hal, deadline, wrapped>>
      BY <1>11, Zenon DEF TimerEnter
    <2>2. ticks' = ticks
      BY <2>1, SamePeriod
    <2> QED BY <2>1, <2>2 DEF TickInv, OneTickOutstanding, Rearming
  <1>12. CASE Elapse \/ BecomeFaulty \/ Raise \/ exception_dispatch \/ UNCHANGED vars
    <2>1. /\ UNCHANGED <<deadline, irr, tick, wrapped, hal>>
          /\ pc' = pc \/ pc' = "panic"
      BY <1>12, Zenon DEF Elapse, BecomeFaulty, Raise, exception_dispatch, vars
    <2> QED BY <2>1, TickKept
  <1>13. CASE KmainStep
    BY <1>2, <1>3, <1>4, <1>5, <1>13, Zenon DEF KmainStep
  <1>14. CASE TickStep
    BY <1>6, <1>7, <1>8, <1>9, <1>14, Zenon DEF TickStep
  <1> QED BY <1>1, <1>10, <1>11, <1>12, <1>13, <1>14, Zenon DEF Next

\* On every machine with its APIC below 4 GiB, whatever the frequency, the period and the
\* width of the counter, from time::init on exactly one tick is outstanding until a deadline
\* wraps around to 0.
THEOREM OneTickAlwaysOutstanding ==
  ASSUME ApicBelow4G PROVE Spec => []OneTickOutstanding
  <1>1. Init => InterruptInv /\ TickInv
    BY Zenon DEF Init, InterruptInv, TickInv, OneTickOutstanding
  <1>2. InOrder /\ InterruptInv /\ TickInv /\ [Next]_vars => InterruptInv' /\ TickInv'
    BY NextInterrupts, NextTick
  <1>3. TickInv => OneTickOutstanding
    BY DEF TickInv
  <1> QED BY <1>1, <1>2, <1>3, BootInOrder, PTL DEF Spec

-----------------------------------------------------------------------------
\* The tables as gdt.rs and idt.rs build them: the GDT's own entries, the table that GDTR
\* points to with the empty and with the real TSS descriptor, the latter after ltr has
\* marked it busy, and the IDT.
Nulls == gdt_null \o gdt_null \o gdt_null
Segments == SubSeq(Nulls, 1, 8) \o gdt_code64 \o gdt_data
TssDesc == make_tss_desc(TSS_ADDR, SizeOf)
FirstTable == Segments \o NoTssDesc
FullTable == Segments \o TssDesc
BusyTable == MarkBusy(FullTable, TSS_SEL)
Gates == [vec \in Vectors |-> set_gate(Stub(vec), IF vec = 8 THEN 1 ELSE 0)]

\* The steps before the GDT's entries are built, those before the TSS descriptor is, and
\* the one in which the CPU starts to use each table.
BeforeSegments == {"early_init", "gather_bootinfo", "init_tss", "build_gdt_entries"}
BeforeGdt == {"build_full_table", "load_gdt", "reload_segments"}
BeforeTss == {"init_idt", "mask_legacy_pic", "build_tss_desc"}

\* What each table holds at each step.  A handler is only set, and so a fault only moves
\* the boot to its end, after ltr.
TableInv ==
  /\ pc \in Steps \cup {"panic"}
  /\ HANDLER_SET \in BOOLEAN /\ (HANDLER_SET => pc \in HandlerUp \cup {"panic"})
  /\ pc \in BeforeSegments => GDT = Nulls
  /\ pc \in BeforeGdt \cup (SegmentsUp \ TssUp) => GDT = Segments
  /\ pc \in BeforeSegments \cup BeforeGdt \cup BeforeTss => TSS_DESC = NoTssDesc
  /\ pc = "rebuild_full_table" => TSS_DESC = TssDesc
  /\ pc \in {"load_gdt", "reload_segments"} => FULL = FirstTable
  /\ pc = "load_tss" => FULL = FullTable
  /\ pc \in {"reload_segments"} => "gdtr" \in loaded
  /\ pc \in SegmentsUp => "cs" \in loaded
  /\ "cs" \in loaded => /\ "gdtr" \in loaded /\ pc \in SegmentsUp \cup {"panic"}
                        /\ FULL \in {FirstTable, FullTable, BusyTable}
  /\ "tr" \in loaded => pc \in TssUp \cup {"panic"} /\ FULL = BusyTable
  /\ "idtr" \in loaded => "cs" \in loaded /\ IDT = Gates

USE DEF BeforeSegments, BeforeGdt, BeforeTss

\* The tables are kept by a step that touches nothing of the invariant.
LEMMA TablesKept ==
  ASSUME TableInv, UNCHANGED <<GDT, TSS_DESC, FULL, loaded, IDT, pc, HANDLER_SET>>
  PROVE  TableInv'
  BY SMTT(30) DEF TableInv

\* They are kept by a step after ltr that touches none of them.
LEMMA TablesKeptOn ==
  ASSUME TableInv, UNCHANGED <<GDT, TSS_DESC, FULL, loaded, IDT>>,
         pc \in TssUp, pc' \in TssUp \cup {"panic"}, HANDLER_SET' \in BOOLEAN,
         HANDLER_SET' => pc' \in HandlerUp \cup {"panic"}
  PROVE  TableInv'
  BY SMTT(30) DEF TableInv

\* Every step of init_core keeps the tables in order.
LEMMA CoreTables ==
  ASSUME is_canonical(TSS_ADDR), TableInv, CoreStep PROVE TableInv'
  <1> USE DEF Go, At, tables, cpu, hal, apic, timer, fault
  <1>1. CASE early_init \/ gather_bootinfo \/ init_tss
    <2>1. /\ UNCHANGED <<GDT, TSS_DESC, FULL, loaded, IDT, HANDLER_SET>>
          /\ pc \in BeforeSegments /\ pc' \in BeforeSegments
      BY <1>1 DEF early_init, gather_bootinfo, init_tss
    <2> QED BY <2>1 DEF TableInv
  <1>2. CASE build_gdt_entries_only
    <2>1. /\ UNCHANGED <<TSS_DESC, FULL, loaded, IDT, HANDLER_SET>>
          /\ pc = "build_gdt_entries" /\ pc' = "build_full_table"
          /\ GDT' = SubSeq(GDT, 1, 8) \o gdt_code64 \o gdt_data
      BY <1>2 DEF build_gdt_entries_only
    <2>2. GDT' = Segments BY <2>1, Zenon DEF TableInv, Segments
    <2> QED BY <2>1, <2>2 DEF TableInv
  <1>3. CASE build_full_table
    <2>1. /\ UNCHANGED <<GDT, TSS_DESC, loaded, IDT, HANDLER_SET>>
          /\ \/ pc = "build_full_table" /\ pc' = "load_gdt"
             \/ pc = "rebuild_full_table" /\ pc' = "load_tss"
          /\ FULL' = GDT \o TSS_DESC
      BY <1>3 DEF build_full_table
    <2>2. CASE pc = "build_full_table"
      <3>1. FULL' = FirstTable BY <2>1, <2>2 DEF TableInv, FirstTable
      <3> QED BY <2>1, <2>2, <3>1 DEF TableInv
    <2>3. CASE pc = "rebuild_full_table"
      <3>1. FULL' = FullTable BY <2>1, <2>3, SMTT(60) DEF TableInv, FullTable
      <3> QED BY <2>1, <2>3, <3>1 DEF TableInv
    <2> QED BY <2>1, <2>2, <2>3
  <1>4. CASE load_gdt
    <2>1. /\ UNCHANGED <<GDT, TSS_DESC, FULL, IDT, HANDLER_SET>>
          /\ pc = "load_gdt" /\ pc' = "reload_segments" /\ loaded' = loaded \cup {"gdtr"}
      BY <1>4 DEF load_gdt
    <2> QED BY <2>1 DEF TableInv
  <1>5. CASE reload_segments
    <2>1. /\ UNCHANGED <<GDT, TSS_DESC, FULL, IDT, HANDLER_SET>>
          /\ pc = "reload_segments" /\ pc' = "init_idt" /\ loaded' = loaded \cup {"cs", "ds"}
      BY <1>5 DEF reload_segments
    <2> QED BY <2>1 DEF TableInv
  <1>6. CASE init_idt
    <2>1. /\ UNCHANGED <<GDT, TSS_DESC, FULL, HANDLER_SET>>
          /\ pc = "init_idt" /\ pc' = "mask_legacy_pic" /\ loaded' = loaded \cup {"idtr"}
          /\ IDT' = Gates
      BY <1>6, Zenon DEF init_idt, Gates
    <2> QED BY <2>1 DEF TableInv
  <1>7. CASE mask_legacy_pic
    <2>1. /\ UNCHANGED <<GDT, TSS_DESC, FULL, loaded, IDT, HANDLER_SET>>
          /\ pc = "mask_legacy_pic" /\ pc' = "build_tss_desc"
      BY <1>7 DEF mask_legacy_pic
    <2> QED BY <2>1 DEF TableInv
  <1>8. CASE build_tss_desc
    <2>1. /\ UNCHANGED <<GDT, FULL, loaded, IDT, HANDLER_SET>> /\ TSS_DESC' = TssDesc
          /\ pc = "build_tss_desc" /\ pc' = "rebuild_full_table"
      BY <1>8, Zenon DEF build_tss_desc, TssDesc
    <2> QED BY <2>1 DEF TableInv
  <1>9. CASE load_tss
    <2>1. /\ UNCHANGED <<GDT, TSS_DESC, IDT, HANDLER_SET>> /\ pc = "load_tss"
          /\ \/ pc' = "init_mmu" /\ loaded' = loaded \cup {"tr"} /\ FULL' = MarkBusy(FULL, TSS_SEL)
             \/ pc' = pc /\ loaded' = loaded /\ FULL' = FULL
      BY <1>9, Zenon DEF load_tss
    <2>2. FULL = FullTable BY <2>1 DEF TableInv
    <2>3. \/ pc' = "init_mmu" /\ loaded' = loaded \cup {"tr"} /\ FULL' = BusyTable
          \/ pc' = pc /\ loaded' = loaded /\ FULL' = FULL
      BY <2>1, <2>2, Zenon DEF BusyTable
    <2> QED BY <2>1, <2>3 DEF TableInv
  <1> QED BY <1>1, <1>2, <1>3, <1>4, <1>5, <1>6, <1>7, <1>8, <1>9, SMTT(60) DEF CoreStep

\* So does every other step.
LEMMA NextTables ==
  ASSUME is_canonical(TSS_ADDR), TableInv, [Next]_vars PROVE TableInv'
  <1> USE DEF Go, At, tables, cpu, hal, apic, timer, fault
  <1>1. CASE KmainStep
    <2>1. CASE \/ init_mmu \/ vm_init \/ init_time_source \/ apic_init \/ register_timer
               \/ time_init \/ arm_first \/ enable_interrupts
      <3>1. /\ UNCHANGED <<GDT, TSS_DESC, FULL, loaded, IDT, HANDLER_SET>>
            /\ pc \in TssUp /\ pc' \in TssUp \cup {"panic"}
            /\ pc \in HandlerUp => pc' \in HandlerUp \cup {"panic"}
        <4>1. CASE init_mmu \/ vm_init \/ init_time_source
          BY <4>1, Zenon DEF init_mmu, vm_init, init_time_source
        <4>2. CASE apic_init BY <4>2, SMTT(60) DEF apic_init
        <4>3. CASE register_timer \/ time_init \/ arm_first \/ enable_interrupts
          BY <4>3 DEF register_timer, time_init, arm_first, enable_interrupts, ArmOneShot
        <4> QED BY <2>1, <4>1, <4>2, <4>3
      <3>2. HANDLER_SET' \in BOOLEAN /\ (HANDLER_SET' => pc' \in HandlerUp \cup {"panic"})
        BY <3>1 DEF TableInv
      <3> QED BY <3>1, <3>2, TablesKeptOn
    <2>2. CASE interrupts_init
      <3>1. /\ UNCHANGED <<GDT, TSS_DESC, FULL, loaded, IDT>>
            /\ pc \in TssUp /\ pc' \in HandlerUp /\ HANDLER_SET'
        BY <2>2 DEF interrupts_init
      <3>2. HANDLER_SET' \in BOOLEAN BY <2>2 DEF interrupts_init
      <3> QED BY <3>1, <3>2, TablesKeptOn
    <2> QED BY <1>1, <2>1, <2>2 DEF KmainStep
  <1>2. CASE TickStep
    <2>1. UNCHANGED <<pc, tables, hal>>
      BY <1>2, Zenon DEF TickStep, irq_dispatch, on_timer_tick, arm_one_shot, eoi, iretq, InHandler
    <2> QED BY <2>1, TablesKept
  <1>3. CASE Elapse \/ Fire \/ TimerEnter \/ BecomeFaulty \/ Raise
    <2>1. UNCHANGED <<pc, tables, hal>>
      BY <1>3, Zenon DEF Elapse, Fire, TimerEnter, BecomeFaulty, Raise
    <2> QED BY <2>1, TablesKept
  <1>4. CASE exception_dispatch
    <2>1. /\ UNCHANGED <<tables, hal>>
          /\ pc' = pc \/ (HANDLER_SET /\ pc # "panic" /\ pc' = "panic")
      BY <1>4, Zenon DEF exception_dispatch
    <2>2. pc' = pc \/ (pc \in TssUp /\ pc' = "panic") BY <2>1 DEF TableInv
    <2>3. CASE pc' = pc BY <2>1, <2>3, TablesKept
    <2>4. CASE pc \in TssUp /\ pc' = "panic"
      <3>1. HANDLER_SET' \in BOOLEAN BY <2>1 DEF TableInv
      <3> QED BY <2>1, <2>4, <3>1, TablesKeptOn
    <2> QED BY <2>2, <2>3, <2>4
  <1>5. CASE UNCHANGED vars
    BY <1>5, TablesKept DEF vars
  <1> QED BY <1>1, <1>2, <1>3, <1>4, <1>5, CoreTables, Zenon DEF Next

-----------------------------------------------------------------------------
\* Two sequences one after the other.
LEMMA Joined ==
  ASSUME NEW S, NEW s \in Seq(S), NEW t \in Seq(S), NEW c, c = s \o t
  PROVE  /\ c \in Seq(S) /\ Len(c) = Len(s) + Len(t)
         /\ \A i \in 1 .. Len(s) : c[i] = s[i]
         /\ \A i \in 1 .. Len(t) : c[Len(s) + i] = t[i]
  <1>1. Len(s) \in Nat /\ Len(t) \in Nat BY LenProperties
  <1> QED BY <1>1, ConcatProperties

\* A part of a sequence.
LEMMA PartOf ==
  ASSUME NEW S, NEW s \in Seq(S), NEW m \in 1 .. Len(s), NEW n \in m .. Len(s),
         NEW c, c = SubSeq(s, m, n)
  PROVE  /\ c \in Seq(S) /\ Len(c) = n - m + 1
         /\ \A i \in 1 .. n - m + 1 : c[i] = s[m + i - 1]
  <1>1. Len(s) \in Nat BY LenProperties
  <1>2. \A i \in m .. n : s[i] \in S BY <1>1, ElementOfSeq
  <1>3. m \in Int /\ n \in Int BY <1>1
  <1> QED BY <1>2, <1>3, SubSeqProperties

\* The offsets of the fields of Tss64: repr(C) leaves four bytes after rsv0.
LEMMA TssOffsets ==
  \A i \in 1 .. 15 : Offset[i] = IF i = 15 THEN 106 ELSE 8 * (i - 1)
  <1> DEFINE Step(g) == [i \in 1 .. Len(Tss64) |->
                           IF i = 1 THEN 0
                           ELSE RoundUp(g[i - 1] + Tss64[i - 1].size, Tss64[i].size)]
             o == [i \in 1 .. 15 |-> IF i = 15 THEN 106 ELSE 8 * (i - 1)]
  <1>1. Offset = CHOOSE g : g = Step(g) BY DEF Offset
  <1>2. /\ Len(Tss64) = 15 /\ Tss64[1].size = 4 /\ Tss64[14].size = 2 /\ Tss64[15].size = 2
        /\ \A i \in 2 .. 13 : Tss64[i].size = 8
    BY DEF Tss64, Field
  <1>3. ASSUME NEW g, NEW i \in 2 .. 15, g[i - 1] = 8 * (i - 2)
        PROVE  RoundUp(g[i - 1] + Tss64[i - 1].size, Tss64[i].size)
                 = IF i = 15 THEN 106 ELSE 8 * (i - 1)
    <2>1. CASE i = 2 BY <1>2, <1>3, <2>1 DEF RoundUp
    <2>2. CASE i = 14 BY <1>2, <1>3, <2>2 DEF RoundUp
    <2>3. CASE i = 15 BY <1>2, <1>3, <2>3 DEF RoundUp
    <2>4. CASE i \in 3 .. 13
      <3>1. /\ Tss64[i - 1].size = 8 /\ Tss64[i].size = 8 BY <1>2, <2>4
      <3> QED BY <1>3, <2>4, <3>1 DEF RoundUp
    <2> QED BY <2>1, <2>2, <2>3, <2>4
  <1>4. o = Step(o)
    <2>1. ASSUME NEW i \in 1 .. 15 PROVE o[i] = Step(o)[i]
      <3>1. CASE i = 1 BY <1>2, <3>1
      <3>2. CASE i \in 2 .. 15
        <4>1. o[i - 1] = 8 * (i - 2) BY <3>2
        <4>2. o[i] = IF i = 15 THEN 106 ELSE 8 * (i - 1) OBVIOUS
        <4>3. Step(o)[i] = RoundUp(o[i - 1] + Tss64[i - 1].size, Tss64[i].size)
          BY <1>2, <3>2
        <4> HIDE DEF o, Step
        <4> QED BY <1>3, <3>2, <4>1, <4>2, <4>3
      <3> QED BY <3>1, <3>2
    <2> QED BY <1>2, <2>1
  <1>5. Offset = Step(Offset)
    <2> HIDE DEF o, Step
    <2> QED BY <1>1, <1>4
  <1>6. Offset[1] = 0 BY <1>2, <1>5
  <1>7. ASSUME NEW i \in 2 .. 15, Offset[i - 1] = 8 * (i - 2)
        PROVE  Offset[i] = IF i = 15 THEN 106 ELSE 8 * (i - 1)
    <2>1. Offset[i] = RoundUp(Offset[i - 1] + Tss64[i - 1].size, Tss64[i].size) BY <1>2, <1>5
    <2> QED BY <1>3, <1>7, <2>1
  <1>8. Offset[2] = 8 /\ Offset[3] = 16 /\ Offset[4] = 24 /\ Offset[5] = 32 /\ Offset[6] = 40
    BY <1>6, <1>7
  <1>9. Offset[7] = 48 /\ Offset[8] = 56 /\ Offset[9] = 64 /\ Offset[10] = 72 /\ Offset[11] = 80
    BY <1>7, <1>8
  <1>10. Offset[12] = 88 /\ Offset[13] = 96 /\ Offset[14] = 104 /\ Offset[15] = 106
    BY <1>7, <1>9
  <1> QED BY <1>6, <1>8, <1>9, <1>10

\* The TSS has 112 bytes, 8 more than the CPU's layout.
LEMMA TssSize == SizeOf = 112
  <1>1. Len(Tss64) = 15 /\ Tss64[15].size = 2 BY DEF Tss64, Field
  <1>2. Offset[15] = 106 BY TssOffsets
  <1> QED BY <1>1, <1>2 DEF SizeOf, RoundUp

\* The bytes of the segment descriptors.
LEMMA SegmentBytes ==
  /\ Segments \in Seq(Int) /\ Len(Segments) = 24
  /\ Segments[14] = 154 /\ Segments[15] = 175 /\ Segments[22] = 146
  <1>1. gdt_null \in Seq(Int) BY DEF gdt_null
  <1>2. Len(gdt_null) = 8 BY DEF gdt_null
  <1>3. PICK x : x = gdt_null \o gdt_null BY ZenonT(60)
  <1>4. x \in Seq(Int) BY <1>1, <1>3, Joined, Zenon
  <1>5. Len(x) = Len(gdt_null) + Len(gdt_null) BY <1>1, <1>3, Joined
  <1>6. Nulls = x \o gdt_null BY <1>3 DEF Nulls
  <1>7. Nulls \in Seq(Int) BY <1>1, <1>4, <1>6, Joined, Zenon
  <1>8. Len(Nulls) = Len(x) + Len(gdt_null) BY <1>1, <1>4, <1>6, Joined
  <1>9. PICK z : z = SubSeq(Nulls, 1, 8) BY ZenonT(60)
  <1>10. 1 \in 1 .. Len(Nulls) /\ 8 \in 1 .. Len(Nulls) BY <1>2, <1>5, <1>8
  <1>11. z \in Seq(Int) BY <1>7, <1>9, <1>10, PartOf, Zenon
  <1>12. Len(z) = 8 - 1 + 1 BY <1>7, <1>9, <1>10, PartOf
  <1>13. gdt_code64 \in Seq(Int) BY DEF gdt_code64
  <1>14. Len(gdt_code64) = 8 /\ gdt_code64[6] = 154 /\ gdt_code64[7] = 175 BY DEF gdt_code64
  <1>15. gdt_data \in Seq(Int) BY DEF gdt_data
  <1>16. Len(gdt_data) = 8 /\ gdt_data[6] = 146 BY DEF gdt_data
  <1>17. PICK y : y = z \o gdt_code64 BY ZenonT(60)
  <1>18. y \in Seq(Int) BY <1>11, <1>13, <1>17, Joined, Zenon
  <1>19. /\ Len(y) = Len(z) + Len(gdt_code64)
         /\ \A i \in 1 .. Len(gdt_code64) : y[Len(z) + i] = gdt_code64[i]
    BY <1>11, <1>13, <1>17, Joined
  <1>20. Segments = y \o gdt_data BY <1>9, <1>17 DEF Segments
  <1>21. Segments \in Seq(Int) BY <1>15, <1>18, <1>20, Joined, Zenon
  <1>22. /\ Len(Segments) = Len(y) + Len(gdt_data)
         /\ \A i \in 1 .. Len(y) : Segments[i] = y[i]
         /\ \A i \in 1 .. Len(gdt_data) : Segments[Len(y) + i] = gdt_data[i]
    BY <1>15, <1>18, <1>20, Joined
  <1>23. Len(z) = 8 /\ Len(y) = 16 BY <1>12, <1>14, <1>19
  <1>24. y[14] = gdt_code64[6] /\ y[15] = gdt_code64[7] BY <1>14, <1>19, <1>23
  <1>25. Segments[14] = y[14] /\ Segments[15] = y[15] /\ Segments[22] = gdt_data[6]
    BY <1>16, <1>22, <1>23
  <1>26. Len(Segments) = 24 BY <1>16, <1>22, <1>23
  <1> QED BY <1>14, <1>16, <1>21, <1>24, <1>25, <1>26

\* An address is a sequence of eight bytes.
LEMMA TssAddress == TSS_ADDR \in Seq(Int) /\ Len(TSS_ADDR) = 8
  <1>1. TSS_ADDR \in [1 .. 8 -> Int] BY BootAssumption, SMTT(60)
  <1>2. 8 \in Nat OBVIOUS
  <1>3. TSS_ADDR \in Seq(Int) BY <1>1, <1>2, SeqDef, Zenon
  <1> QED BY <1>1, <1>3, SMTT(60)

\* The bytes of the TSS descriptor.
LEMMA TssDescBytes ==
  /\ TssDesc \in Seq(Int) /\ Len(TssDesc) = 16
  /\ TssDesc[1] = 111 /\ TssDesc[2] = 0 /\ TssDesc[6] = 137 /\ TssDesc[7] = 0
  /\ TssDesc[3] = TSS_ADDR[1] /\ TssDesc[4] = TSS_ADDR[2] /\ TssDesc[5] = TSS_ADDR[3]
  /\ \A i \in 8 .. 12 : TssDesc[i] = TSS_ADDR[i - 4]
  <1> DEFINE a == TSS_ADDR
             L == <<111, 0, a[1], a[2], a[3], 137, 0, a[4]>>
             Z == <<0, 0, 0, 0>>
  <1>1. a \in Seq(Int) BY TssAddress
  <1>2. Len(a) = 8 BY TssAddress
  <1>3. \A i \in 1 .. 8 : a[i] \in Int BY BootAssumption
  <1>4. 111 = SizeOf - 1 BY TssSize
  <1>5. 111 % 256 = 111 /\ (111 \div 256) % 256 = 0 /\ (111 \div 65536) % 16 = 0 OBVIOUS
  <1>6. TssDesc = L \o SubSeq(a, 5, 8) \o Z
    <2> DEFINE D(x, y, z) == <<x, y, a[1], a[2], a[3], 137, z, a[4]>> \o SubSeq(a, 5, 8) \o Z
               M(l) == D(l % 256, (l \div 256) % 256, (l \div 65536) % 16)
    <2>1. TssDesc = M(SizeOf - 1) BY DEF TssDesc, make_tss_desc
    <2>2. L \o SubSeq(a, 5, 8) \o Z = D(111, 0, 0) OBVIOUS
    <2> HIDE DEF D, M
    <2>3. TssDesc = M(111) BY <1>4, <2>1
    <2>4. M(111) = D(111 % 256, (111 \div 256) % 256, (111 \div 65536) % 16) BY DEF M
    <2> QED BY <1>5, <2>2, <2>3, <2>4, SMT
  <1> HIDE DEF a
  <1>7. L \in Seq(Int) BY <1>3
  <1>8. /\ Len(L) = 8 /\ L[1] = 111 /\ L[2] = 0 /\ L[3] = a[1] /\ L[4] = a[2] /\ L[5] = a[3]
        /\ L[6] = 137 /\ L[7] = 0 /\ L[8] = a[4]
    OBVIOUS
  <1>9. Z \in Seq(Int) OBVIOUS
  <1>10. Len(Z) = 4 OBVIOUS
  <1> HIDE DEF L, Z
  <1>11. PICK h : h = SubSeq(a, 5, 8) BY ZenonT(60)
  <1>12. 5 \in 1 .. Len(a) /\ 8 \in 5 .. Len(a) BY <1>2
  <1>13. h \in Seq(Int) /\ Len(h) = 8 - 5 + 1 /\ \A i \in 1 .. 8 - 5 + 1 : h[i] = a[5 + i - 1]
    BY <1>1, <1>11, <1>12, PartOf, SMTT(60)
  <1>14. Len(h) = 4 /\ \A i \in 1 .. 4 : h[i] = a[4 + i] BY <1>13
  <1>15. PICK y : y = L \o h BY ZenonT(60)
  <1>16. h \in Seq(Int) BY <1>13
  <1>17. /\ y \in Seq(Int) /\ Len(y) = Len(L) + Len(h)
         /\ \A i \in 1 .. Len(L) : y[i] = L[i]
         /\ \A i \in 1 .. Len(h) : y[Len(L) + i] = h[i]
    BY <1>7, <1>15, <1>16, Joined
  <1>18. TssDesc = y \o Z BY <1>6, <1>11, <1>15
  <1>19. y \in Seq(Int) BY <1>17
  <1>20. /\ TssDesc \in Seq(Int) /\ Len(TssDesc) = Len(y) + Len(Z)
         /\ \A i \in 1 .. Len(y) : TssDesc[i] = y[i]
    BY <1>9, <1>18, <1>19, Joined
  <1>21. Len(y) = 12 BY <1>8, <1>14, <1>17
  <1>22. \A i \in 1 .. 8 : TssDesc[i] = L[i]
    <2>1. \A i \in 1 .. 12 : TssDesc[i] = y[i] BY <1>20, <1>21, ZenonT(60)
    <2>2. \A i \in 1 .. 8 : y[i] = L[i] BY <1>8, <1>17, ZenonT(60)
    <2> QED BY <2>1, <2>2
  <1>23. \A i \in 1 .. 4 : TssDesc[8 + i] = a[4 + i]
    <2>1. \A i \in 1 .. 12 : TssDesc[i] = y[i] BY <1>20, <1>21, ZenonT(60)
    <2>2. ASSUME NEW i \in 1 .. 4 PROVE y[8 + i] = h[i]
      <3>1. i \in 1 .. Len(h) BY <1>14
      <3>2. y[Len(L) + i] = h[i] BY <1>17, <3>1
      <3> QED BY <1>8, <3>2
    <2>3. \A i \in 1 .. 4 : TssDesc[8 + i] = h[i] BY <2>1, <2>2
    <2> QED BY <1>14, <2>3
  <1>24. \A i \in 8 .. 12 : TssDesc[i] = a[i - 4]
    <2>1. ASSUME NEW i \in 9 .. 12 PROVE TssDesc[i] = a[i - 4]
      <3>1. i - 8 \in 1 .. 4 /\ 8 + (i - 8) = i /\ 4 + (i - 8) = i - 4 OBVIOUS
      <3> QED BY <1>23, <3>1
    <2>2. TssDesc[8] = a[8 - 4] BY <1>8, <1>22
    <2> QED BY <2>1, <2>2
  <1> QED BY <1>8, <1>10, <1>20, <1>21, <1>22, <1>24, SMTT(60) DEF a

\* The bytes of the whole table before and after ltr.
LEMMA TableBytes ==
  ASSUME NEW f \in {FullTable, BusyTable}
  PROVE  /\ f \in Seq(Int) /\ Len(f) = 40
         /\ \A i \in 1 .. 24 : f[i] = Segments[i]
         /\ \A i \in 1 .. 16 : i # 6 => f[24 + i] = TssDesc[i]
         /\ f[30] = IF f = BusyTable THEN 139 ELSE 137
         /\ FullTable # BusyTable
  <1>1. Segments \in Seq(Int) BY SegmentBytes
  <1>2. TssDesc \in Seq(Int) BY TssDescBytes
  <1>3. Len(Segments) = 24 /\ Len(TssDesc) = 16 /\ TssDesc[6] = 137 BY SegmentBytes, TssDescBytes
  <1>4. FullTable = Segments \o TssDesc BY DEF FullTable
  <1>5. /\ FullTable \in Seq(Int) /\ Len(FullTable) = Len(Segments) + Len(TssDesc)
        /\ \A i \in 1 .. Len(Segments) : FullTable[i] = Segments[i]
        /\ \A i \in 1 .. Len(TssDesc) : FullTable[Len(Segments) + i] = TssDesc[i]
    BY <1>1, <1>2, <1>4, Joined
  <1>6. FullTable \in Seq(Int) BY <1>5
  <1>7. Len(FullTable) = 40 BY <1>3, <1>5
  <1>8. FullTable[30] = 137
    <2>1. FullTable[24 + 6] = TssDesc[6] BY <1>3, <1>5
    <2> QED BY <1>3, <2>1
  <1>9. BusyTable = [FullTable EXCEPT ![30] = @ + 2] BY DEF BusyTable, MarkBusy, TSS_SEL
  <1>10. 30 \in 1 .. Len(FullTable) /\ FullTable[30] + 2 \in Int BY <1>7, <1>8
  <1>11. BusyTable \in Seq(Int) /\ Len(BusyTable) = 40 BY <1>6, <1>7, <1>9, <1>10, ExceptSeq
  <1>12. BusyTable[30] = 139 /\ \A i \in 1 .. 40 : i # 30 => BusyTable[i] = FullTable[i]
    BY <1>6, <1>7, <1>8, <1>9
  <1>13. \A i \in 1 .. 40 : i # 30 => f[i] = FullTable[i] BY <1>12
  <1>14. f \in Seq(Int) /\ Len(f) = 40 BY <1>6, <1>7, <1>11
  <1>15. \A i \in 1 .. 24 : f[i] = Segments[i]
    <2>1. \A i \in 1 .. 24 : FullTable[i] = Segments[i] BY <1>3, <1>5, ZenonT(60)
    <2> QED BY <1>13, <2>1
  <1>16. \A i \in 1 .. 16 : i # 6 => f[24 + i] = TssDesc[i]
    <2>1. ASSUME NEW i \in 1 .. 16 PROVE FullTable[24 + i] = TssDesc[i]
      <3>1. i \in 1 .. Len(TssDesc) BY <1>3
      <3>2. FullTable[Len(Segments) + i] = TssDesc[i] BY <1>5, <3>1
      <3> QED BY <1>3, <3>2
    <2> QED BY <1>13, <2>1
  <1>17. f[30] = IF f = BusyTable THEN 139 ELSE 137 BY <1>8, <1>12
  <1>18. FullTable # BusyTable BY <1>8, <1>12
  <1> QED BY <1>14, <1>15, <1>16, <1>17, <1>18

\* The CPU finds 64-bit code and data in the table behind every selector it loads.
LEMMA SegmentsDescribed ==
  ASSUME NEW f \in {FirstTable, FullTable, BusyTable}
  PROVE  IsCode64(Descriptor(f, KERNEL_CS, 8)) /\ IsData(Descriptor(f, KERNEL_DS, 8))
  <1>1. f \in Seq(Int) /\ Len(f) = 40 /\ \A i \in 1 .. 24 : f[i] = Segments[i]
    <2>1. CASE f = FirstTable
      <3>1. Segments \in Seq(Int) BY SegmentBytes
      <3>2. NoTssDesc \in Seq(Int) BY DEF NoTssDesc
      <3>3. Len(Segments) = 24 /\ Len(NoTssDesc) = 16 BY SegmentBytes DEF NoTssDesc
      <3>4. f = Segments \o NoTssDesc BY <2>1 DEF FirstTable
      <3>5. /\ f \in Seq(Int) /\ Len(f) = Len(Segments) + Len(NoTssDesc)
            /\ \A i \in 1 .. Len(Segments) : f[i] = Segments[i]
        BY <3>1, <3>2, <3>4, Joined
      <3> QED BY <3>3, <3>5
    <2>2. CASE f \in {FullTable, BusyTable} BY <2>2, TableBytes, ZenonT(60)
    <2> QED BY <2>1, <2>2
  <1>2. f[14] = 154 /\ f[15] = 175 /\ f[22] = 146 BY <1>1, SegmentBytes
  <1>3. f \in Seq(Int) BY <1>1
  <1>4. PICK c, d : c = SubSeq(f, 9, 16) /\ d = SubSeq(f, 17, 24) BY ZenonT(60)
  <1>5. 9 \in 1 .. Len(f) /\ 16 \in 9 .. Len(f) /\ 17 \in 1 .. Len(f) /\ 24 \in 17 .. Len(f)
    BY <1>1
  <1>6. \A i \in 1 .. 16 - 9 + 1 : c[i] = f[9 + i - 1] BY <1>3, <1>4, <1>5, PartOf
  <1>7. \A i \in 1 .. 24 - 17 + 1 : d[i] = f[17 + i - 1] BY <1>3, <1>4, <1>5, PartOf
  <1>8. c[6] = 154 /\ c[7] = 175 /\ d[6] = 146 BY <1>2, <1>6, <1>7
  <1>9. Descriptor(f, KERNEL_CS, 8) = c /\ Descriptor(f, KERNEL_DS, 8) = d
    BY <1>4 DEF Descriptor, KERNEL_CS, KERNEL_DS
  <1>10. /\ Bit(154, 7) /\ ~Bit(154, 6) /\ ~Bit(154, 5) /\ Bit(154, 4) /\ Bit(154, 3)
         /\ Bit(175, 5) /\ ~Bit(175, 6)
    BY SMT DEF Bit
  <1>11. Bit(146, 7) /\ ~Bit(146, 6) /\ ~Bit(146, 5) /\ Bit(146, 4) /\ ~Bit(146, 3) /\ Bit(146, 1)
    BY SMT DEF Bit
  <1>12. IsCode64(c) BY <1>8, <1>10, SMT DEF IsCode64, Present0, Access
  <1>13. IsData(d) BY <1>8, <1>11, SMT DEF IsData, Present0, Access
  <1> QED BY <1>9, <1>12, <1>13

\* The descriptor of the TSS is the last 16 bytes of the table.
LEMMA LastEntry ==
  ASSUME NEW f \in Seq(Int), Len(f) = 40, NEW d, d = SubSeq(f, 25, 40)
  PROVE  d \in Seq(Int) /\ Len(d) = 16 /\ \A i \in 1 .. 16 : d[i] = f[24 + i]
  <1>1. 25 \in 1 .. Len(f) /\ 40 \in 25 .. Len(f) OBVIOUS
  <1>2. d \in Seq(Int) BY <1>1, PartOf, ZenonT(60)
  <1>3. Len(d) = 40 - 25 + 1 BY <1>1, PartOf
  <1>4. \A i \in 1 .. 40 - 25 + 1 : d[i] = f[25 + i - 1] BY <1>1, PartOf
  <1>5. \A i \in 1 .. 16 : d[i] = f[24 + i] BY <1>4
  <1> QED BY <1>2, <1>3, <1>5

\* The CPU finds the TSS through its descriptor, available before ltr and busy after it.
LEMMA TssDescribed ==
  ASSUME NEW f \in {FullTable, BusyTable}
  PROVE  LET d == Descriptor(f, TSS_SEL, 16)
         IN  /\ TssType(d) = IF f = BusyTable THEN 11 ELSE 9
             /\ TssBase(d) = TSS_ADDR
             /\ TssLimit(d) = SizeOf - 1 /\ TssLimit(d) >= 103
  <1>1. f \in Seq(Int) BY TableBytes, ZenonT(60)
  <1>2. Len(f) = 40 BY TableBytes, ZenonT(60)
  <1>3. \A i \in 1 .. 16 : i # 6 => f[24 + i] = TssDesc[i]
    BY TableBytes, ZenonT(60)
  <1>4. f[30] = IF f = BusyTable THEN 139 ELSE 137
    <2>1. CASE f = BusyTable BY <2>1, TableBytes
    <2>2. CASE f # BusyTable BY <2>2, TableBytes
    <2> QED BY <2>1, <2>2
  <1>5. PICK d : d = SubSeq(f, 25, 40) BY ZenonT(60)
  <1>6. Descriptor(f, TSS_SEL, 16) = d BY <1>5 DEF Descriptor, TSS_SEL
  <1>7. d \in Seq(Int) BY <1>1, <1>2, <1>5, LastEntry, Zenon
  <1>8. Len(d) = 16 BY <1>1, <1>2, <1>5, LastEntry, Zenon
  <1>9. \A i \in 1 .. 16 : d[i] = f[24 + i] BY <1>1, <1>2, <1>5, LastEntry, ZenonT(60)
  <1>10. d[6] = IF f = BusyTable THEN 139 ELSE 137 BY <1>4, <1>9
  <1>11. \A i \in 1 .. 16 : i # 6 => d[i] = TssDesc[i] BY <1>3, <1>9
  <1>12. TssType(d) = IF f = BusyTable THEN 11 ELSE 9 BY <1>10 DEF TssType, Access
  <1>13. TssLimit(d) = 111
    <2>1. TssDesc[1] = 111 /\ TssDesc[2] = 0 /\ TssDesc[7] = 0 BY TssDescBytes
    <2>2. d[1] = 111 /\ d[2] = 0 /\ d[7] = 0 BY <1>11, <2>1
    <2> QED BY <2>2 DEF TssLimit
  <1>14. TssBase(d) = TSS_ADDR
    <2> DEFINE a == TSS_ADDR
               m == <<d[8]>>
    <2>1. PICK l, h : l = SubSeq(d, 3, 5) /\ h = SubSeq(d, 9, 12) BY ZenonT(60)
    <2>2. 3 \in 1 .. Len(d) /\ 5 \in 3 .. Len(d) /\ 9 \in 1 .. Len(d) /\ 12 \in 9 .. Len(d) BY <1>8
    <2>3. l \in Seq(Int) BY <1>7, <2>1, <2>2, PartOf, ZenonT(60)
    <2>4. Len(l) = 5 - 3 + 1 /\ \A i \in 1 .. 5 - 3 + 1 : l[i] = d[3 + i - 1]
      BY <1>7, <2>1, <2>2, PartOf
    <2>5. h \in Seq(Int) BY <1>7, <2>1, <2>2, PartOf, ZenonT(60)
    <2>6. Len(h) = 12 - 9 + 1 /\ \A i \in 1 .. 12 - 9 + 1 : h[i] = d[9 + i - 1]
      BY <1>7, <2>1, <2>2, PartOf
    <2>7. m \in Seq(Int) /\ Len(m) = 1 /\ m[1] = d[8]
      <3>1. 8 \in 1 .. Len(d) BY <1>8
      <3>2. d[8] \in Int BY <1>7, <3>1, ElementOfSeq
      <3> QED BY <3>2
    <2>8. m \in Seq(Int) BY <2>7
    <2> HIDE DEF m
    <2>9. PICK x : x = l \o m BY ZenonT(60)
    <2>10. x \in Seq(Int) BY <2>3, <2>8, <2>9, Joined
    <2>11. /\ Len(x) = Len(l) + Len(m)
           /\ \A i \in 1 .. Len(l) : x[i] = l[i]
           /\ \A i \in 1 .. Len(m) : x[Len(l) + i] = m[i]
      BY <2>3, <2>8, <2>9, Joined
    <2>12. PICK b : b = x \o h BY ZenonT(60)
    <2>13. b \in Seq(Int) BY <2>5, <2>10, <2>12, Joined
    <2>14. /\ Len(b) = Len(x) + Len(h)
           /\ \A i \in 1 .. Len(x) : b[i] = x[i]
           /\ \A i \in 1 .. Len(h) : b[Len(x) + i] = h[i]
      BY <2>5, <2>10, <2>12, Joined
    <2>15. TssBase(d) = b BY <2>1, <2>9, <2>12 DEF TssBase, m
    <2>16. Len(l) = 3 /\ Len(m) = 1 /\ Len(h) = 4 /\ Len(x) = 4 /\ Len(b) = 8
      BY <2>4, <2>6, <2>7, <2>11, <2>14, SMTT(60)
    <2>17. b[1] = d[3] /\ b[2] = d[4] /\ b[3] = d[5] BY <2>4, <2>11, <2>14, <2>16
    <2>18. b[4] = d[8] BY <2>7, <2>11, <2>14, <2>16
    <2>19. b[5] = d[9] /\ b[6] = d[10] /\ b[7] = d[11] /\ b[8] = d[12] BY <2>6, <2>14, <2>16, SMTT(60)
    <2>20. /\ d[3] = a[1] /\ d[4] = a[2] /\ d[5] = a[3] /\ d[8] = a[4]
           /\ d[9] = a[5] /\ d[10] = a[6] /\ d[11] = a[7] /\ d[12] = a[8]
      <3>1. TssDesc[3] = a[1] /\ TssDesc[4] = a[2] /\ TssDesc[5] = a[3] BY TssDescBytes
      <3>2. \A i \in 8 .. 12 : TssDesc[i] = a[i - 4] BY TssDescBytes, SMTT(60)
      <3>3. \A i \in 8 .. 12 : d[i] = a[i - 4] BY <1>11, <3>2
      <3>4. d[8] = a[4] /\ d[9] = a[5] /\ d[10] = a[6] /\ d[11] = a[7] /\ d[12] = a[8] BY <3>3
      <3> QED BY <1>11, <3>1, <3>4
    <2>21. \A i \in 1 .. 8 : b[i] = a[i] BY <2>17, <2>18, <2>19, <2>20
    <2>22. a \in Seq(Int) /\ Len(a) = 8 BY TssAddress
    <2> QED BY <2>13, <2>15, <2>16, <2>21, <2>22, SeqEqual, ZenonT(60)
  <1> QED BY <1>6, <1>12, <1>13, <1>14, TssSize

\* Every gate leads to the stub of its vector, in the kernel's code segment.
LEMMA GatesDescribed ==
  ASSUME NEW vec \in Vectors
  PROVE  /\ IsInterruptGate(Gates[vec]) /\ GateSelector(Gates[vec]) = KERNEL_CS
         /\ GateOffset(Gates[vec]) = Stub(vec)
  <1>1. PICK S : S = Int \cup (Int \X Int) BY ZenonT(60)
  <1>2. PICK s : s = Stub(vec) BY Zenon
  <1>3. PICK n \in 0 .. 1 : n = IF vec = 8 THEN 1 ELSE 0 OBVIOUS
  <1>4. vec \in Int BY DEF Vectors, TIMER_VEC, TLB_SHOOTDOWN_VEC
  <1>5. s \in [1 .. 8 -> S] BY <1>1, <1>2, <1>4 DEF Stub
  <1>6. 8 \in Nat OBVIOUS
  <1>7. s \in Seq(S)
    <2>1. Seq(S) = UNION {[1 .. k -> S] : k \in Nat} BY SeqDef
    <2> QED BY <1>5, <1>6, <2>1, Zenon
  <1>8. Len(s) = 8 BY <1>5, <1>7
  <1> DEFINE C == <<KERNEL_CS, 0>>
             T == <<n % 8, 142>>
             Z == <<0, 0, 0, 0>>
  <1>9. C \in Seq(S) BY <1>1 DEF KERNEL_CS
  <1>10. T \in Seq(S) BY <1>1
  <1>11. Z \in Seq(S) BY <1>1
  <1>12. Len(C) = 2 /\ C[1] = KERNEL_CS /\ C[2] = 0 OBVIOUS
  <1>13. Len(T) = 2 /\ T[2] = 142 OBVIOUS
  <1>14. Len(Z) = 4 OBVIOUS
  <1>15. PICK a, b, c : /\ a = SubSeq(s, 1, 2) /\ b = SubSeq(s, 3, 4) /\ c = SubSeq(s, 5, 8)
    BY ZenonT(60)
  <1>16. /\ 1 \in 1 .. Len(s) /\ 2 \in 1 .. Len(s) /\ 3 \in 1 .. Len(s) /\ 4 \in 3 .. Len(s)
         /\ 5 \in 1 .. Len(s) /\ 8 \in 5 .. Len(s)
    BY <1>8
  <1>17. a \in Seq(S) BY <1>7, <1>15, <1>16, PartOf
  <1>18. Len(a) = 2 - 1 + 1 /\ \A i \in 1 .. 2 - 1 + 1 : a[i] = s[1 + i - 1]
    BY <1>7, <1>15, <1>16, PartOf
  <1>19. b \in Seq(S) BY <1>7, <1>15, <1>16, PartOf
  <1>20. Len(b) = 4 - 3 + 1 /\ \A i \in 1 .. 4 - 3 + 1 : b[i] = s[3 + i - 1]
    BY <1>7, <1>15, <1>16, PartOf
  <1>21. c \in Seq(S) BY <1>7, <1>15, <1>16, PartOf
  <1>22. Len(c) = 8 - 5 + 1 /\ \A i \in 1 .. 8 - 5 + 1 : c[i] = s[5 + i - 1]
    BY <1>7, <1>15, <1>16, PartOf
  <1>23. PICK g : g = Gates[vec] BY Zenon
  <1>24. g = a \o C \o T \o b \o c \o Z
    BY <1>2, <1>3, <1>15, <1>23 DEF Gates, set_gate
  <1> HIDE DEF C, T, Z
  <1>25. PICK g2 : g2 = a \o C BY ZenonT(60)
  <1>26. g2 \in Seq(S) BY <1>9, <1>17, <1>25, Joined
  <1>27. /\ Len(g2) = Len(a) + Len(C)
         /\ \A i \in 1 .. Len(a) : g2[i] = a[i]
         /\ \A i \in 1 .. Len(C) : g2[Len(a) + i] = C[i]
    BY <1>9, <1>17, <1>25, Joined, SMTT(60)
  <1>28. PICK g3 : g3 = g2 \o T BY Zenon
  <1>29. g3 \in Seq(S) BY <1>10, <1>26, <1>28, Joined
  <1>30. /\ Len(g3) = Len(g2) + Len(T)
         /\ \A i \in 1 .. Len(g2) : g3[i] = g2[i]
         /\ \A i \in 1 .. Len(T) : g3[Len(g2) + i] = T[i]
    BY <1>10, <1>26, <1>28, Joined
  <1>31. PICK g4 : g4 = g3 \o b BY ZenonT(60)
  <1>32. g4 \in Seq(S) BY <1>19, <1>29, <1>31, Joined
  <1>33. /\ Len(g4) = Len(g3) + Len(b)
         /\ \A i \in 1 .. Len(g3) : g4[i] = g3[i]
         /\ \A i \in 1 .. Len(b) : g4[Len(g3) + i] = b[i]
    BY <1>19, <1>29, <1>31, Joined, SMTT(60)
  <1>34. PICK g5 : g5 = g4 \o c BY Zenon
  <1>35. g5 \in Seq(S) BY <1>21, <1>32, <1>34, Joined
  <1>36. /\ Len(g5) = Len(g4) + Len(c)
         /\ \A i \in 1 .. Len(g4) : g5[i] = g4[i]
         /\ \A i \in 1 .. Len(c) : g5[Len(g4) + i] = c[i]
    BY <1>21, <1>32, <1>34, Joined
  <1>37. g = g5 \o Z BY <1>24, <1>25, <1>28, <1>31, <1>34
  <1>38. g \in Seq(S) BY <1>11, <1>35, <1>37, Joined
  <1>39. Len(g) = Len(g5) + Len(Z) /\ \A i \in 1 .. Len(g5) : g[i] = g5[i]
    BY <1>11, <1>35, <1>37, Joined
  <1>40. /\ Len(a) = 2 /\ Len(C) = 2 /\ Len(T) = 2 /\ Len(b) = 2 /\ Len(c) = 4 /\ Len(Z) = 4
    BY <1>12, <1>13, <1>14, <1>18, <1>20, <1>22, SMTT(60)
  <1>41. Len(g2) = 4 /\ Len(g3) = 6 /\ Len(g4) = 8 /\ Len(g5) = 12 /\ Len(g) = 16
    BY <1>27, <1>30, <1>33, <1>36, <1>39, <1>40, SMTT(60)
  <1>42. g[1] = s[1] /\ g[2] = s[2] 
    BY <1>18, <1>27, <1>30, <1>33, <1>36, <1>39, <1>40, <1>41, SMTT(60)
  <1>43. g[3] = KERNEL_CS /\ g[4] = 0 
    BY <1>12, <1>27, <1>30, <1>33, <1>36, <1>39, <1>40, <1>41, SMTT(60)
  <1>44. g[6] = 142 BY <1>13, <1>30, <1>33, <1>36, <1>39, <1>40, <1>41, SMTT(60)
  <1>45. g[7] = s[3] /\ g[8] = s[4] BY <1>20, <1>33, <1>36, <1>39, <1>40, <1>41, SMTT(60)
  <1>46. g[9] = s[5] /\ g[10] = s[6] /\ g[11] = s[7] /\ g[12] = s[8]
    BY <1>22, <1>36, <1>39, <1>40, <1>41
  <1>47. IsInterruptGate(g)
    <2>1. Bit(142, 7) /\ 142 % 32 = 14 BY SMT DEF Bit
    <2> QED BY <1>44, <2>1, SMT DEF IsInterruptGate
  <1>48. GateSelector(g) = KERNEL_CS BY <1>43 DEF GateSelector, KERNEL_CS
  <1>49. GateOffset(g) = s
    <2>1. PICK l, h : l = SubSeq(g, 1, 2) /\ h = SubSeq(g, 7, 12) BY ZenonT(60)
    <2>2. 1 \in 1 .. Len(g) /\ 2 \in 1 .. Len(g) /\ 7 \in 1 .. Len(g) /\ 12 \in 7 .. Len(g)
      BY <1>41
    <2>3. l \in Seq(S) BY <1>38, <2>1, <2>2, PartOf, SMTT(60)
    <2>4. Len(l) = 2 - 1 + 1 /\ \A i \in 1 .. 2 - 1 + 1 : l[i] = g[1 + i - 1]
      BY <1>38, <2>1, <2>2, PartOf
    <2>5. h \in Seq(S) BY <1>38, <2>1, <2>2, PartOf, SMTT(60)
    <2>6. Len(h) = 12 - 7 + 1 /\ \A i \in 1 .. 12 - 7 + 1 : h[i] = g[7 + i - 1]
      BY <1>38, <2>1, <2>2, PartOf
    <2>7. PICK o : o = l \o h BY Zenon
    <2>8. o \in Seq(S) BY <2>3, <2>5, <2>7, Joined, SMTT(60)
    <2>9. /\ Len(o) = Len(l) + Len(h)
          /\ \A i \in 1 .. Len(l) : o[i] = l[i]
          /\ \A i \in 1 .. Len(h) : o[Len(l) + i] = h[i]
      BY <2>3, <2>5, <2>7, Joined, SMTT(60)
    <2>10. Len(l) = 2 /\ Len(h) = 6 /\ Len(o) = 8 BY <2>4, <2>6, <2>9
    <2>11. o[1] = g[1] /\ o[2] = g[2] BY <2>4, <2>9, <2>10, SMTT(60)
    <2>12. o[3] = g[7] /\ o[4] = g[8] /\ o[5] = g[9] /\ o[6] = g[10] /\ o[7] = g[11] /\ o[8] = g[12]
      BY <2>6, <2>9, <2>10, SMTT(60)
    <2>13. \A i \in 1 .. 8 : o[i] = s[i] BY <1>42, <1>45, <1>46, <2>11, <2>12
    <2>14. GateOffset(g) = o BY <2>1, <2>7 DEF GateOffset
    <2> QED BY <1>7, <1>8, <2>8, <2>10, <2>13, <2>14, SeqEqual, SMTT(60)
  <1> QED BY <1>2, <1>23, <1>47, <1>48, <1>49

\* On every machine, while and after build_full_table rewrites the table in use, every
\* selector the CPU runs on is described by it, ltr finds an available TSS, and every gate
\* leads to its stub, given that the static TSS is at an address that exists.
THEOREM SelectorsAlwaysDescribed ==
  ASSUME is_canonical(TSS_ADDR) PROVE Spec => []SelectorsDescribed
  <1>1. Init => TableInv
    BY ZenonT(60) DEF Init, TableInv, Nulls
  <1>2. TableInv /\ [Next]_vars => TableInv'
    BY NextTables
  <1>3. TableInv => SelectorsDescribed
    <2> SUFFICES ASSUME TableInv PROVE SelectorsDescribed OBVIOUS
    <2>1. "cs" \in loaded => /\ "gdtr" \in loaded
                             /\ IsCode64(Descriptor(FULL, KERNEL_CS, 8))
                             /\ IsData(Descriptor(FULL, KERNEL_DS, 8))
      BY SegmentsDescribed, Zenon DEF TableInv
    <2>2. BusyTable # FullTable BY TableBytes, SMTT(60)
    <2>3. pc = "load_tss" => TssType(Descriptor(FULL, TSS_SEL, 16)) = 9
      <3>1. TssType(Descriptor(FullTable, TSS_SEL, 16)) = 9 BY <2>2, TssDescribed, Zenon
      <3> QED BY <3>1 DEF TableInv
    <2>4. "tr" \in loaded => LET d == Descriptor(FULL, TSS_SEL, 16)
                             IN  /\ TssType(d) = 11 /\ TssBase(d) = TSS_ADDR
                                 /\ TssLimit(d) = SizeOf - 1 /\ TssLimit(d) >= 103
      <3>1. LET d == Descriptor(BusyTable, TSS_SEL, 16)
            IN  /\ TssType(d) = 11 /\ TssBase(d) = TSS_ADDR
                /\ TssLimit(d) = SizeOf - 1 /\ TssLimit(d) >= 103
        BY TssDescribed, Zenon
      <3> QED BY <3>1, Zenon DEF TableInv
    <2>5. "idtr" \in loaded =>
            /\ "cs" \in loaded
            /\ \A vec \in DOMAIN IDT : /\ IsInterruptGate(IDT[vec])
                                       /\ GateSelector(IDT[vec]) = KERNEL_CS
                                       /\ GateOffset(IDT[vec]) = Stub(vec)
      <3>1. DOMAIN Gates = Vectors BY DEF Gates
      <3> QED BY <3>1, GatesDescribed, Zenon DEF TableInv
    <2> QED BY <2>1, <2>3, <2>4, <2>5, Zenon DEF SelectorsDescribed
  <1> QED BY <1>1, <1>2, <1>3, PTL DEF Spec

-----------------------------------------------------------------------------
\* A product of natural numbers is one.
LEMMA Products ==
  ASSUME NEW a \in Nat, NEW b \in Nat PROVE a * b \in Nat
  OBVIOUS

\* A natural number divided by another is at most as large.
LEMMA Quotients ==
  ASSUME NEW a \in Nat, NEW b \in Nat \ {0} PROVE a \div b \in 0 .. a
  <1>1. PICK q \in Int : q = a \div b OBVIOUS
  <1>2. PICK r \in Int : r = a % b OBVIOUS
  <1>3. a = b * q + r /\ r \in 0 .. b - 1 BY <1>1, <1>2
  <1>4. q >= 0 BY <1>3
  <1>5. q <= b * q BY <1>4, SMTT(60)
  <1> QED BY <1>1, <1>3, <1>4, <1>5

\* The TSC frequency that CPUID reports fits into a u64.
LEMMA FrequencyFits ==
  ASSUME machine \in Machines PROVE tsc_hz \in 0 .. U64_MAX
  <1> DEFINE d == machine.leaf15[1]
             n == machine.leaf15[2]
             c == machine.leaf15[3]
  <1>1. /\ d \in Nat /\ n \in Nat /\ c \in Nat /\ machine.leaf16 * MHZ <= U64_MAX
        /\ U64_MAX \in Nat /\ machine.leaf16 \in Nat /\ MHZ \in Nat
    BY BootAssumption DEF Machine
  <1>2. machine.leaf16 * MHZ \in 0 .. U64_MAX BY <1>1, Products
  <1>3. c * n \in Nat BY <1>1, Products
  <1>4. saturating_mul(c, n) \in 0 .. U64_MAX BY <1>1, <1>3, SMTT(60) DEF saturating_mul
  <1>5. d # 0 => saturating_mul(c, n) \div d \in 0 .. U64_MAX
    <2> SUFFICES ASSUME d # 0 PROVE saturating_mul(c, n) \div d \in 0 .. U64_MAX OBVIOUS
    <2>1. PICK p \in 0 .. U64_MAX : p = saturating_mul(c, n) BY <1>4
    <2>2. p \div d \in 0 .. p BY <1>1, <2>1, Quotients
    <2> QED BY <1>1, <2>1, <2>2
  <1> QED BY <1>1, <1>2, <1>5, SMTT(60) DEF tsc_hz

\* The length of a period, in TSC ticks, is a number.
LEMMA PeriodIsNumber ==
  ASSUME TSC_HZ \in 0 .. U64_MAX PROVE ticks \in Nat
  <1>1. frequency_hz \in 0 .. U64_MAX BY BootAssumption DEF frequency_hz
  <1>2. PICK hz \in 0 .. U64_MAX : hz = frequency_hz BY <1>1
  <1>3. ticks = saturating_mul(TICK_NS, hz) \div SECOND BY <1>2, SMTT(60) DEF ticks, TicksPerPeriod
  <1>4. hz \in Nat /\ TICK_NS \in Nat /\ U64_MAX \in Nat /\ SECOND \in Nat \ {0} BY BootAssumption
  <1>5. TICK_NS * hz \in Nat BY <1>4, Products
  <1>6. PICK p \in Nat : p = saturating_mul(TICK_NS, hz) BY <1>4, <1>5 DEF saturating_mul
  <1>7. p \div SECOND \in 0 .. p BY <1>4, <1>6, Quotients
  <1> QED BY <1>3, <1>6, <1>7, SMTT(60)

\* TypeOK, variable by variable: those of the boot and those of the timer and of faults.
BootTypes ==
  /\ machine \in Machines
  /\ pc \in Steps \cup {"panic"}
  /\ loaded \subseteq {"gdtr", "cs", "ds", "tr", "idtr"} /\ DOMAIN IDT \subseteq 0 .. 255
  /\ features \subseteq {"EM", "TS", "MP", "NE", "OSFXSR", "OSXMMEXCPT", "WP", "PGE", "NXE"}
  /\ NXE_ENABLED \in BOOLEAN /\ HANDLER_SET \in BOOLEAN /\ TIMER \in BOOLEAN
  /\ TSC_HZ \in 0 .. U64_MAX /\ LAPIC_BASE \in Nat
  /\ APIC_MODE \in {"none", "xapic", "x2apic"}

TimerTypes ==
  /\ IF_flag \in BOOLEAN /\ irr \in BOOLEAN /\ isr \in BOOLEAN /\ wrapped \in BOOLEAN
  /\ faulty \in BOOLEAN /\ exc \in BOOLEAN
  /\ tsc \in 0 .. U64_MAX /\ deadline \in 0 .. U64_MAX /\ now \in 0 .. U64_MAX
  /\ tick \in {"none", "dispatch", "read", "arm", "eoi", "iret"}

\* The variables of the boot keep their types.
LEMMA NextBootTypes ==
  ASSUME BootTypes, [Next]_vars PROVE BootTypes'
  <1> USE DEF Go, At, tables, cpu, hal, apic, timer, fault
  <1>1. CASE CoreStep
    <2>1. /\ UNCHANGED <<machine, NXE_ENABLED, hal, APIC_MODE, LAPIC_BASE>> /\ pc' \in Steps
          /\ \/ UNCHANGED loaded
             \/ loaded' \in {loaded \cup {"gdtr"}, loaded \cup {"cs", "ds"}, loaded \cup {"idtr"},
                             loaded \cup {"tr"}}
      BY <1>1, ZenonT(60) DEF CoreStep, early_init, gather_bootinfo, init_tss, build_gdt_entries_only,
                  build_full_table, load_gdt, reload_segments, init_idt, mask_legacy_pic,
                  build_tss_desc, load_tss
    <2>2. features' = features \/ features' \subseteq features \cup {"MP", "NE", "OSFXSR", "OSXMMEXCPT"}
      BY <1>1, ZenonT(60) DEF CoreStep, early_init, gather_bootinfo, init_tss, build_gdt_entries_only,
                  build_full_table, load_gdt, reload_segments, init_idt, mask_legacy_pic,
                  build_tss_desc, load_tss
    <2>3. UNCHANGED IDT \/ DOMAIN IDT' = Vectors
      BY <1>1, ZenonT(60) DEF CoreStep, early_init, gather_bootinfo, init_tss, build_gdt_entries_only,
                  build_full_table, load_gdt, reload_segments, init_idt, mask_legacy_pic,
                  build_tss_desc, load_tss
    <2>4. Vectors \subseteq 0 .. 255 BY DEF Vectors, TIMER_VEC, TLB_SHOOTDOWN_VEC
    <2>5. features' \subseteq {"EM", "TS", "MP", "NE", "OSFXSR", "OSXMMEXCPT", "WP", "PGE", "NXE"}
      BY <2>2, ZenonT(60) DEF BootTypes
    <2>6. DOMAIN IDT' \subseteq 0 .. 255 BY <2>3, <2>4, ZenonT(60) DEF BootTypes
    <2>7. loaded' \subseteq {"gdtr", "cs", "ds", "tr", "idtr"} BY <2>1, ZenonT(60) DEF BootTypes
    <2> QED BY <2>1, <2>5, <2>6, <2>7, Zenon DEF BootTypes
  <1>2. CASE KmainStep
    <2> USE DEF BootTypes
    <2>1. CASE init_mmu
      <3>1. NXE_ENABLED' \in BOOLEAN BY <2>1, ZenonT(60) DEF init_mmu, init_features
      <3> QED BY <2>1, <3>1, ZenonT(60) DEF init_mmu, init_features
    <2>2. CASE interrupts_init BY <2>2 DEF interrupts_init
    <2>3. CASE vm_init
      <3>1. /\ UNCHANGED <<machine, tables, hal, apic>> /\ pc' \in Steps \cup {"panic"}
            /\ UNCHANGED cpu \/ init_features(TRUE)
        BY <2>3, ZenonT(60) DEF vm_init, enable_nx
      <3>2. NXE_ENABLED' \in BOOLEAN BY <3>1, ZenonT(60) DEF init_features
      <3> QED BY <3>1, <3>2, ZenonT(60) DEF init_features
    <2>4. CASE init_time_source
      <3>1. TSC_HZ' \in 0 .. U64_MAX
        BY <2>4, FrequencyFits, BootAssumption, SMTT(60) DEF init_time_source
      <3> QED BY <2>4, <3>1, Zenon DEF init_time_source
    <2>5. CASE apic_init
      <3>1. machine.apic_base \in Nat BY BootAssumption, SMTT(60) DEF Machine
      <3>2. LAPIC_BASE' \in Nat BY <2>5, <3>1, SMTT(60) DEF apic_init
      <3>3. APIC_MODE' \in {"xapic", "x2apic"} /\ pc' = "register_timer"
            /\ UNCHANGED <<machine, tables, cpu, hal>>
        BY <2>5, SMTT(60) DEF apic_init
      <3> QED BY <3>2, <3>3, Zenon
    <2>6. CASE register_timer
      <3>1. TIMER' \in BOOLEAN BY <2>6, SMTT(60) DEF register_timer, has_invariant_tsc
      <3> QED BY <2>6, <3>1, SMTT(60) DEF register_timer
    <2>7. CASE time_init \/ arm_first \/ enable_interrupts
      <3>1. UNCHANGED <<machine, tables, cpu, hal, apic>> /\ pc' \in Steps
        BY <2>7, SMTT(60) DEF time_init, arm_first, enable_interrupts, ArmOneShot
      <3> QED BY <3>1, SMTT(60)
    <2> QED BY <1>2, <2>1, <2>2, <2>3, <2>4, <2>5, <2>6, <2>7, Zenon DEF KmainStep
  <1>3. CASE TickStep
    <2>1. UNCHANGED <<machine, pc, tables, cpu, hal, apic>>
      BY <1>3, Zenon DEF TickStep, irq_dispatch, on_timer_tick, arm_one_shot, eoi, iretq, InHandler
    <2> QED BY <2>1 DEF BootTypes
  <1>4. CASE Elapse \/ Fire \/ TimerEnter \/ BecomeFaulty \/ Raise
    <2>1. UNCHANGED <<machine, pc, tables, cpu, hal, apic>>
      BY <1>4, Zenon DEF Elapse, Fire, TimerEnter, BecomeFaulty, Raise
    <2> QED BY <2>1 DEF BootTypes
  <1>5. CASE exception_dispatch
    <2>1. UNCHANGED <<machine, tables, cpu, hal, apic>> /\ (pc' = pc \/ pc' = "panic")
      BY <1>5, Zenon DEF exception_dispatch
    <2> QED BY <2>1 DEF BootTypes
  <1>6. CASE UNCHANGED vars BY <1>6 DEF vars, BootTypes
  <1> QED BY <1>1, <1>2, <1>3, <1>4, <1>5, <1>6, Zenon DEF Next

\* The sum of time and period, as the code computes it, is a u64.
LEMMA DeadlineFits ==
  ASSUME BootTypes, TimerTypes PROVE Deadline \in 0 .. U64_MAX
  <1>1. ticks \in Nat BY PeriodIsNumber, SMTT(60) DEF BootTypes
  <1>2. now \in Nat /\ U64_MAX \in Nat BY BootAssumption DEF TimerTypes
  <1>3. PICK n \in Nat : n = now + ticks BY <1>1, <1>2
  <1>4. n % (U64_MAX + 1) \in 0 .. U64_MAX BY <1>2
  <1> QED BY <1>3, <1>4 DEF Deadline

\* A step keeps the types of the clock, the timer and the interrupt and fault state.
LEMMA NextTimerTypes ==
  ASSUME BootTypes, TimerTypes, [Next]_vars PROVE TimerTypes'
  <1> USE DEF Go, At, tables, cpu, hal, apic, timer, fault
  <1>1. CASE CoreStep
    <2>1. /\ UNCHANGED <<timer, exc>> /\ (UNCHANGED faulty \/ faulty' = TRUE)
          /\ UNCHANGED IF_flag \/ IF_flag' = FALSE
      BY <1>1, ZenonT(60) DEF CoreStep, early_init, gather_bootinfo, init_tss, build_gdt_entries_only,
                  build_full_table, load_gdt, reload_segments, init_idt, mask_legacy_pic,
                  build_tss_desc, load_tss
    <2> QED BY <2>1, Zenon DEF TimerTypes
  <1>2. ASSUME ArmOneShot, tick' \in {tick, "eoi"} PROVE TimerTypes'
    <2>1. deadline' \in 0 .. U64_MAX BY <1>2, DeadlineFits DEF ArmOneShot, TimerTypes
    <2>2. faulty' \in BOOLEAN /\ wrapped' \in BOOLEAN BY <1>2, Zenon DEF ArmOneShot
    <2>3. UNCHANGED <<IF_flag, tsc, now, irr, isr, exc>> BY <1>2 DEF ArmOneShot
    <2> QED BY <1>2, <2>1, <2>2, <2>3, SMTT(60) DEF TimerTypes
  <1>3. CASE KmainStep
    <2>1. CASE init_mmu \/ interrupts_init \/ vm_init \/ init_time_source
      <3>1. UNCHANGED <<IF_flag, timer, fault>>
        BY <2>1, Zenon DEF init_mmu, interrupts_init, vm_init, init_time_source
      <3> QED BY <3>1 DEF TimerTypes
    <2>2. CASE apic_init \/ register_timer
      <3>1. UNCHANGED <<IF_flag, timer, fault>> BY <2>2, SMT DEF apic_init, register_timer
      <3> QED BY <3>1 DEF TimerTypes
    <2>3. CASE time_init
      <3>1. UNCHANGED <<IF_flag, tsc, deadline, irr, isr, tick, wrapped, fault>> /\ now' \in {now, tsc}
        BY <2>3 DEF time_init
      <3> QED BY <3>1, ZenonT(60) DEF TimerTypes
    <2>4. CASE arm_first BY <1>2, <2>4 DEF arm_first
    <2>5. CASE enable_interrupts
      <3>1. UNCHANGED <<timer, fault>> /\ IF_flag' = TRUE BY <2>5 DEF enable_interrupts
      <3> QED BY <3>1, Zenon DEF TimerTypes
    <2> QED BY <1>3, <2>1, <2>2, <2>3, <2>4, <2>5, ZenonT(60) DEF KmainStep
  <1>4. CASE TickStep
    <2>1. CASE irq_dispatch
      <3>1. /\ UNCHANGED <<IF_flag, tsc, deadline, now, irr, isr, wrapped, fault>>
            /\ tick' \in {"read", "eoi"}
        BY <2>1, Zenon DEF irq_dispatch, InHandler
      <3> QED BY <3>1, Zenon DEF TimerTypes
    <2>2. CASE on_timer_tick
      <3>1. /\ UNCHANGED <<IF_flag, tsc, deadline, irr, isr, wrapped, fault>>
            /\ tick' \in {"arm", "eoi"} /\ now' \in {now, tsc}
        BY <2>2, Zenon DEF on_timer_tick, InHandler
      <3> QED BY <3>1, Zenon DEF TimerTypes
    <2>3. CASE arm_one_shot BY <1>2, <2>3, ZenonT(60) DEF arm_one_shot
    <2>4. CASE eoi
      <3>1. isr' \in BOOLEAN BY <2>4, Zenon DEF eoi
      <3>2. UNCHANGED <<IF_flag, tsc, deadline, now, irr, wrapped, fault>> /\ tick' = "iret"
        BY <2>4 DEF eoi, InHandler
      <3> QED BY <3>1, <3>2 DEF TimerTypes
    <2>5. CASE iretq
      <3>1. /\ UNCHANGED <<tsc, deadline, now, irr, isr, wrapped, fault>> /\ tick' = "none"
            /\ IF_flag' = TRUE
        BY <2>5, Zenon DEF iretq, InHandler
      <3> QED BY <3>1, Zenon DEF TimerTypes
    <2> QED BY <1>4, <2>1, <2>2, <2>3, <2>4, <2>5, Zenon DEF TickStep
  <1>5. CASE Elapse
    <2>1. (tsc + 1) % (U64_MAX + 1) \in 0 .. U64_MAX BY BootAssumption, SMTT(60) DEF TimerTypes
    <2>2. /\ tsc' = (tsc + 1) % (U64_MAX + 1)
          /\ UNCHANGED <<IF_flag, deadline, now, irr, isr, tick, wrapped, fault>>
      BY <1>5, Zenon DEF Elapse
    <2> QED BY <2>1, <2>2, Zenon DEF TimerTypes
  <1>6. CASE Fire
    <2>1. irr' \in BOOLEAN BY <1>6, Zenon DEF Fire
    <2>2. deadline' \in 0 .. U64_MAX BY <1>6, BootAssumption, SMTT(60) DEF Fire
    <2>3. UNCHANGED <<IF_flag, tsc, now, isr, tick, wrapped, fault>> BY <1>6 DEF Fire
    <2> QED BY <2>1, <2>2, <2>3 DEF TimerTypes
  <1>7. CASE TimerEnter \/ BecomeFaulty \/ Raise \/ exception_dispatch
    <2>1. /\ UNCHANGED <<tsc, deadline, now, wrapped>> /\ tick' \in {tick, "dispatch"}
          /\ UNCHANGED IF_flag \/ IF_flag' = FALSE
          /\ UNCHANGED <<irr, isr>> \/ (irr' = FALSE /\ isr' = TRUE)
          /\ UNCHANGED faulty \/ faulty' = TRUE
          /\ UNCHANGED exc \/ exc' = TRUE \/ exc' = FALSE
      BY <1>7, ZenonT(60) DEF TimerEnter, BecomeFaulty, Raise, exception_dispatch
    <2> QED BY <2>1, Zenon DEF TimerTypes
  <1>8. CASE UNCHANGED vars BY <1>8 DEF vars, TimerTypes
  <1> QED BY <1>1, <1>3, <1>4, <1>5, <1>6, <1>7, <1>8, Zenon DEF Next

\* The variables keep their types on every machine; deadlines stay u64s although the code
\* adds a time and a period.
THEOREM BootTypeOK == Spec => []TypeOK
  <1>1. Init => BootTypes /\ TimerTypes
    <2> SUFFICES ASSUME Init PROVE BootTypes /\ TimerTypes OBVIOUS
    <2>1. NXE_ENABLED \in BOOLEAN /\ HANDLER_SET \in BOOLEAN /\ TIMER \in BOOLEAN
      BY Zenon DEF Init
    <2>2. /\ IF_flag \in BOOLEAN /\ irr \in BOOLEAN /\ isr \in BOOLEAN /\ wrapped \in BOOLEAN
          /\ faulty \in BOOLEAN /\ exc \in BOOLEAN
      BY Zenon DEF Init
    <2>3. U64_MAX \in Nat BY BootAssumption
    <2>4. IDT = <<>> BY DEF Init
    <2>5. DOMAIN IDT \subseteq 0 .. 255 BY <2>4
    <2>6. loaded = {} /\ features \subseteq {"EM", "TS", "NXE"} BY Zenon DEF Init
    <2>7. machine \in Machines /\ pc \in Steps /\ APIC_MODE = "none" BY Zenon DEF Init
    <2>8. TSC_HZ = 0 /\ LAPIC_BASE = 0 /\ tsc = 0 /\ deadline = 0 /\ now = 0 /\ tick = "none"
      BY Zenon DEF Init
    <2>9. BootTypes BY <2>1, <2>3, <2>5, <2>6, <2>7, <2>8, SMTT(60) DEF BootTypes
    <2>10. TimerTypes BY <2>2, <2>3, <2>8 DEF TimerTypes
    <2> QED BY <2>9, <2>10
  <1>2. BootTypes /\ TimerTypes /\ [Next]_vars => (BootTypes /\ TimerTypes)'
    BY NextBootTypes, NextTimerTypes
  <1>3. BootTypes /\ TimerTypes => TypeOK
    <2> SUFFICES ASSUME BootTypes, TimerTypes PROVE TypeOK OBVIOUS
    <2>1. {IF_flag, NXE_ENABLED, HANDLER_SET, TIMER, irr, isr, wrapped, faulty, exc} \subseteq BOOLEAN
      <3>1. NXE_ENABLED \in BOOLEAN /\ HANDLER_SET \in BOOLEAN /\ TIMER \in BOOLEAN
        BY Zenon DEF BootTypes
      <3>2. /\ IF_flag \in BOOLEAN /\ irr \in BOOLEAN /\ isr \in BOOLEAN /\ wrapped \in BOOLEAN
            /\ faulty \in BOOLEAN /\ exc \in BOOLEAN
        BY Zenon DEF TimerTypes
      <3> QED BY <3>1, <3>2, ZenonT(30)
    <2>2. {tsc, deadline, now} \subseteq 0 .. U64_MAX BY Zenon DEF TimerTypes
    <2> QED BY <2>1, <2>2, Zenon DEF BootTypes, TimerTypes, TypeOK
  <1> QED BY <1>1, <1>2, <1>3, PTL DEF Spec
=============================================================================
