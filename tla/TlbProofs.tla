------------------------------ MODULE TlbProofs -----------------------------
(***************************************************************************)
(* Shootdown reaches every CPU, for any number of CPUs, address spaces,    *)
(* pages and entries.  What ShootdownReaches needs in addition is that a   *)
(* shootdown only runs once the local APICs can deliver its interrupt.     *)
(***************************************************************************)
EXTENDS Tlb, TLAPS

SendsWithApic == \A c \in Cpus : op[c].kind = "send" => boot = "up"
PagesWithApic == \A c \in Cpus : op[c].kind = "page" => boot = "up"

IInv == TypeOK /\ ShootdownReaches /\ SendsWithApic /\ PagesWithApic

\* At the start nothing is cached and no operation runs.
LEMMA InitIInv == Init => IInv
<1> SUFFICES ASSUME Init PROVE IInv
  OBVIOUS
<1> USE TlbAssumption
<1>1. TypeOK
  BY DEF Init, TypeOK, Idle, Writes
<1>2. ShootdownReaches
  BY DEF Init, ShootdownReaches, Stale
<1>3. SendsWithApic /\ PagesWithApic
  BY DEF Init, SendsWithApic, PagesWithApic, Idle
<1> QED
  BY <1>1, <1>2, <1>3 DEF IInv

\* The boot steps: vm::init at most empties the cache of the boot CPU, apic::init changes
\* no cache and no entry.
LEMMA BootIInv == IInv /\ (VmInit \/ ApicInit) => IInv'
<1> SUFFICES ASSUME IInv, VmInit \/ ApicInit PROVE IInv'
  OBVIOUS
<1> USE TlbAssumption DEF IInv
<1>1. CASE VmInit
  <2>1. SendsWithApic' /\ PagesWithApic'
    BY <1>1 DEF VmInit, SendsWithApic, PagesWithApic
  <2>2. CASE flush_tlb_all_global(Bsp)
    <3>1. TypeOK'
      BY <1>1, <2>2, Zenon DEF VmInit, TypeOK, flush_tlb_all_global
    <3>2. ShootdownReaches'
      BY <1>1, <2>2 DEF VmInit, TypeOK, flush_tlb_all_global, ShootdownReaches, Stale,
                        Excused, Leaf, Home
    <3> QED
      BY <2>1, <3>1, <3>2
  <2>3. CASE UNCHANGED <<tlb, dirty>>
    <3>1. TypeOK'
      BY <1>1, <2>3, Zenon DEF VmInit, TypeOK
    <3>2. ShootdownReaches'
      BY <1>1, <2>3 DEF VmInit, ShootdownReaches, Stale, Excused, Leaf, Home
    <3> QED
      BY <2>1, <3>1, <3>2
  <2> QED
    BY <1>1, <2>2, <2>3 DEF VmInit
<1>2. CASE ApicInit
  <2>1. TypeOK'
    BY <1>2 DEF ApicInit, TypeOK
  <2>2. ShootdownReaches'
    BY <1>2 DEF ApicInit, ShootdownReaches, Stale, Excused, Leaf, Home
  <2>3. SendsWithApic' /\ PagesWithApic'
    BY <1>2 DEF ApicInit, SendsWithApic, PagesWithApic
  <2> QED
    BY <2>1, <2>2, <2>3
<1> QED
  BY <1>1, <1>2

\* A write makes the page stale everywhere; the writer is about to invalidate it and
\* for every other CPU the page becomes dirty.
LEMMA WriteIInv ==
  ASSUME IInv, NEW c \in Cpus, NEW kind \in Writes, NEW s \in Spaces, NEW v \in Pages,
         NEW e \in Entry \cup {None}, Write(c, kind, s, v, e)
  PROVE  IInv'
<1> USE TlbAssumption DEF IInv
<1>1. Home(s, v) \in Spaces
  BY DEF Home
<1>2. TypeOK'
  BY <1>1 DEF Write, TypeOK, Writes
<1>3. ASSUME NEW d \in Cpus, NEW w \in Pages, w # v, Stale(d, w)'
      PROVE  Stale(d, w)
  BY <1>1, <1>3 DEF Write, Stale, Leaf, Home, TypeOK
<1>4. ASSUME NEW d \in Cpus, NEW w \in Pages, Excused(d, w)
      PROVE  Excused(d, w)'
  BY <1>4 DEF Write, CanStart, Excused, Writes, TypeOK
<1>5. \A d \in Cpus : Excused(d, v)'
  BY DEF Write, Excused, TypeOK
<1>6. tlb' = tlb
  BY DEF Write
<1>7. ShootdownReaches'
  BY <1>3, <1>4, <1>5, <1>6 DEF ShootdownReaches
<1>8. SendsWithApic' /\ PagesWithApic'
  BY DEF Write, SendsWithApic, PagesWithApic, TypeOK, Writes
<1> QED
  BY <1>2, <1>7, <1>8

\* What follows a write or a shootdown request: invlpg drops the one entry it excused,
\* sending requests the interrupt on every CPU whose dirty pages it clears.
LEMMA ContinueIInv == ASSUME IInv, NEW c \in Cpus, Continue(c) PROVE IInv'
<1> USE TlbAssumption DEF IInv
<1>1. CASE FlushPage(c)
  <2>1. TypeOK'
    BY <1>1, Zenon DEF FlushPage, flush_tlb_page, TypeOK, Idle, Sending, Writes
  <2>2. ASSUME NEW d \in Cpus, NEW w \in Pages, Stale(d, w)'
        PROVE  Stale(d, w) /\ tlb'[d][w] = tlb[d][w] /\ (d # c \/ w # op[c].v)
    BY <1>1, <2>2 DEF FlushPage, flush_tlb_page, Stale, Leaf, Home, TypeOK
  <2>3. ASSUME NEW d \in Cpus, NEW w \in Pages, Excused(d, w), d # c \/ w # op[c].v
        PROVE  Excused(d, w)'
    BY <1>1, <2>3 DEF FlushPage, flush_tlb_page, Excused, TypeOK
  <2>4. ShootdownReaches'
    BY <2>2, <2>3 DEF ShootdownReaches
  <2>5. SendsWithApic' /\ PagesWithApic'
    BY <1>1 DEF FlushPage, SendsWithApic, PagesWithApic, TypeOK, Idle, Sending
  <2> QED
    BY <2>1, <2>4, <2>5
<1>2. CASE SendIpi(c)
  <2>1. TypeOK'
    BY <1>2 DEF SendIpi, TypeOK, Idle, Writes
  <2>2. \A d \in Cpus \ {c} : irr'[d]
    BY <1>2, Zenon DEF SendIpi, SendsWithApic, TypeOK
  <2>3. ASSUME NEW w \in Pages, Excused(c, w)
        PROVE  Excused(c, w)'
    BY <1>2, <2>3 DEF SendIpi, Excused, TypeOK, Writes
  <2>4. ASSUME NEW d \in Cpus, NEW w \in Pages
        PROVE  (Stale(d, w)' <=> Stale(d, w)) /\ tlb' = tlb
    BY <1>2 DEF SendIpi, Stale, Leaf, Home
  <2>5. ShootdownReaches'
    BY <2>2, <2>3, <2>4 DEF ShootdownReaches, Excused
  <2>6. SendsWithApic' /\ PagesWithApic'
    BY <1>2 DEF SendIpi, SendsWithApic, PagesWithApic, TypeOK, Idle
  <2> QED
    BY <2>1, <2>5, <2>6
<1>3. CASE RecordCurrent(c)
  <2>1. TypeOK'
    BY <1>3, Zenon DEF RecordCurrent, TypeOK, Idle, Writes
  <2>2. ShootdownReaches'
    BY <1>3 DEF RecordCurrent, ShootdownReaches, Stale, Excused, Leaf, Home, TypeOK, Idle, Writes
  <2>3. SendsWithApic' /\ PagesWithApic'
    BY <1>3 DEF RecordCurrent, SendsWithApic, PagesWithApic, TypeOK, Idle
  <2> QED
    BY <2>1, <2>2, <2>3
<1> QED
  BY <1>1, <1>2, <1>3 DEF Continue

\* A load of CR3 by CPU c leaves it only entries with PTE_G, and the other CPUs what
\* they had.
LEMMA FlushAll ==
  ASSUME TypeOK, NEW c \in Cpus, flush_tlb_all(c)
  PROVE  /\ tlb' \in [Cpus -> [Pages -> Entry \cup {None}]]
         /\ dirty' \in [Cpus -> SUBSET Pages]
         /\ \A v \in Pages : tlb'[c][v] # None => tlb'[c][v] \in Global
         /\ \A d \in Cpus \ {c} : tlb'[d] = tlb[d] /\ dirty'[d] = dirty[d]
BY DEF TypeOK, flush_tlb_all, GlobalsOnly

\* The operations that flush everything: nothing stale without PTE_G is left.
LEMMA FlushingIInv ==
  ASSUME IInv, NEW c \in Cpus, NEW s \in Spaces,
         shootdown_tlb_all(c) \/ activate(c, s) \/ handle_tlb_shootdown(c)
  PROVE  IInv'
<1> USE TlbAssumption DEF IInv
<1>1. flush_tlb_all(c)
  BY DEF shootdown_tlb_all, activate, handle_tlb_shootdown
<1>2. /\ tlb' \in [Cpus -> [Pages -> Entry \cup {None}]]
      /\ dirty' \in [Cpus -> SUBSET Pages]
      /\ \A v \in Pages : tlb'[c][v] # None => tlb'[c][v] \in Global
      /\ \A d \in Cpus \ {c} : tlb'[d] = tlb[d] /\ dirty'[d] = dirty[d]
  BY <1>1, FlushAll
<1>3. TypeOK'
  <2>1. CASE shootdown_tlb_all(c)
    BY <1>2, <2>1 DEF shootdown_tlb_all, TypeOK, Sending, Writes
  <2>2. CASE activate(c, s)
    BY <1>2, <2>2 DEF activate, TypeOK, Writes
  <2>3. CASE handle_tlb_shootdown(c)
    BY <1>2, <2>3 DEF handle_tlb_shootdown, TypeOK
  <2> QED
    BY <2>1, <2>2, <2>3
<1>4. ASSUME NEW d \in Cpus \ {c}, NEW v \in Pages
      PROVE  (Stale(d, v)' => Stale(d, v)) /\ (Excused(d, v) => Excused(d, v)')
  BY <1>2 DEF shootdown_tlb_all, activate, handle_tlb_shootdown, Stale, Excused, Leaf,
              Home, TypeOK
<1>5. ASSUME NEW v \in Pages, Stale(c, v)' PROVE tlb'[c][v] \in Global
  BY <1>2, <1>5 DEF Stale
<1>6. ShootdownReaches'
  BY <1>2, <1>4, <1>5 DEF ShootdownReaches
<1>7. SendsWithApic' /\ PagesWithApic'
  BY DEF shootdown_tlb_all, activate, handle_tlb_shootdown, SendsWithApic, PagesWithApic,
         TypeOK, Sending
<1> QED
  BY <1>3, <1>6, <1>7

\* Taking the interrupt turns a request into a handler that is about to flush; the EOI
\* comes after the flush.
LEMMA InterruptIInv == ASSUME IInv, NEW c \in Cpus, IpiEnter(c) \/ eoi(c) PROVE IInv'
<1> USE TlbAssumption DEF IInv
<1>1. CASE IpiEnter(c)
  <2>1. TypeOK'
    BY <1>1 DEF IpiEnter, TypeOK
  <2>2. \A d \in Cpus, w \in Pages : Excused(d, w) => Excused(d, w)'
    BY <1>1 DEF IpiEnter, Excused, TypeOK
  <2>3. \A d \in Cpus, w \in Pages : Stale(d, w)' => Stale(d, w)
    BY <1>1 DEF IpiEnter, Stale, Leaf, Home
  <2>4. ShootdownReaches'
    BY <1>1, <2>2, <2>3 DEF IpiEnter, ShootdownReaches
  <2> QED
    BY <1>1, <2>1, <2>4 DEF IpiEnter, SendsWithApic, PagesWithApic
<1>2. CASE eoi(c)
  <2>1. TypeOK'
    BY <1>2 DEF eoi, TypeOK
  <2>2. \A d \in Cpus, w \in Pages : Excused(d, w) => Excused(d, w)'
    BY <1>2 DEF eoi, Excused, TypeOK
  <2>3. \A d \in Cpus, w \in Pages : Stale(d, w)' => Stale(d, w)
    BY <1>2 DEF eoi, Stale, Leaf, Home
  <2>4. ShootdownReaches'
    BY <1>2, <2>2, <2>3 DEF eoi, ShootdownReaches
  <2> QED
    BY <1>2, <2>1, <2>4 DEF eoi, SendsWithApic, PagesWithApic
<1> QED
  BY <1>1, <1>2

\* The other steps change no entry and drop no excuse that is still needed.
LEMMA OtherIInv ==
  ASSUME IInv, NEW c \in Cpus, NEW v \in Pages, Fill(c, v) \/ shootdown_tlb_page(c, v)
  PROVE  IInv'
<1> USE TlbAssumption DEF IInv
<1>1. CASE Fill(c, v)
  <2>1. Leaf(cr3[c], v) \in Entry \cup {None}
    BY DEF Leaf, Home, TypeOK
  <2>2. TypeOK'
    BY <1>1, <2>1 DEF Fill, TypeOK
  <2>3. ASSUME NEW d \in Cpus, NEW w \in Pages, Stale(d, w)'
        PROVE  Stale(d, w) /\ tlb'[d][w] = tlb[d][w]
    BY <1>1, <2>3 DEF Fill, Stale, Leaf, Home, TypeOK
  <2>4. \A d \in Cpus, w \in Pages : Excused(d, w) => Excused(d, w)'
    BY <1>1 DEF Fill, Excused
  <2>5. ShootdownReaches'
    BY <2>3, <2>4 DEF ShootdownReaches
  <2> QED
    BY <1>1, <2>2, <2>5 DEF Fill, SendsWithApic, PagesWithApic
<1>2. CASE shootdown_tlb_page(c, v)
  <2>1. TypeOK'
    BY <1>2 DEF shootdown_tlb_page, TypeOK, Writes
  <2>2. ShootdownReaches'
    BY <1>2 DEF shootdown_tlb_page, ShootdownReaches, Stale, Excused, Leaf, Home, TypeOK, Writes
  <2>3. SendsWithApic' /\ PagesWithApic'
    BY <1>2 DEF shootdown_tlb_page, SendsWithApic, PagesWithApic, TypeOK
  <2> QED
    BY <2>1, <2>2, <2>3
<1> QED
  BY <1>1, <1>2

\* Every step of the boot, of an operation, of a handler and of the hardware keeps
\* the invariant.
LEMMA NextIInv == IInv /\ [Next]_vars => IInv'
<1> SUFFICES ASSUME IInv, [Next]_vars PROVE IInv'
  OBVIOUS
<1>1. CASE VmInit \/ ApicInit
  BY <1>1, BootIInv
<1>2. ASSUME NEW c \in Cpus, Continue(c) PROVE IInv'
  BY <1>2, ContinueIInv
<1>3. ASSUME NEW c \in Cpus, Interrupt(c) \/ shootdown_tlb_all(c) PROVE IInv'
  <2>1. CASE IpiEnter(c) \/ eoi(c)
    BY <2>1, InterruptIInv
  <2>2. CASE handle_tlb_shootdown(c) \/ shootdown_tlb_all(c)
    BY <2>2, FlushingIInv, TlbAssumption
  <2> QED
    BY <1>3, <2>1, <2>2 DEF Interrupt
<1>4. ASSUME NEW c \in Cpus, NEW s \in Spaces, activate(c, s) PROVE IInv'
  BY <1>4, FlushingIInv
<1>5. ASSUME NEW c \in Cpus, NEW v \in Pages, Fill(c, v) \/ shootdown_tlb_page(c, v)
      PROVE  IInv'
  BY <1>5, OtherIInv
<1>6. ASSUME NEW c \in Cpus, NEW v \in Pages, NEW s \in Spaces,
             \/ \E e \in Entry : Write(c, "map", s, v, e)
             \/ \E e \in Entry : Write(c, "protect", s, v, e)
             \/ Write(c, "unmap", s, v, None)
      PROVE  IInv'
  BY <1>6, WriteIInv DEF Writes
<1>7. CASE UNCHANGED vars
  BY <1>7 DEF vars, IInv, TypeOK, ShootdownReaches, Stale, Excused, Leaf, Home,
              SendsWithApic, PagesWithApic
<1> QED
  BY <1>1, <1>2, <1>3, <1>4, <1>5, <1>6, <1>7 DEF Next

\* The invariant holds in every reachable state.
LEMMA Invariance == Spec => []IInv
<1> QED
  BY InitIInv, NextIInv, PTL DEF Spec

\* CURRENT_PER_CPU, APIC_MODE, the caches and the operations keep their types.
THEOREM TypeCorrect == Spec => []TypeOK
<1>1. IInv => TypeOK
  BY DEF IInv
<1> QED
  BY <1>1, Invariance, PTL

\* After shootdown_tlb_page or shootdown_tlb_all and the interrupt it sends, no CPU
\* uses an entry without PTE_G that was changed before, for any number of CPUs.
THEOREM ShootdownReachesAll == Spec => []ShootdownReaches
<1>1. IInv => ShootdownReaches
  BY DEF IInv
<1> QED
  BY <1>1, Invariance, PTL

-----------------------------------------------------------------------------
\* The local APIC identifiers under which the slots of CURRENT_PER_CPU do what they
\* are for: the boot CPU's is the 0 that cpu_id returns before apic::init, and all of
\* them are different and in range.
IdsFitSlots ==
  /\ ApicId[Bsp] = 0
  /\ \A c \in Cpus : ApicId[c] < MAX_CPUS
  /\ \A c, d \in Cpus : ApicId[c] = ApicId[d] => c = d

\* Until the APIC is up every CPU is in the kernel space and at most slot 0 is set.
BootSlots ==
  /\ boot # "up" => \A c \in Cpus : cr3[c] = KAS /\ op[c].kind = "none"
  /\ boot = "mmu" => \A i \in 0 .. (MAX_CPUS - 1) : current[i] = None
  /\ boot = "vm" => /\ current[0] = KAS
                    /\ \A i \in 1 .. (MAX_CPUS - 1) : current[i] = None

\* activate has loaded the space that it is about to record.
ActivateLoaded == \A c \in Cpus : op[c].kind = "activate" => op[c].s = cr3[c]

CInv == TypeOK /\ CurrentIsActive /\ BootSlots /\ ActivateLoaded

\* Each CPU has a slot of its own once the APIC is up; before that all use slot 0.
LEMMA Slots ==
  ASSUME TypeOK, IdsFitSlots
  PROVE  /\ \A c \in Cpus : cpu_index(c) \in 0 .. (MAX_CPUS - 1)
         /\ boot # "up" => \A c \in Cpus : cpu_index(c) = 0
         /\ boot = "up" => \A c \in Cpus : cpu_index(c) = ApicId[c]
         /\ cpu_index(Bsp) = 0
BY TlbAssumption DEF TypeOK, IdsFitSlots, cpu_index, cpu_id

\* At the start nothing is recorded.
LEMMA InitCInv == Init => CInv
<1> SUFFICES ASSUME Init PROVE CInv
  OBVIOUS
<1>1. TypeOK
  BY InitIInv DEF IInv
<1> QED
  BY <1>1, TlbAssumption
     DEF Init, CInv, CurrentIsActive, BootSlots, ActivateLoaded, Idle

\* Steps that touch neither CR3 nor the slots nor the operations.
LEMMA KeepsSlots ==
  ASSUME CInv, TypeOK', UNCHANGED <<cr3, current, apic_mode, boot, op>>
  PROVE  CInv'
<1>1. CurrentIsActive'
  BY DEF CInv, CurrentIsActive, current_slot, cpu_index, cpu_id
<1>2. BootSlots' /\ ActivateLoaded'
  BY DEF CInv, BootSlots, ActivateLoaded
<1> QED
  BY <1>1, <1>2 DEF CInv

\* Steps of operations other than activate, which touch neither CR3 nor the slots.
LEMMA OtherOperation ==
  ASSUME CInv, TypeOK', UNCHANGED <<cr3, current, apic_mode, boot>>, boot = "up",
         NEW c \in Cpus, op[c].kind # "activate",
         NEW o, o.kind # "activate", op' = [op EXCEPT ![c] = o]
  PROVE  CInv'
<1>1. op'[c] = o /\ \A d \in Cpus \ {c} : op'[d] = op[d]
  BY DEF CInv, TypeOK
<1>2. \A d \in Cpus : op'[d].kind = "activate" <=> op[d].kind = "activate"
  BY <1>1
<1>3. \A d \in Cpus : current_slot(d)' = current_slot(d)
  BY DEF current_slot, cpu_index, cpu_id
<1>4. CurrentIsActive'
  BY <1>2, <1>3 DEF CInv, CurrentIsActive
<1>5. ActivateLoaded'
  BY <1>1 DEF CInv, ActivateLoaded
<1>6. BootSlots'
  BY DEF BootSlots
<1> QED
  BY <1>4, <1>5, <1>6 DEF CInv

\* init_kernel records slot 0, which is the boot CPU's; afterwards each CPU has its own.
LEMMA BootCInv == ASSUME CInv, TypeOK', IdsFitSlots, VmInit \/ ApicInit PROVE CInv'
<1> USE TlbAssumption DEF CInv
<1>1. CASE VmInit
  <2>1. boot' = "vm" /\ UNCHANGED <<cr3, apic_mode, op>> /\ boot = "mmu"
    BY <1>1 DEF VmInit
  <2>2. current'[0] = KAS /\ \A i \in 1 .. (MAX_CPUS - 1) : current'[i] = None
    BY <1>1, Slots DEF VmInit, BootSlots, TypeOK
  <2>3. \A c \in Cpus : cpu_index(c) = 0 /\ cpu_index(c)' = 0
    BY <2>1, Slots DEF TypeOK, cpu_index, cpu_id
  <2>4. CurrentIsActive'
    BY <2>1, <2>2, <2>3 DEF CurrentIsActive, current_slot, BootSlots
  <2> QED
    BY <2>1, <2>2, <2>4 DEF BootSlots, ActivateLoaded
<1>2. CASE ApicInit
  <2>1. boot' = "up" /\ UNCHANGED <<cr3, current, op>> /\ boot = "vm"
    BY <1>2 DEF ApicInit
  <2>2. /\ \A c \in Cpus : cpu_index(c)' \in 0 .. (MAX_CPUS - 1)
        /\ cpu_index(Bsp)' = 0
    BY <1>2 DEF ApicInit, cpu_index, cpu_id, IdsFitSlots
  <2>3. ASSUME NEW c \in Cpus PROVE current_slot(c)' \in {KAS, None} /\ current_slot(Bsp)' = KAS
    BY <2>1, <2>2 DEF current_slot, BootSlots
  <2>4. CurrentIsActive'
    BY <2>1, <2>3 DEF CurrentIsActive, BootSlots
  <2> QED
    BY <2>1, <2>4 DEF BootSlots, ActivateLoaded
<1> QED
  BY <1>1, <1>2

\* activate loads CR3 and then records it in the CPU's own slot; the others' slots
\* are different ones.
LEMMA ActivateCInv ==
  ASSUME CInv, TypeOK', IdsFitSlots, NEW c \in Cpus, NEW s \in Spaces,
         activate(c, s) \/ RecordCurrent(c)
  PROVE  CInv'
<1> USE TlbAssumption DEF CInv
<1>1. CASE activate(c, s)
  <2>1. /\ cr3' = [cr3 EXCEPT ![c] = s]
        /\ op' = [op EXCEPT ![c] = [kind |-> "activate", s |-> s, v |-> None]]
        /\ UNCHANGED <<current, apic_mode, boot>> /\ boot = "up"
    BY <1>1 DEF activate
  <2>2. \A d \in Cpus : current_slot(d)' = current_slot(d)
    BY <2>1 DEF current_slot, cpu_index, cpu_id
  <2>3. CurrentIsActive'
    BY <2>1, <2>2 DEF CurrentIsActive, TypeOK
  <2>4. ActivateLoaded'
    BY <2>1, ZenonT(60) DEF ActivateLoaded, TypeOK
  <2> QED
    BY <2>1, <2>3, <2>4 DEF BootSlots
<1>2. CASE RecordCurrent(c)
  <2>1. /\ current' = [current EXCEPT ![cpu_index(c)] = op[c].s]
        /\ op' = [op EXCEPT ![c] = Idle] /\ op[c].kind = "activate"
        /\ UNCHANGED <<cr3, apic_mode, boot>> /\ boot = "up"
    BY <1>2 DEF RecordCurrent, BootSlots, TypeOK
  <2>2. \A d \in Cpus : cpu_index(d)' = cpu_index(d)
    BY <2>1, SMTT(60) DEF cpu_index, cpu_id
  <2>3. current_slot(c)' = cr3[c]
    BY <2>1, <2>2, Slots DEF current_slot, TypeOK, ActivateLoaded
  <2>4. \A d \in Cpus \ {c} : current_slot(d)' = current_slot(d)
    BY <2>1, <2>2, Slots, SMTT(60) DEF current_slot, TypeOK, IdsFitSlots
  <2>5. CurrentIsActive'
    <3>1. \A d \in Cpus \ {c} : op'[d] = op[d]
      BY <2>1 DEF TypeOK
    <3> QED
      BY <2>1, <2>3, <2>4, <3>1 DEF CurrentIsActive
  <2>6. ActivateLoaded'
    BY <2>1 DEF ActivateLoaded, TypeOK, Idle
  <2> QED
    BY <2>1, <2>5, <2>6 DEF BootSlots
<1> QED
  BY <1>1, <1>2

\* Every step keeps the slots right.
LEMMA NextCInv == ASSUME CInv, TypeOK', IdsFitSlots, [Next]_vars PROVE CInv'
<1> USE TlbAssumption
<1>1. CASE VmInit \/ ApicInit
  BY <1>1, BootCInv
<1>2. ASSUME NEW c \in Cpus, FlushPage(c) \/ SendIpi(c) PROVE CInv'
  <2>1. op[c].kind # "activate" /\ op[c].kind # "none"
    BY <1>2, SMTT(60) DEF FlushPage, SendIpi, Writes
  <2>2. boot = "up" /\ UNCHANGED <<cr3, current, apic_mode, boot>>
    BY <1>2, <2>1 DEF FlushPage, SendIpi, CInv, BootSlots
  <2>3. Idle.kind # "activate" /\ Sending.kind # "activate"
    BY DEF Idle, Sending
  <2>4. op' = [op EXCEPT ![c] = Idle] \/ op' = [op EXCEPT ![c] = Sending]
    BY <1>2 DEF FlushPage, SendIpi
  <2> QED
    BY <2>1, <2>2, <2>3, <2>4, OtherOperation, SMTT(60)
<1>3. ASSUME NEW c \in Cpus, RecordCurrent(c) PROVE CInv'
  BY <1>3, ActivateCInv
<1>4. ASSUME NEW c \in Cpus, Interrupt(c) PROVE CInv'
  <2>1. UNCHANGED <<cr3, current, apic_mode, boot, op>>
    BY <1>4 DEF Interrupt, IpiEnter, handle_tlb_shootdown, eoi
  <2> QED
    BY <2>1, KeepsSlots
<1>5. ASSUME NEW c \in Cpus, shootdown_tlb_all(c) PROVE CInv'
  <2>1. /\ boot = "up" /\ op[c].kind = "none"
        /\ op' = [op EXCEPT ![c] = Sending] /\ UNCHANGED <<cr3, current, apic_mode, boot>>
    BY <1>5 DEF shootdown_tlb_all
  <2>2. Sending.kind # "activate"
    BY DEF Sending
  <2> QED
    BY <2>1, <2>2, OtherOperation, Zenon
<1>6. ASSUME NEW c \in Cpus, NEW s \in Spaces, activate(c, s) PROVE CInv'
  BY <1>6, ActivateCInv
<1>7. ASSUME NEW c \in Cpus, NEW v \in Pages, Fill(c, v) \/ shootdown_tlb_page(c, v)
      PROVE  CInv'
  <2>1. CASE Fill(c, v)
    <3>1. UNCHANGED <<cr3, current, apic_mode, boot, op>>
      BY <2>1 DEF Fill
    <3> QED
      BY <3>1, KeepsSlots
  <2>2. CASE shootdown_tlb_page(c, v)
    <3> DEFINE o == [kind |-> "page", s |-> None, v |-> v]
    <3>1. /\ boot = "up" /\ op[c].kind = "none"
          /\ op' = [op EXCEPT ![c] = o] /\ UNCHANGED <<cr3, current, apic_mode, boot>>
      BY <2>2 DEF shootdown_tlb_page
    <3>2. o.kind # "activate"
      OBVIOUS
    <3> HIDE DEF o
    <3> QED
      BY <3>1, <3>2, OtherOperation, Zenon
  <2> QED
    BY <1>7, <2>1, <2>2
<1>8. ASSUME NEW c \in Cpus, NEW v \in Pages, NEW s \in Spaces, NEW kind \in Writes,
             NEW e \in Entry \cup {None}, Write(c, kind, s, v, e)
      PROVE  CInv'
  <2> DEFINE o == [kind |-> kind, s |-> s, v |-> v]
  <2>1. /\ boot = "up" /\ op[c].kind = "none"
        /\ op' = [op EXCEPT ![c] = o] /\ UNCHANGED <<cr3, current, apic_mode, boot>>
    BY <1>8 DEF Write, CanStart
  <2>2. o.kind # "activate"
    BY DEF Writes
  <2> HIDE DEF o
  <2> QED
    BY <2>1, <2>2, OtherOperation, Zenon
<1>9. CASE UNCHANGED vars
  <2>1. UNCHANGED <<cr3, current, apic_mode, boot, op>>
    BY <1>9 DEF vars
  <2> QED
    BY <2>1, KeepsSlots
<1>10. {"map", "protect", "unmap"} \subseteq Writes
  BY DEF Writes
<1> QED
  BY <1>1, <1>2, <1>3, <1>4, <1>5, <1>6, <1>7, <1>8, <1>9, <1>10 DEF Next, Continue

\* current() returns the active address space of the CPU that calls it, for any
\* number of CPUs, provided that their APIC identifiers fit the slots.
THEOREM CurrentIsTheActiveSpace == ASSUME IdsFitSlots PROVE Spec => []CurrentIsActive
<1>1. CInv /\ TypeOK' /\ [Next]_vars => CInv'
  BY NextCInv, IdsFitSlots
<1>2. CInv => CurrentIsActive
  BY DEF CInv
<1> QED
  BY <1>1, <1>2, InitCInv, TypeCorrect, PTL DEF Spec
=============================================================================
