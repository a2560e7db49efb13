-------------------------------- MODULE Tlb ---------------------------------
(***************************************************************************)
(* The translation caches of several CPUs, and what mmu.rs does to keep    *)
(* them right: invlpg after every change of an entry, CR3 loads, and the   *)
(* shootdown interrupt (mmu.rs, apic.rs, interrupts/mod.rs).  The page     *)
(* tables are the function from pages to entries that X86Mmu implements;   *)
(* a kernel page has one entry, shared by all spaces.  The TLB itself is   *)
(* hardware: it may load an entry of the active space at any moment, and a *)
(* load of CR3 keeps the global entries, because init_features sets        *)
(* CR4.PGE.                                                                *)
(***************************************************************************)
EXTENDS Integers

CONSTANTS
  Cpus, Bsp, ApicId,   \* the boot CPU; the local APIC identifiers
  MAX_CPUS,
  Spaces, KAS,         \* address spaces; the kernel's
  Pages, KernelPages,
  Entry, Global,       \* leaf entries; those with PTE_G
  None                 \* not present, not cached, not set

VARIABLES
  pt,                  \* entry of every page of every space
  cr3, tlb,            \* per CPU: the active space, the cached entries
  current,             \* CURRENT_PER_CPU
  apic_mode,           \* APIC_MODE: "none", or "apic" for xAPIC and x2APIC
  boot,                \* progress of kmain: "mmu", "vm", "up"
  op,                  \* per CPU: the operation it is in the middle of
  irr, isr, handler,   \* per CPU: shootdown vector requested, in service, and
                       \*   where its handler stands
  dirty                \* history, per CPU: pages that others changed since its
                       \*   last flush, and that no shootdown was sent for

vars == <<pt, cr3, tlb, current, apic_mode, boot, op, irr, isr, handler, dirty>>

ASSUME TlbAssumption ==
  /\ Bsp \in Cpus /\ KAS \in Spaces
  /\ ApicId \in [Cpus -> Nat] /\ MAX_CPUS \in Nat \ {0}
  /\ KernelPages \subseteq Pages /\ Global \subseteq Entry
  /\ None \notin Entry /\ None \notin Spaces /\ None \notin Pages

\* The space whose tables hold the entry of page v of space s.
Home(s, v) == IF v \in KernelPages THEN KAS ELSE s
Leaf(s, v) == pt[Home(s, v)][v]

Idle == [kind |-> "none", s |-> None, v |-> None]
Sending == [kind |-> "send", s |-> None, v |-> None]
Writes == {"map", "unmap", "protect"}

Init ==
  /\ pt \in [Spaces -> [Pages -> Entry \cup {None}]]
  /\ \A s \in Spaces, v \in Pages : pt[s][v] \in Global => v \in KernelPages /\ s = KAS
  /\ \A s \in Spaces \ {KAS}, v \in Pages : pt[s][v] = None
  /\ cr3 = [c \in Cpus |-> KAS]
  /\ tlb = [c \in Cpus |-> [v \in Pages |-> None]]
  /\ current = [i \in 0 .. (MAX_CPUS - 1) |-> None]
  /\ apic_mode = "none"
  /\ boot = "mmu"
  /\ op = [c \in Cpus |-> Idle]
  /\ irr = [c \in Cpus |-> FALSE]
  /\ isr = [c \in Cpus |-> FALSE]
  /\ handler = [c \in Cpus |-> "none"]
  /\ dirty = [c \in Cpus |-> {}]

cpu_id(c) == IF apic_mode = "none" THEN 0 ELSE ApicId[c]
cpu_index(c) == IF cpu_id(c) < MAX_CPUS THEN cpu_id(c) ELSE 0
current_slot(c) == current[cpu_index(c)]

-----------------------------------------------------------------------------
\* What the hardware keeps of a TLB over a load of CR3.
GlobalsOnly(t) == [v \in Pages |-> IF t[v] \in Global THEN t[v] ELSE None]

\* flush_tlb_all: CR3 is loaded with its own value.
flush_tlb_all(c) == /\ tlb' = [tlb EXCEPT ![c] = GlobalsOnly(tlb[c])]
                    /\ dirty' = [dirty EXCEPT ![c] = {}]

\* flush_tlb_page: invlpg also drops a global entry.
flush_tlb_page(c, v) == /\ tlb' = [tlb EXCEPT ![c][v] = None]
                        /\ dirty' = [dirty EXCEPT ![c] = @ \ {v}]

\* flush_tlb_all_global: clearing CR4.PGE drops everything.
flush_tlb_all_global(c) == /\ tlb' = [tlb EXCEPT ![c] = [v \in Pages |-> None]]
                           /\ dirty' = [dirty EXCEPT ![c] = {}]

-----------------------------------------------------------------------------
\* vm::init: init_kernel records the kernel space as current, enable_nx flushes on a
\* CPU that has NX.  It runs before the APIC is initialised.
VmInit ==
  /\ boot = "mmu"
  /\ current' = [current EXCEPT ![cpu_index(Bsp)] = KAS]
  /\ flush_tlb_all_global(Bsp) \/ UNCHANGED <<tlb, dirty>>
  /\ boot' = "vm"
  /\ UNCHANGED <<pt, cr3, apic_mode, op, irr, isr, handler>>

\* apic::init returns without storing the mode.
ApicInit_NotStored ==
  /\ boot = "vm"
  /\ boot' = "up"
  /\ UNCHANGED <<pt, cr3, tlb, current, apic_mode, op, irr, isr, handler, dirty>>

\* init_irqs: apic::init takes the x2APIC if there is one, else the xAPIC; both send
\* and acknowledge alike.
ApicInit ==
  /\ boot = "vm"
  /\ apic_mode' = "apic"
  /\ boot' = "up"
  /\ UNCHANGED <<pt, cr3, tlb, current, op, irr, isr, handler, dirty>>

\* CPU c executes kernel code outside the shootdown handler.
Running(c) == handler[c] = "none"

\* A call on space s may start: &mut AddressSpace is exclusive.
CanStart(c, s) ==
  /\ boot = "up" /\ Running(c) /\ op[c].kind = "none"
  /\ \A d \in Cpus : op[d].kind \in Writes => op[d].s # s

\* The write of an entry by map_4k, unmap_4k or protect_4k; its invlpg follows.
\* map_4k holds PT_ALLOC until it returns.
Write(c, kind, s, v, e) ==
  /\ CanStart(c, s)
  /\ kind = "map" => \A d \in Cpus : op[d].kind # "map"
  /\ e \in Global => v \in KernelPages
  /\ Leaf(s, v) = None <=> kind = "map"
  /\ e = None <=> kind = "unmap"
  /\ pt' = [pt EXCEPT ![Home(s, v)][v] = e]
  /\ op' = [op EXCEPT ![c] = [kind |-> kind, s |-> s, v |-> v]]
  /\ dirty' = [d \in Cpus |-> IF d = c THEN dirty[d] ELSE dirty[d] \cup {v}]
  /\ UNCHANGED <<cr3, tlb, current, apic_mode, boot, irr, isr, handler>>

\* shootdown_tlb_page starts with its own invlpg.
shootdown_tlb_page(c, v) ==
  /\ boot = "up" /\ Running(c) /\ op[c].kind = "none"
  /\ op' = [op EXCEPT ![c] = [kind |-> "page", s |-> None, v |-> v]]
  /\ UNCHANGED <<pt, cr3, tlb, current, apic_mode, boot, irr, isr, handler, dirty>>

shootdown_tlb_all(c) ==
  /\ boot = "up" /\ Running(c) /\ op[c].kind = "none"
  /\ flush_tlb_all(c)
  /\ op' = [op EXCEPT ![c] = Sending]
  /\ UNCHANGED <<pt, cr3, current, apic_mode, boot, irr, isr, handler>>

\* The invlpg of an operation; a shootdown goes on to send the interrupt.
FlushPage(c) ==
  /\ op[c].kind \in Writes \cup {"page"} /\ Running(c)
  /\ flush_tlb_page(c, op[c].v)
  /\ op' = [op EXCEPT ![c] = IF @.kind = "page" THEN Sending ELSE Idle]
  /\ UNCHANGED <<pt, cr3, current, apic_mode, boot, irr, isr, handler>>

\* send_ipi_all_others.
SendIpi(c) ==
  /\ op[c].kind = "send" /\ Running(c)
  /\ irr' = IF apic_mode = "none" THEN irr ELSE [d \in Cpus |-> irr[d] \/ d # c]
  /\ dirty' = [d \in Cpus |-> IF d = c THEN dirty[d] ELSE {}]
  /\ op' = [op EXCEPT ![c] = Idle]
  /\ UNCHANGED <<pt, cr3, tlb, current, apic_mode, boot, isr, handler>>

\* activate loads CR3, and records the space afterwards.
activate(c, s) ==
  /\ boot = "up" /\ Running(c) /\ op[c].kind = "none"
  /\ cr3' = [cr3 EXCEPT ![c] = s]
  /\ flush_tlb_all(c)
  /\ op' = [op EXCEPT ![c] = [kind |-> "activate", s |-> s, v |-> None]]
  /\ UNCHANGED <<pt, current, apic_mode, boot, irr, isr, handler>>

\* Every CPU records in the slot of the boot CPU.
RecordCurrent_SlotZero(c) ==
  /\ op[c].kind = "activate" /\ Running(c)
  /\ current' = [current EXCEPT ![0] = op[c].s]
  /\ op' = [op EXCEPT ![c] = Idle]
  /\ UNCHANGED <<pt, cr3, tlb, apic_mode, boot, irr, isr, handler, dirty>>

RecordCurrent(c) ==
  /\ op[c].kind = "activate" /\ Running(c)
  /\ current' = [current EXCEPT ![cpu_index(c)] = op[c].s]
  /\ op' = [op EXCEPT ![c] = Idle]
  /\ UNCHANGED <<pt, cr3, tlb, apic_mode, boot, irr, isr, handler, dirty>>

-----------------------------------------------------------------------------
\* The shootdown vector is delivered: between any two instructions, since kmain
\* leaves interrupts enabled, but not while it is in service.
IpiEnter(c) ==
  /\ boot = "up" /\ irr[c] /\ ~isr[c] /\ Running(c)
  /\ irr' = [irr EXCEPT ![c] = FALSE]
  /\ isr' = [isr EXCEPT ![c] = TRUE]
  /\ handler' = [handler EXCEPT ![c] = "flush"]
  /\ UNCHANGED <<pt, cr3, tlb, current, apic_mode, boot, op, dirty>>

\* The handler flushes the page its own CPU last worked on, not everything.
handle_tlb_shootdown_OwnPage(c) ==
  /\ handler[c] = "flush"
  /\ tlb' = IF op[c].v = None THEN tlb ELSE [tlb EXCEPT ![c][op[c].v] = None]
  /\ handler' = [handler EXCEPT ![c] = "eoi"]
  /\ UNCHANGED <<pt, cr3, current, apic_mode, boot, op, irr, isr, dirty>>

handle_tlb_shootdown(c) ==
  /\ handler[c] = "flush"
  /\ flush_tlb_all(c)
  /\ handler' = [handler EXCEPT ![c] = "eoi"]
  /\ UNCHANGED <<pt, cr3, current, apic_mode, boot, op, irr, isr>>

\* The early return of irq_dispatch comes before the EOI.
eoi_Skipped(c) ==
  /\ handler[c] = "eoi"
  /\ handler' = [handler EXCEPT ![c] = "none"]
  /\ UNCHANGED <<pt, cr3, tlb, current, apic_mode, boot, op, irr, isr, dirty>>

\* irq_dispatch ends with the EOI, and the stub with iretq.
eoi(c) ==
  /\ handler[c] = "eoi"
  /\ isr' = IF apic_mode = "none" THEN isr ELSE [isr EXCEPT ![c] = FALSE]
  /\ handler' = [handler EXCEPT ![c] = "none"]
  /\ UNCHANGED <<pt, cr3, tlb, current, apic_mode, boot, op, irr, dirty>>

\* Hardware: the CPU caches the entry of a page it has none for.
Fill(c, v) ==
  /\ tlb[c][v] = None /\ Leaf(cr3[c], v) # None
  /\ tlb' = [tlb EXCEPT ![c][v] = Leaf(cr3[c], v)]
  /\ UNCHANGED <<pt, cr3, current, apic_mode, boot, op, irr, isr, handler, dirty>>

-----------------------------------------------------------------------------
Continue(c) == FlushPage(c) \/ SendIpi(c) \/ RecordCurrent(c)
Interrupt(c) == IpiEnter(c) \/ handle_tlb_shootdown(c) \/ eoi(c)

Next ==
  \/ VmInit
  \/ ApicInit
  \/ \E c \in Cpus :
       \/ Continue(c)
       \/ Interrupt(c)
       \/ shootdown_tlb_all(c)
       \/ \E s \in Spaces : activate(c, s)
       \/ \E v \in Pages :
            \/ Fill(c, v)
            \/ shootdown_tlb_page(c, v)
            \/ \E s \in Spaces :
                 \/ \E e \in Entry : Write(c, "map", s, v, e)
                 \/ \E e \in Entry : Write(c, "protect", s, v, e)
                 \/ Write(c, "unmap", s, v, None)

\* CPUs keep executing what they started, and interrupts stay enabled.
Fairness == \A c \in Cpus : WF_vars(Continue(c)) /\ WF_vars(Interrupt(c))

Spec == Init /\ [][Next]_vars
FairSpec == Spec /\ Fairness

-----------------------------------------------------------------------------
\* The variables keep their types.
TypeOK ==
  /\ pt \in [Spaces -> [Pages -> Entry \cup {None}]]
  /\ cr3 \in [Cpus -> Spaces]
  /\ tlb \in [Cpus -> [Pages -> Entry \cup {None}]]
  /\ current \in [0 .. (MAX_CPUS - 1) -> Spaces \cup {None}]
  /\ apic_mode \in {"none", "apic"}
  /\ boot \in {"mmu", "vm", "up"} /\ (boot = "up" <=> apic_mode # "none")
  /\ op \in [Cpus -> [kind : Writes \cup {"none", "page", "send", "activate"},
                      s : Spaces \cup {None}, v : Pages \cup {None}]]
  /\ irr \in [Cpus -> BOOLEAN] /\ isr \in [Cpus -> BOOLEAN]
  /\ handler \in [Cpus -> {"none", "flush", "eoi"}]
  /\ dirty \in [Cpus -> SUBSET Pages]

\* CPU c has an entry for page v that is not what its tables say.
Stale(c, v) == tlb[c][v] # None /\ tlb[c][v] # Leaf(cr3[c], v)

\* A reason for that which goes away by itself, or that the kernel was never asked
\* to remove: c's own invlpg or a shootdown is under way, or none was sent since
\* another CPU changed the page.
Excused(c, v) ==
  \/ op[c].kind \in Writes /\ op[c].v = v
  \/ irr[c] \/ handler[c] = "flush"
  \/ v \in dirty[c]

\* Shootdown works for the entries without PTE_G: once one was sent for a change,
\* no CPU translates by the old entry after it took the interrupt, whatever other
\* changes, shootdowns and address space switches come in between (mmu.rs:312,
\* 630).  On one CPU: no change is ever seen late.
ShootdownReaches ==
  \A c \in Cpus, v \in Pages : Stale(c, v) /\ tlb[c][v] \notin Global => Excused(c, v)

\* mmu.rs:313, "full flush is safe for now": the same of every entry.
FullFlushIsSafe == \A c \in Cpus, v \in Pages : Stale(c, v) => Excused(c, v)

\* crates/hal/src/mmu.rs:170: current() is the active address space of the CPU that
\* asks (outside activate); a CPU other than the boot CPU that never called activate
\* has none.
CurrentIsActive ==
  \A c \in Cpus :
    /\ boot # "mmu" /\ op[c].kind # "activate"
    /\ c = Bsp \/ current_slot(c) # None
    => current_slot(c) = cr3[c]

\* A stale entry that a shootdown was sent for disappears, also when shootdowns
\* arrive faster than they are handled.
StaleGoes ==
  \A c \in Cpus, v \in Pages :
    (Stale(c, v) /\ tlb[c][v] \notin Global /\ v \notin dirty[c])
      ~> (~Stale(c, v) \/ v \in dirty[c])
=============================================================================
