-------------------------------- MODULE Trap --------------------------------
(***************************************************************************)
(* The assembly stubs (interrupts/stubs.S): what is on the stack between   *)
(* an interrupted instruction and the Rust dispatchers, which see it as an *)
(* ExceptionContext (interrupts/mod.rs), what the dispatchers tell the     *)
(* kernel's handler, and what the return restores.  A dispatcher or the    *)
(* handler may itself be interrupted by an exception.  A word is a pair    *)
(* <<what it is, whose>>, where depth 0 is the kernel's main code.         *)
(***************************************************************************)
EXTENDS Integers, Sequences, Functions

CONSTANTS
  Vectors,           \* the vectors that are taken
  MaxDepth           \* bound on nested traps

VARIABLES
  regs,              \* the general registers
  rip,               \* the code that executes
  stack,             \* the top of the stack is the last word
  phase,             \* what runs: "code" (depth 0), "stub", "dispatch", "handler",
                     \*   "leave" (the way back to the stub) or "panic"
  vec,               \* the stub that runs
  ctx,               \* the ExceptionContext of the dispatcher that runs
  frame,             \* the IrqFrame of the handler that runs
  HANDLER_SET,
  cr2, isr,          \* CR2; the vector in service at the local APIC, or 0
  saved              \* history: what was interrupted, innermost last

vars == <<regs, rip, stack, phase, vec, ctx, frame, HANDLER_SET, cr2, isr, saved>>

ASSUME TrapAssumption == MaxDepth \in Nat /\ Vectors \subseteq 0 .. 255

depth == Len(saved)
\* A stack without its top n words, and its i-th word from the top.
Drop(s, n) == SubSeq(s, 1, Len(s) - n)
FromTop(s, i) == s[Len(s) + 1 - i]

\* The registers in the order of PUSH_GPRS, and of POP_GPRS.
PUSH_GPRS == <<"rax", "rbx", "rcx", "rdx", "rbp", "rsi", "rdi", "r8", "r9", "r10", "r11",
               "r12", "r13", "r14", "r15">>

\* rsi and rdi are popped in the order in which they are pushed.
POP_GPRS_Swapped == <<"r15", "r14", "r13", "r12", "r11", "r10", "r9", "r8", "rsi", "rdi",
                      "rbp", "rdx", "rcx", "rbx", "rax">>

POP_GPRS == <<"r15", "r14", "r13", "r12", "r11", "r10", "r9", "r8", "rdi", "rsi", "rbp",
              "rdx", "rcx", "rbx", "rax">>

GPR == Range(PUSH_GPRS)

\* The fields of ExceptionContext, from the lowest address: the top of the stack.
ExceptionContext ==
  <<"r15", "r14", "r13", "r12", "r11", "r10", "r9", "r8", "rdi", "rsi", "rbp", "rdx",
    "rcx", "rbx", "rax", "vector", "error_code", "rip", "cs", "rflags", "rsp", "ss">>

\* Hardware: the exceptions with an error code, and the frame the CPU pushes.
HasErrorCode(v) == v \in {8, 10, 11, 12, 13, 14, 17}
CpuFrame == <<<<"ss", depth>>, <<"rsp", depth>>, <<"rflags", depth>>, <<"cs", depth>>, rip>>

\* A #GP stub declared with ISR_NOERR.
ISR_ERR_NotGp(v) == v \in {8, 10, 11, 12, 14, 17}

\* The stubs declared with ISR_ERR; the others push a zero.
ISR_ERR(v) == v \in {8, 10, 11, 12, 13, 14, 17}

TIMER_VEC == 224
TLB_SHOOTDOWN_VEC == 225

NoFrame == [kind |-> "Unknown", fault_kind |-> "None", irq |-> 0, error_code |-> <<"zero", 0>>,
            fault_addr |-> 0]

Init ==
  /\ regs = [r \in GPR |-> <<r, 0>>]
  /\ rip = <<"rip", 0>>
  /\ stack = <<>> /\ saved = <<>>
  /\ phase = "code" /\ vec = 0
  /\ ctx = [f \in {} |-> <<"none", 0>>]
  /\ frame = NoFrame /\ HANDLER_SET = FALSE
  /\ cr2 = 0 /\ isr = 0

-----------------------------------------------------------------------------
\* interrupts::init in the main code; interrupts are off until then.
register_handler ==
  /\ phase = "code" /\ ~HANDLER_SET
  /\ HANDLER_SET' = TRUE
  /\ UNCHANGED <<regs, rip, stack, phase, vec, ctx, frame, cr2, isr, saved>>

\* Hardware: a vector is delivered to the main code, or an exception to a dispatcher or
\* a handler, where interrupts are off.  A page fault leaves its address in CR2.
Deliver(v) ==
  /\ phase \in {"code", "dispatch", "handler", "leave"} /\ depth < MaxDepth
  /\ v >= 32 => phase = "code" /\ isr = 0 /\ HANDLER_SET
  /\ stack' = stack \o CpuFrame \o IF HasErrorCode(v) THEN <<<<"error", v>>>> ELSE <<>>
  /\ saved' = Append(saved, [regs |-> regs, rip |-> rip, vec |-> v, ctx |-> ctx,
                             phase |-> phase, height |-> Len(stack)])
  /\ phase' = "stub" /\ vec' = v
  /\ cr2' = IF v = 14 THEN depth + 1 ELSE cr2
  /\ isr' = IF v >= 32 THEN v ELSE isr
  /\ UNCHANGED <<regs, rip, ctx, frame, HANDLER_SET>>

\* What the context pointer, RSP, shows of a stack.
View(s) == [f \in Range(ExceptionContext) |->
              FromTop(s, CHOOSE i \in 1 .. Len(ExceptionContext) : ExceptionContext[i] = f)]

\* The stub up to the call; the dispatcher then uses the registers for itself.
stub ==
  /\ phase = "stub"
  /\ stack' = stack \o (IF ISR_ERR(vec) THEN <<>> ELSE <<<<"zero", 0>>>>)
                    \o <<<<"vector", vec>>>>
                    \o [i \in 1 .. Len(PUSH_GPRS) |-> regs[PUSH_GPRS[i]]]
  /\ ctx' = View(stack')
  /\ regs' = [r \in GPR |-> <<r, depth>>]
  /\ rip' = <<"rip", depth>>
  /\ phase' = "dispatch"
  /\ UNCHANGED <<vec, frame, HANDLER_SET, cr2, isr, saved>>

-----------------------------------------------------------------------------
decode_fault_kind(v) ==
  CASE v = 0 -> "DivideByZero"
    [] v = 6 -> "InvalidOpcode"
    [] v = 8 -> "DoubleFault"
    [] v = 13 -> "GeneralProtection"
    [] v = 14 -> "PageFault"
    [] OTHER -> "Unknown"

irq_line(v) == IF v \in 32 .. 47 THEN v - 32 ELSE 0

\* The exception stubs call one dispatcher, the others the other one.
In(dispatcher, p) ==
  /\ phase = p /\ dispatcher = IF saved[depth].vec < 32 THEN "exception" ELSE "irq"
  /\ UNCHANGED <<regs, rip, stack, vec, ctx, HANDLER_SET, cr2, saved>>

\* hal::interrupt::dispatch calls the handler if there is one.
dispatch(f) ==
  /\ frame' = f
  /\ phase' = IF HANDLER_SET THEN "handler" ELSE "leave"

exception_dispatch ==
  /\ In("exception", "dispatch")
  /\ LET kind == decode_fault_kind(ctx.vector[2])
     IN  dispatch([kind |-> "Fault", fault_kind |-> kind, irq |-> 0,
                   error_code |-> ctx.error_code,
                   fault_addr |-> IF kind = "PageFault" THEN cr2 ELSE 0])
  /\ UNCHANGED isr

\* A shootdown (module Tlb) does not reach the handler and ends with its own eoi.
irq_dispatch ==
  /\ In("irq", "dispatch")
  /\ IF ctx.vector[2] = TLB_SHOOTDOWN_VEC
       THEN phase' = "leave" /\ isr' = 0 /\ UNCHANGED frame
       ELSE /\ dispatch([kind |-> IF ctx.vector[2] = TIMER_VEC THEN "Timer" ELSE "External",
                         fault_kind |-> "None", irq |-> irq_line(ctx.vector[2]),
                         error_code |-> ctx.error_code, fault_addr |-> 0])
            /\ UNCHANGED isr

\* The handler reports a fault and returns.
on_interrupt_Returns ==
  \/ In("exception", "handler") /\ phase' = "leave" /\ UNCHANGED <<frame, isr>>
  \/ In("irq", "handler") /\ phase' = "leave" /\ isr' = 0 /\ UNCHANGED frame

\* KernelInterrupts::on_interrupt: a fault panics, a tick (module Boot) and a device's
\* interrupt return to irq_dispatch and its eoi.
on_interrupt ==
  \/ In("exception", "handler") /\ phase' = "panic" /\ UNCHANGED <<frame, isr>>
  \/ In("irq", "handler") /\ phase' = "leave" /\ isr' = 0 /\ UNCHANGED frame

\* The dispatcher returns: POP_GPRS, add rsp 16, iretq.
return ==
  /\ phase = "leave"
  /\ regs' = [r \in GPR |->
                FromTop(stack, CHOOSE i \in 1 .. Len(POP_GPRS) : POP_GPRS[i] = r)]
  /\ LET below == Drop(stack, Len(POP_GPRS) + 2)
     IN  /\ rip' = FromTop(below, 1)
         /\ stack' = Drop(below, 5)
  /\ phase' = saved[depth].phase /\ ctx' = saved[depth].ctx
  /\ saved' = Drop(saved, 1)
  /\ UNCHANGED <<vec, frame, HANDLER_SET, cr2, isr>>

\* The loop at the end of the panic handler.
halt == phase = "panic" /\ UNCHANGED vars

Next ==
  \/ register_handler \/ (\E v \in Vectors : Deliver(v)) \/ stub
  \/ exception_dispatch \/ irq_dispatch \/ on_interrupt \/ return \/ halt

Spec == Init /\ [][Next]_vars

-----------------------------------------------------------------------------
\* The variables keep their types, and every trap takes the 22 words of an
\* ExceptionContext on the stack, whatever its vector (stubs.S:87, "uniform layout").
TypeOK ==
  /\ phase \in {"code", "stub", "dispatch", "handler", "leave", "panic"}
  /\ depth <= MaxDepth /\ (phase = "code" <=> depth = 0)
  /\ regs \in [GPR -> GPR \X (0 .. MaxDepth)] /\ rip \in {"rip"} \X (0 .. MaxDepth)
  /\ phase # "stub" => Len(stack) = Len(ExceptionContext) * depth
  /\ HANDLER_SET \in BOOLEAN /\ cr2 \in 0 .. MaxDepth /\ isr \in Vectors \cup {0}

\* The dispatchers are told the vector that was delivered, its error code or zero, and
\* the interrupted code and registers, also when they were interrupted in between
\* (interrupts/mod.rs:35, 55; stubs.S:49).
ErrorCodeOf(v) == IF HasErrorCode(v) THEN <<"error", v>> ELSE <<"zero", 0>>
ContextDescribesTrap ==
  phase \in {"dispatch", "handler", "leave"} =>
    LET trap == saved[depth]
    IN  /\ ctx.vector = <<"vector", trap.vec>>
        /\ ctx.error_code = ErrorCodeOf(trap.vec)
        /\ ctx.rip = trap.rip
        /\ \A r \in GPR : ctx[r] = trap.regs[r]

\* What the kernel's handler is told, and prints when it panics, is the trap that it was
\* called for (kernel/src/interrupts.rs:14, 27): a fault for an exception, with its own
\* address if it is a page fault and none otherwise, although CR2 is read after the stub
\* has run and the dispatcher may have faulted itself by then (interrupts/mod.rs:40).
FrameDescribesTrap ==
  phase \in {"handler", "panic"} =>
    LET v == saved[depth].vec
    IN  /\ frame.kind = IF v < 32 THEN "Fault" ELSE IF v = TIMER_VEC THEN "Timer" ELSE "External"
        /\ frame.fault_kind = "None" <=> v >= 32
        /\ frame.fault_addr = IF v = 14 THEN depth ELSE 0
        /\ frame.error_code = ErrorCodeOf(v)
        /\ frame.irq = IF v \in 32 .. 47 THEN v - 32 ELSE 0
        /\ v # TLB_SHOOTDOWN_VEC

\* A return resumes exactly what was interrupted, and leaves nothing on the stack and,
\* in the main code, no interrupt in service that would hold up the next.
ResumesExactly ==
  [][Len(saved') < depth =>
       LET trap == saved[depth]
       IN  /\ regs' = trap.regs /\ rip' = trap.rip /\ Len(stack') = trap.height
           /\ phase' = "code" => isr' = 0]_vars
=============================================================================
