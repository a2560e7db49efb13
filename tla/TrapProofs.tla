----------------------------- MODULE TrapProofs -----------------------------
(***************************************************************************)
(* Theorems about the stubs and the dispatchers for any set of vectors and *)
(* any depth of nested traps.                                              *)
(***************************************************************************)
EXTENDS Trap, SequenceTheorems, TLAPS

Fields == Range(ExceptionContext)

\* What the dispatcher should see of vector v, taken by the code at depth d.
ContextOf(v, d) ==
  [f \in Fields |->
     IF f = "vector" THEN <<"vector", v>>
     ELSE IF f = "error_code" THEN ErrorCodeOf(v)
     ELSE <<f, d>>]

\* The same of the k-th trap.
Context(k) == ContextOf(saved[k].vec, k - 1)

\* The number of words that the stub has yet to push for the innermost trap.
Missing == IF phase # "stub" THEN 0 ELSE IF HasErrorCode(vec) THEN 16 ELSE 17

Word == (Fields \cup {"error", "zero"}) \X Nat
Phase == {"code", "stub", "dispatch", "handler", "leave", "panic"}
Interrupted == [regs : [GPR -> Word], rip : Word, vec : Vectors,
                ctx : UNION {[D -> Word] : D \in {{}, Fields}}, phase : Phase, height : Nat]

Types ==
  /\ saved \in Seq(Interrupted) /\ depth <= MaxDepth
  /\ stack \in Seq(Word)
  /\ phase \in Phase /\ (phase = "code" <=> depth = 0)
  /\ vec \in 0 .. 255
  /\ HANDLER_SET \in BOOLEAN /\ cr2 \in 0 .. MaxDepth /\ isr \in Vectors \cup {0}
  /\ ctx \in UNION {[D -> Word] : D \in {{}, Fields}}

\* The registers are those of the code that runs; a stub has not touched them yet.
Running == IF phase = "stub" THEN depth - 1 ELSE depth
RegsOf(d) == [r \in GPR |-> <<r, d>>]
RipOf(d) == <<"rip", d>>

Registers ==
  /\ regs = RegsOf(Running) /\ rip = RipOf(Running)
  /\ \A k \in 1 .. depth : saved[k].regs = RegsOf(k - 1) /\ saved[k].rip = RipOf(k - 1)

\* Every trap has 22 words on the stack, in the order of ExceptionContext from the top,
\* the innermost possibly not all of them yet.
Layout ==
  /\ Len(stack) = 22 * depth - Missing
  /\ \A k \in 1 .. depth, i \in 1 .. 22 :
       22 * k + 1 - i <= Len(stack) =>
         stack[22 * k + 1 - i] = Context(k)[ExceptionContext[i]]
  /\ \A k \in 1 .. depth : saved[k].height = 22 * (k - 1)

\* The context of the dispatcher that runs, and those of the ones that wait.
Contexts ==
  /\ Running > 0 => ctx = Context(Running)
  /\ \A k \in 2 .. depth : saved[k].ctx = Context(k - 1)

\* What was interrupted; interrupts come only to the main code and to a handler in place.
Nesting ==
  /\ phase = "stub" => vec = saved[depth].vec
  /\ \A k \in 1 .. depth :
       /\ saved[k].phase = "code" <=> k = 1
       /\ saved[k].phase \in {"code", "dispatch", "handler", "leave"}
       /\ saved[k].phase = "handler" => HANDLER_SET
       /\ saved[k].vec >= 32 => k = 1 /\ HANDLER_SET

\* With a handler no exception returns.  So an interrupt is over when the main code
\* goes on, and no later page fault has replaced the address in CR2.
Handling ==
  /\ phase \in {"handler", "panic"} => HANDLER_SET
  /\ phase = "leave" /\ HANDLER_SET => saved[depth].vec >= 32 /\ isr = 0
  /\ phase = "code" => isr = 0
  /\ isr # 0 => saved[1].vec >= 32
  /\ phase \in {"stub", "dispatch"} /\ HANDLER_SET /\ saved[depth].vec = 14 => cr2 = depth

TrapInv == Types /\ Registers /\ Layout /\ Contexts /\ Nesting /\ Handling
TInv == TrapInv /\ FrameDescribesTrap

-----------------------------------------------------------------------------
\* Facts about the two orders: of the registers on the stack and of the fields.

\* The tables have the lengths of the code's.
LEMMA Lengths ==
  /\ Len(ExceptionContext) = 22 /\ DOMAIN ExceptionContext = 1 .. 22
  /\ Len(PUSH_GPRS) = 15 /\ DOMAIN PUSH_GPRS = 1 .. 15
  /\ Len(POP_GPRS) = 15 /\ DOMAIN POP_GPRS = 1 .. 15
  BY DEF ExceptionContext, PUSH_GPRS, POP_GPRS

\* The fields above the registers.
LEMMA HighFields ==
  /\ ExceptionContext[16] = "vector" /\ ExceptionContext[17] = "error_code"
  /\ ExceptionContext[18] = "rip" /\ ExceptionContext[19] = "cs"
  /\ ExceptionContext[20] = "rflags" /\ ExceptionContext[21] = "rsp"
  /\ ExceptionContext[22] = "ss"
  BY DEF ExceptionContext

\* The registers are popped, and are declared in ExceptionContext, in the opposite order
\* of PUSH_GPRS.
LEMMA OppositeOrders ==
  ASSUME NEW i \in 1 .. 15
  PROVE  /\ POP_GPRS[i] = PUSH_GPRS[16 - i]
         /\ ExceptionContext[i] = PUSH_GPRS[16 - i]
  <1>1. i \in {1, 2, 3, 4, 5, 6, 7, 8, 9, 10, 11, 12, 13, 14, 15} OBVIOUS
  <1> QED BY <1>1 DEF ExceptionContext, PUSH_GPRS, POP_GPRS

\* No field occurs twice.
LEMMA FieldsDiffer ==
  ASSUME NEW i \in 1 .. 22, NEW j \in 1 .. 22, ExceptionContext[i] = ExceptionContext[j]
  PROVE  i = j
  BY DEF ExceptionContext

\* What is a field, and what is a register.
LEMMA FieldIndex ==
  /\ \A f : f \in Fields <=> \E i \in 1 .. 22 : f = ExceptionContext[i]
  /\ \A r : r \in GPR <=> \E i \in 1 .. 15 : r = PUSH_GPRS[i]
  BY Lengths DEF Fields, GPR, Range

\* The registers are the fields but for the last seven.
LEMMA Registers15 ==
  /\ \A i \in 1 .. 15 : ExceptionContext[i] \in GPR
  /\ \A i \in 16 .. 22 : ExceptionContext[i] \notin GPR
  /\ GPR \subseteq Fields
  <1>1. \A i \in 1 .. 15 : ExceptionContext[i] \in GPR
    BY OppositeOrders, FieldIndex
  <1>2. \A r \in GPR : \E i \in 1 .. 15 : r = ExceptionContext[i]
    <2> SUFFICES ASSUME NEW r \in GPR PROVE \E i \in 1 .. 15 : r = ExceptionContext[i]
      OBVIOUS
    <2>1. PICK j \in 1 .. 15 : r = PUSH_GPRS[j] BY FieldIndex
    <2>2. 16 - j \in 1 .. 15 /\ 16 - (16 - j) = j OBVIOUS
    <2>3. ExceptionContext[16 - j] = r BY <2>1, <2>2, OppositeOrders
    <2> QED BY <2>2, <2>3
  <1>3. \A i \in 16 .. 22 : ExceptionContext[i] \notin GPR
    BY <1>2, FieldsDiffer
  <1> QED BY <1>1, <1>2, <1>3, FieldIndex

\* The context pointer shows field i of ExceptionContext in the i-th word from the top.
LEMMA ViewWord ==
  ASSUME NEW s, NEW i \in 1 .. 22
  PROVE  View(s)[ExceptionContext[i]] = FromTop(s, i)
  <1> DEFINE at == CHOOSE j \in 1 .. Len(ExceptionContext) :
                     ExceptionContext[j] = ExceptionContext[i]
  <1>1. at = i BY Lengths, FieldsDiffer
  <1>2. ExceptionContext[i] \in Fields BY FieldIndex
  <1> QED BY <1>1, <1>2, ZenonT(60) DEF View, Fields

\* A register is popped in the place where it was pushed.
LEMMA PopPlace ==
  ASSUME NEW i \in 1 .. 15
  PROVE  (CHOOSE j \in 1 .. Len(POP_GPRS) : POP_GPRS[j] = ExceptionContext[i]) = i
  <1>1. ASSUME NEW j \in 1 .. 15 PROVE POP_GPRS[j] = ExceptionContext[i] <=> j = i
    BY OppositeOrders, FieldsDiffer
  <1> QED BY <1>1, Lengths

\* ContextOf, field by field.
LEMMA ContextWords ==
  ASSUME NEW v, NEW d
  PROVE  /\ ContextOf(v, d).vector = <<"vector", v>>
         /\ ContextOf(v, d).error_code = ErrorCodeOf(v)
         /\ \A i \in 1 .. 22 : i \notin {16, 17} =>
              ContextOf(v, d)[ExceptionContext[i]] = <<ExceptionContext[i], d>>
         /\ ContextOf(v, d).rip = <<"rip", d>>
         /\ \A r \in GPR : ContextOf(v, d)[r] = <<r, d>>
  <1>1. \A i \in 1 .. 22 : ExceptionContext[i] \in Fields BY FieldIndex
  <1>2. "vector" \in Fields /\ "error_code" \in Fields /\ "rip" \in Fields
    BY <1>1, HighFields
  <1>3. \A i \in 1 .. 22 : i \notin {16, 17} =>
          ExceptionContext[i] \notin {"vector", "error_code"}
    BY FieldsDiffer, HighFields
  <1>4. "vector" \notin GPR /\ "error_code" \notin GPR
    BY Registers15, HighFields
  <1>5. GPR \subseteq Fields BY Registers15
  <1> QED BY <1>1, <1>2, <1>3, <1>4, <1>5, SMTT(60) DEF ContextOf

-----------------------------------------------------------------------------
\* The steps of the dispatchers and the handler.

\* The invariant holds before the first trap.
LEMMA InitInv == Init => TInv
  <1> SUFFICES ASSUME Init PROVE TInv OBVIOUS
  <1>1. saved = <<>> /\ stack = <<>> /\ phase = "code" /\ vec = 0 /\ cr2 = 0 /\ isr = 0
    BY DEF Init
  <1>2. depth = 0 BY <1>1 DEF depth
  <1>3. Types
    <2>1. saved \in Seq(Interrupted) /\ stack \in Seq(Word) BY <1>1, EmptySeq
    <2>2. ctx \in [{} -> Word] BY DEF Init
    <2>3. ctx \in UNION {[D -> Word] : D \in {{}, Fields}} BY <2>2, Zenon
    <2>4. HANDLER_SET \in BOOLEAN BY ZenonT(60) DEF Init
    <2>5. cr2 \in 0 .. MaxDepth /\ isr \in Vectors \cup {0} /\ vec \in 0 .. 255
      BY <1>1, TrapAssumption
    <2>6. depth <= MaxDepth BY <1>2, TrapAssumption
    <2>7. phase \in Phase BY <1>1 DEF Phase
    <2> QED BY <1>1, <1>2, <2>1, <2>3, <2>4, <2>5, <2>6, <2>7 DEF Types
  <1>4. Running = 0 /\ Missing = 0 BY <1>1, <1>2 DEF Running, Missing
  <1>5. Registers BY <1>2, <1>4 DEF Init, Registers, RegsOf, RipOf
  <1>6. Len(stack) = 0 BY <1>1
  <1>7. Layout BY <1>2, <1>4, <1>6 DEF Layout
  <1>8. Contexts BY <1>2, <1>4 DEF Contexts
  <1>9. Nesting /\ Handling BY <1>1, <1>2 DEF Nesting, Handling
  <1> QED BY <1>1, <1>3, <1>5, <1>7, <1>8, <1>9 DEF TInv, TrapInv, FrameDescribesTrap

\* A step inside a dispatcher or handler leaves stack and contexts alone.
LEMMA DispatcherStep ==
  ASSUME TrapInv, UNCHANGED <<regs, rip, stack, vec, ctx, HANDLER_SET, cr2, saved>>,
         phase \in {"dispatch", "handler"}, phase' \in {"handler", "leave", "panic"},
         isr' \in {isr, 0}, phase' = "handler" => HANDLER_SET
  PROVE  Types' /\ Registers' /\ Layout' /\ Contexts' /\ Nesting'
  <1> USE DEF TrapInv
  <1>1. depth' = depth /\ Running' = Running /\ Missing' = Missing
    BY DEF depth, Running, Missing
  <1>2. \A k : Context(k)' = Context(k) BY DEF Context
  <1>3. Types' BY <1>1 DEF Types, Phase
  <1>4. Registers' BY <1>1 DEF Registers
  <1>5. Layout' BY <1>1, <1>2, ZenonT(60) DEF Layout
  <1>6. Contexts' BY <1>1, <1>2 DEF Contexts
  <1>7. Nesting' BY <1>1 DEF Nesting
  <1> QED BY <1>3, <1>4, <1>5, <1>6, <1>7

\* Inside a dispatcher there is a trap, and the context is that trap's.
LEMMA DispatcherContext ==
  ASSUME TrapInv, phase \in {"dispatch", "handler", "leave"}
  PROVE  /\ depth \in Nat /\ depth > 0 /\ depth <= MaxDepth
         /\ saved[depth] \in Interrupted /\ saved[depth].vec \in 0 .. 255
         /\ ctx = Context(depth)
         /\ ctx.vector[2] = saved[depth].vec
         /\ ctx.error_code = ErrorCodeOf(saved[depth].vec)
  <1>1. depth \in Nat /\ depth > 0 /\ depth <= MaxDepth
    BY LenProperties, TrapAssumption DEF TrapInv, Types, depth
  <1>2. saved[depth] \in Interrupted
    BY <1>1, ElementOfSeq DEF TrapInv, Types, depth
  <1>3. saved[depth].vec \in 0 .. 255
    BY <1>2, TrapAssumption, ZenonT(60) DEF Interrupted
  <1>4. ctx = Context(depth)
    BY <1>1 DEF TrapInv, Contexts, Running
  <1> QED BY <1>1, <1>2, <1>3, <1>4, ContextWords DEF Context

\* exception_dispatch: CR2 still has the address of this page fault if there is a handler.
LEMMA ExceptionDispatchInv == TInv /\ exception_dispatch => TInv'
  <1> SUFFICES ASSUME TInv, exception_dispatch PROVE TInv' OBVIOUS
  <1> DEFINE v == saved[depth].vec
  <1>1. TrapInv /\ phase = "dispatch" BY DEF TInv, exception_dispatch, In
  <1>2. /\ depth \in Nat /\ depth > 0 /\ v \in 0 .. 255 /\ ctx.vector[2] = v
        /\ ctx.error_code = ErrorCodeOf(v)
    BY <1>1, DispatcherContext
  <1>3. /\ v < 32
        /\ UNCHANGED <<regs, rip, stack, vec, ctx, HANDLER_SET, cr2, saved, isr>>
        /\ phase' = IF HANDLER_SET THEN "handler" ELSE "leave"
        /\ frame' = [kind |-> "Fault", fault_kind |-> decode_fault_kind(v), irq |-> 0,
                     error_code |-> ErrorCodeOf(v),
                     fault_addr |-> IF decode_fault_kind(v) = "PageFault" THEN cr2 ELSE 0]
    BY <1>2 DEF exception_dispatch, In, dispatch
  <1>4. depth' = depth BY <1>3 DEF depth
  <1>5. Types' /\ Registers' /\ Layout' /\ Contexts' /\ Nesting'
    BY <1>1, <1>3, DispatcherStep
  <1>6. Handling'
    BY <1>1, <1>3, <1>4 DEF TrapInv, Handling
  <1>7. /\ decode_fault_kind(v) = "PageFault" <=> v = 14
        /\ decode_fault_kind(v) # "None"
    BY <1>2 DEF decode_fault_kind
  <1>8. FrameDescribesTrap'
    <2> SUFFICES ASSUME phase' = "handler" PROVE FrameDescribesTrap'
      BY <1>3 DEF FrameDescribesTrap
    <2>1. HANDLER_SET BY <1>3
    <2>2. v = 14 => cr2 = depth BY <1>1, <2>1 DEF TrapInv, Handling
    <2>3. v' = v BY <1>3, <1>4
    <2> QED BY <1>2, <1>3, <1>4, <1>7, <2>2, <2>3 DEF FrameDescribesTrap, TLB_SHOOTDOWN_VEC
  <1> QED BY <1>5, <1>6, <1>8 DEF TInv, TrapInv

\* irq_dispatch: interrupts come only to the main code, with a handler in place.
LEMMA IrqDispatchInv == TInv /\ irq_dispatch => TInv'
  <1> SUFFICES ASSUME TInv, irq_dispatch PROVE TInv' OBVIOUS
  <1> DEFINE v == saved[depth].vec
  <1>1. TrapInv /\ phase = "dispatch" BY DEF TInv, irq_dispatch, In
  <1>2. /\ depth \in Nat /\ depth > 0 /\ v \in 0 .. 255 /\ ctx.vector[2] = v
        /\ ctx.error_code = ErrorCodeOf(v)
    BY <1>1, DispatcherContext
  <1>3. v >= 32 /\ UNCHANGED <<regs, rip, stack, vec, ctx, HANDLER_SET, cr2, saved>>
    BY <1>2 DEF irq_dispatch, In
  <1>4. HANDLER_SET /\ depth = 1
    BY <1>1, <1>2, <1>3 DEF TrapInv, Nesting
  <1>5. depth' = depth /\ v' = v BY <1>3 DEF depth
  <1>6. CASE v = TLB_SHOOTDOWN_VEC
    <2>1. phase' = "leave" /\ isr' = 0 BY <1>2, <1>6 DEF irq_dispatch
    <2>2. Types' /\ Registers' /\ Layout' /\ Contexts' /\ Nesting'
      BY <1>1, <1>3, <2>1, DispatcherStep
    <2>3. Handling' BY <1>3, <1>5, <2>1 DEF Handling
    <2> QED BY <2>1, <2>2, <2>3 DEF TInv, TrapInv, FrameDescribesTrap
  <1>7. CASE v # TLB_SHOOTDOWN_VEC
    <2>1. /\ phase' = "handler" /\ isr' = isr
          /\ frame' = [kind |-> IF v = TIMER_VEC THEN "Timer" ELSE "External",
                       fault_kind |-> "None", irq |-> irq_line(v),
                       error_code |-> ErrorCodeOf(v), fault_addr |-> 0]
      BY <1>2, <1>4, <1>7 DEF irq_dispatch, dispatch
    <2>2. Types' /\ Registers' /\ Layout' /\ Contexts' /\ Nesting'
      BY <1>1, <1>3, <1>4, <2>1, DispatcherStep
    <2>3. Handling' BY <1>1, <1>3, <1>4, <1>5, <2>1 DEF TrapInv, Handling
    <2>4. FrameDescribesTrap'
      BY <1>2, <1>3, <1>5, <1>7, <2>1 DEF FrameDescribesTrap, irq_line, TLB_SHOOTDOWN_VEC
    <2> QED BY <2>2, <2>3, <2>4 DEF TInv, TrapInv
  <1> QED BY <1>6, <1>7

\* on_interrupt: a fault does not return from the handler.
LEMMA OnInterruptInv == TInv /\ on_interrupt => TInv'
  <1> SUFFICES ASSUME TInv, on_interrupt PROVE TInv' OBVIOUS
  <1> DEFINE v == saved[depth].vec
  <1>1. TrapInv /\ phase = "handler" BY DEF TInv, on_interrupt, In
  <1>2. depth \in Nat /\ depth > 0 /\ v \in 0 .. 255
    BY <1>1, DispatcherContext
  <1>3. UNCHANGED <<regs, rip, stack, vec, ctx, HANDLER_SET, cr2, saved, frame>>
    BY DEF on_interrupt, In
  <1>4. depth' = depth /\ v' = v BY <1>3 DEF depth
  <1>5. \/ phase' = "panic" /\ isr' = isr
        \/ phase' = "leave" /\ isr' = 0 /\ v >= 32
    BY <1>2 DEF on_interrupt, In
  <1>6. Types' /\ Registers' /\ Layout' /\ Contexts' /\ Nesting'
    BY <1>1, <1>3, <1>5, DispatcherStep
  <1>7. Handling' BY <1>1, <1>3, <1>4, <1>5 DEF TrapInv, Handling
  <1>8. FrameDescribesTrap'
    BY <1>1, <1>3, <1>4, <1>5 DEF TInv, FrameDescribesTrap
  <1> QED BY <1>6, <1>7, <1>8 DEF TInv, TrapInv

\* interrupts::init runs outside any trap.
LEMMA RegisterHandlerInv == TInv /\ register_handler => TInv'
  <1> SUFFICES ASSUME TInv, register_handler PROVE TInv' OBVIOUS
  <1>1. /\ phase = "code" /\ HANDLER_SET' = TRUE
        /\ UNCHANGED <<regs, rip, stack, phase, vec, ctx, frame, cr2, isr, saved>>
    BY DEF register_handler
  <1>2. depth = 0 /\ depth' = 0 BY <1>1 DEF TInv, TrapInv, Types, depth
  <1>3. Running' = Running /\ Missing' = Missing BY <1>1, <1>2 DEF Running, Missing
  <1>4. \A k : Context(k)' = Context(k) BY <1>1 DEF Context
  <1> USE DEF TInv, TrapInv
  <1>5. Types' BY <1>1, <1>2 DEF Types
  <1>6. Registers' BY <1>1, <1>2, <1>3 DEF Registers
  <1>7. Layout' BY <1>1, <1>2, <1>3, <1>4 DEF Layout
  <1>8. Contexts' BY <1>1, <1>2, <1>3, <1>4 DEF Contexts
  <1>9. Nesting' /\ Handling' BY <1>1, <1>2 DEF Nesting, Handling
  <1>10. FrameDescribesTrap' BY <1>1 DEF FrameDescribesTrap
  <1> QED BY <1>5, <1>6, <1>7, <1>8, <1>9, <1>10

-----------------------------------------------------------------------------
\* The steps that change the stack.

\* Two sequences, one on top of the other.
LEMMA Concat ==
  ASSUME NEW S, NEW s \in Seq(S), NEW t \in Seq(S), NEW c, c = s \o t
  PROVE  /\ c \in Seq(S) /\ Len(c) = Len(s) + Len(t)
         /\ \A n \in 1 .. Len(s) : c[n] = s[n]
         /\ \A n \in 1 .. Len(t) : c[Len(s) + n] = t[n]
  <1>1. Len(s) \in Nat /\ Len(t) \in Nat BY LenProperties
  <1> QED BY <1>1, ConcatProperties

\* The words that the CPU pushes for a vector, from the bottom.
Pushed(v) == CpuFrame \o IF HasErrorCode(v) THEN <<<<"error", v>>>> ELSE <<>>

\* The five words that the CPU always pushes.
LEMMA FrameType ==
  ASSUME TrapInv, Running = depth
  PROVE  /\ CpuFrame \in Seq(Word) /\ Len(CpuFrame) = 5
         /\ \A i \in 18 .. 22 : CpuFrame[23 - i] = <<ExceptionContext[i], depth>>
  <1>1. depth \in Nat BY LenProperties DEF TrapInv, Types, depth
  <1>2. rip = <<"rip", depth>> BY DEF TrapInv, Registers, RipOf
  <1>3. CpuFrame = <<<<"ss", depth>>, <<"rsp", depth>>, <<"rflags", depth>>, <<"cs", depth>>,
                     <<"rip", depth>>>>
    BY <1>2 DEF CpuFrame
  <1>4. {"ss", "rsp", "rflags", "cs", "rip"} \subseteq Fields
    BY HighFields, FieldIndex
  <1>5. CpuFrame \in Seq(Word) /\ Len(CpuFrame) = 5
    BY <1>1, <1>3, <1>4 DEF Word
  <1>6. \A i \in 18 .. 22 : CpuFrame[23 - i] = <<ExceptionContext[i], depth>>
    <2>1. \A i \in 18 .. 22 : i \in {18, 19, 20, 21, 22} OBVIOUS
    <2> QED BY <1>3, <2>1, HighFields
  <1> QED BY <1>5, <1>6

\* They are the highest five or six fields of the new context.
LEMMA PushedWords ==
  ASSUME NEW v \in 0 .. 255, TrapInv, Running = depth
  PROVE  /\ Pushed(v) \in Seq(Word)
         /\ Len(Pushed(v)) = IF HasErrorCode(v) THEN 6 ELSE 5
         /\ \A i \in 18 .. 22 : Pushed(v)[23 - i] = <<ExceptionContext[i], depth>>
         /\ HasErrorCode(v) => Pushed(v)[6] = <<"error", v>>
  <1>1. CpuFrame \in Seq(Word) /\ Len(CpuFrame) = 5 BY FrameType
  <1>2. \A i \in 18 .. 22 : CpuFrame[23 - i] = <<ExceptionContext[i], depth>> BY FrameType
  <1>3. CASE HasErrorCode(v)
    <2> DEFINE w == <<"error", v>>
               e == <<w>>
    <2>1. e \in Seq(Word) BY DEF Word
    <2> HIDE DEF w
    <2>2. Len(e) = 1 /\ e[1] = w OBVIOUS
    <2>3. CpuFrame \in Seq(Word) BY <1>1
    <2> HIDE DEF e
    <2>4. Pushed(v) = CpuFrame \o e BY <1>3 DEF Pushed, e, w
    <2>5. /\ Pushed(v) \in Seq(Word) /\ Len(Pushed(v)) = Len(CpuFrame) + Len(e)
          /\ \A n \in 1 .. Len(CpuFrame) : Pushed(v)[n] = CpuFrame[n]
          /\ \A n \in 1 .. Len(e) : Pushed(v)[Len(CpuFrame) + n] = e[n]
      BY <2>1, <2>3, <2>4, Concat
    <2>6. /\ Pushed(v)[6] = w /\ Len(Pushed(v)) = 6
          /\ \A n \in 1 .. 5 : Pushed(v)[n] = CpuFrame[n]
      BY <1>1, <2>2, <2>5
    <2>7. \A i \in 18 .. 22 : 23 - i \in 1 .. 5 OBVIOUS
    <2> QED BY <1>2, <1>3, <2>5, <2>6, <2>7, ZenonT(60) DEF w
  <1>4. CASE ~HasErrorCode(v)
    <2>1. Pushed(v) = CpuFrame \o <<>> BY <1>4 DEF Pushed
    <2>2. Pushed(v) = CpuFrame BY <1>1, <2>1, ConcatEmptySeq
    <2> QED BY <1>1, <1>2, <1>4, <2>2
  <1> QED BY <1>3, <1>4

\* The types of what is saved.
LEMMA RegisterTypes ==
  ASSUME NEW d \in Nat
  PROVE  RegsOf(d) \in [GPR -> Word] /\ RipOf(d) \in Word
  <1>1. GPR \subseteq Fields /\ "rip" \in Fields
    BY Registers15, FieldIndex, HighFields
  <1> QED BY <1>1 DEF RegsOf, RipOf, Word

\* The innermost trap is saved on top of the others.
LEMMA SavedByDeliver ==
  ASSUME TrapInv, NEW v \in Vectors, Deliver(v)
  PROVE  /\ depth \in Nat /\ depth' = depth + 1 /\ Running = depth /\ Len(stack) = 22 * depth
         /\ v \in 0 .. 255
         /\ saved' \in Seq(Interrupted)
         /\ \A k \in 1 .. depth : saved'[k] = saved[k]
         /\ saved'[depth + 1] = [regs |-> regs, rip |-> rip, vec |-> v, ctx |-> ctx,
                                 phase |-> phase, height |-> Len(stack)]
  <1> DEFINE trap == [regs |-> regs, rip |-> rip, vec |-> v, ctx |-> ctx,
                      phase |-> phase, height |-> Len(stack)]
  <1>1. saved \in Seq(Interrupted) /\ depth \in Nat
    BY LenProperties DEF TrapInv, Types, depth
  <1>2. phase # "stub" BY DEF Deliver
  <1>3. Running = depth /\ Missing = 0 BY <1>2 DEF Running, Missing
  <1>4. Len(stack) = 22 * depth BY <1>1, <1>3 DEF TrapInv, Layout
  <1>5. regs \in [GPR -> Word] /\ rip \in Word
    BY <1>1, <1>3, RegisterTypes DEF TrapInv, Registers
  <1>6. /\ ctx \in UNION {[D -> Word] : D \in {{}, Fields}} /\ phase \in Phase
        /\ Len(stack) \in Nat
    BY <1>1, <1>4 DEF TrapInv, Types
  <1>7. trap \in Interrupted
    BY <1>5, <1>6 DEF Interrupted
  <1>8. saved' = Append(saved, trap) BY DEF Deliver
  <1> HIDE DEF trap
  <1>9. /\ saved' \in Seq(Interrupted) /\ Len(saved') = Len(saved) + 1
        /\ \A k \in 1 .. Len(saved) : saved'[k] = saved[k]
        /\ saved'[Len(saved) + 1] = trap
    BY <1>1, <1>7, <1>8, AppendProperties
  <1>10. v \in 0 .. 255 BY TrapAssumption
  <1> QED BY <1>1, <1>3, <1>4, <1>9, <1>10 DEF depth, trap

\* What is on the stack then.
LEMMA StackByDeliver ==
  ASSUME TrapInv, NEW v \in Vectors, Deliver(v)
  PROVE  /\ stack' \in Seq(Word) /\ Len(stack') = Len(stack) + Len(Pushed(v))
         /\ \A n \in 1 .. Len(stack) : stack'[n] = stack[n]
         /\ \A n \in 1 .. Len(Pushed(v)) : stack'[Len(stack) + n] = Pushed(v)[n]
  <1>1. stack \in Seq(Word) BY DEF TrapInv, Types
  <1>2. v \in 0 .. 255 /\ Running = depth BY SavedByDeliver, ZenonT(60)
  <1>3. Pushed(v) \in Seq(Word) BY <1>2, PushedWords, ZenonT(60)
  <1> DEFINE code == IF HasErrorCode(v) THEN <<<<"error", v>>>> ELSE <<>>
  <1>4. code \in Seq(Word)
    <2>1. CASE HasErrorCode(v) BY <1>2, <2>1 DEF Word
    <2>2. CASE ~HasErrorCode(v) BY <2>2
    <2> QED BY <2>1, <2>2
  <1>5. CpuFrame \in Seq(Word) BY <1>2, FrameType
  <1>6. stack' = (stack \o CpuFrame) \o code BY DEF Deliver
  <1>7. Pushed(v) = CpuFrame \o code BY DEF Pushed
  <1> HIDE DEF code
  <1>8. stack' = stack \o Pushed(v)
    BY <1>1, <1>4, <1>5, <1>6, <1>7, ConcatAssociative
  <1> QED BY <1>1, <1>3, <1>8, Concat

\* A trap is delivered, also to a dispatcher or handler.
LEMMA DeliverInv == ASSUME TInv, NEW v \in Vectors, Deliver(v) PROVE TInv'
  <1> DEFINE trap == [regs |-> regs, rip |-> rip, vec |-> v, ctx |-> ctx,
                      phase |-> phase, height |-> Len(stack)]
  <1>1. TrapInv BY DEF TInv
  <1>2. PICK n : n = depth OBVIOUS
  <1>3. /\ n \in Nat /\ depth = n /\ depth' = n + 1 /\ Running = n /\ Len(stack) = 22 * n
        /\ v \in 0 .. 255 /\ saved' \in Seq(Interrupted)
        /\ \A k \in 1 .. n : saved'[k] = saved[k]
        /\ saved'[n + 1] = trap
    BY <1>2, <1>1, SavedByDeliver
  <1>4. /\ stack' \in Seq(Word) /\ Len(stack') = Len(stack) + Len(Pushed(v))
        /\ \A m \in 1 .. Len(stack) : stack'[m] = stack[m]
        /\ \A m \in 1 .. Len(Pushed(v)) : stack'[Len(stack) + m] = Pushed(v)[m]
    BY <1>1, StackByDeliver
  <1>5. /\ phase \in {"code", "dispatch", "handler", "leave"} /\ depth < MaxDepth
        /\ v >= 32 => phase = "code" /\ isr = 0 /\ HANDLER_SET
        /\ phase' = "stub" /\ vec' = v
        /\ cr2' = IF v = 14 THEN depth + 1 ELSE cr2
        /\ isr' = IF v >= 32 THEN v ELSE isr
        /\ UNCHANGED <<regs, rip, ctx, frame, HANDLER_SET>>
    BY DEF Deliver
  <1>6. /\ trap.regs = regs /\ trap.rip = rip /\ trap.vec = v /\ trap.ctx = ctx
        /\ trap.phase = phase /\ trap.height = 22 * n
    BY <1>3
  <1> HIDE DEF trap
  <1>7. Running' = n BY <1>3, <1>5 DEF Running
  <1>8. Missing' = IF HasErrorCode(v) THEN 16 ELSE 17 BY <1>5 DEF Missing
  <1>9. \A k \in 1 .. n : Context(k)' = Context(k)
    BY <1>3 DEF Context
  <1>10. Context(n + 1)' = ContextOf(v, n)
    <2>1. (n + 1) - 1 = n BY <1>3
    <2> QED BY <1>3, <1>6, <2>1 DEF Context
  <1>11. \A k \in 1 .. depth' : k \in 1 .. n \/ k = n + 1 BY <1>3
  <1>12. Types'
    <2>1. depth' <= MaxDepth /\ cr2' \in 0 .. MaxDepth
      BY <1>1, <1>3, <1>5, TrapAssumption DEF TrapInv, Types
    <2>2. isr' \in Vectors \cup {0} BY <1>1, <1>5 DEF TrapInv, Types
    <2>3. phase' \in Phase /\ phase' # "code" /\ depth' # 0 BY <1>3, <1>5 DEF Phase
    <2>4. vec' \in 0 .. 255 BY <1>3, <1>5
    <2>5. HANDLER_SET' \in BOOLEAN /\ (ctx \in UNION {[D -> Word] : D \in {{}, Fields}})'
      BY <1>1, <1>5 DEF TrapInv, Types
    <2> QED BY <1>3, <1>4, <2>1, <2>2, <2>3, <2>4, <2>5 DEF Types
  <1>13. Registers'
    <2>1. regs = RegsOf(n) /\ rip = RipOf(n) BY <1>1, <1>3 DEF TrapInv, Registers
    <2>2. ASSUME NEW k \in 1 .. depth'
          PROVE  saved'[k].regs = RegsOf(k - 1) /\ saved'[k].rip = RipOf(k - 1)
      <3>1. CASE k \in 1 .. n
        BY <1>1, <1>3, <3>1, ZenonT(60) DEF TrapInv, Registers
      <3>2. CASE k = n + 1
        <4>1. k - 1 = n BY <1>3, <3>2
        <4> QED BY <1>3, <1>6, <2>1, <3>2, <4>1
      <3> QED BY <1>11, <3>1, <3>2
    <2>3. regs' = RegsOf(Running') /\ rip' = RipOf(Running') BY <1>5, <1>7, <2>1
    <2> QED BY <2>2, <2>3 DEF Registers, RegsOf, RipOf
  <1>14. Layout'
    <2>1. Len(Pushed(v)) = IF HasErrorCode(v) THEN 6 ELSE 5
      BY <1>1, <1>3, PushedWords, ZenonT(60)
    <2>2. Len(stack') = 22 * depth' - Missing' BY <1>3, <1>4, <1>8, <2>1
    <2>3. ASSUME NEW k \in 1 .. depth' PROVE saved'[k].height = 22 * (k - 1)
      <3>1. CASE k \in 1 .. n BY <1>1, <1>3, <3>1, ZenonT(60) DEF TrapInv, Layout
      <3>2. CASE k = n + 1 BY <1>3, <1>6, <3>2
      <3> QED BY <1>11, <3>1, <3>2
    <2>4. ASSUME NEW k \in 1 .. n, NEW i \in 1 .. 22
          PROVE  stack'[22 * k + 1 - i] = Context(k)'[ExceptionContext[i]]
      <3>1. 22 * k + 1 - i \in 1 .. Len(stack) /\ 22 * k + 1 - i <= Len(stack) BY <1>3, <2>4
      <3>2. k \in 1 .. depth BY <1>3
      <3>3. stack[22 * k + 1 - i] = Context(k)[ExceptionContext[i]]
        BY <1>1, <3>1, <3>2, Zenon DEF TrapInv, Layout
      <3> QED BY <1>4, <1>9, <3>1, <3>3
    <2>5. ASSUME NEW i \in 1 .. 22, 22 * (n + 1) + 1 - i <= Len(stack')
          PROVE  stack'[22 * (n + 1) + 1 - i] = ContextOf(v, n)[ExceptionContext[i]]
      <3>1. /\ 22 * (n + 1) + 1 - i = Len(stack) + (23 - i)
            /\ 23 - i \in 1 .. Len(Pushed(v))
        BY <1>3, <1>4, <2>1, <2>5
      <3>2. stack'[22 * (n + 1) + 1 - i] = Pushed(v)[23 - i] BY <1>4, <3>1, SMTT(60)
      <3>3. CASE i \in 18 .. 22
        <4>1. Pushed(v)[23 - i] = <<ExceptionContext[i], n>>
          BY <1>1, <1>3, <3>3, PushedWords, ZenonT(60)
        <4>2. i \notin {16, 17} BY <3>3
        <4>3. ContextOf(v, n)[ExceptionContext[i]] = <<ExceptionContext[i], n>>
          BY <4>2, ContextWords
        <4> QED BY <3>2, <4>1, <4>3
      <3>4. CASE i \notin 18 .. 22
        <4>1. i = 17 /\ HasErrorCode(v) BY <2>1, <3>1, <3>4, SMTT(60)
        <4>2. Pushed(v)[6] = <<"error", v>> BY <1>1, <1>3, <4>1, PushedWords, ZenonT(60)
        <4>3. ContextOf(v, n)[ExceptionContext[17]] = <<"error", v>>
          BY <4>1, HighFields, ContextWords, ZenonT(60) DEF ErrorCodeOf
        <4>4. 23 - i = 6 BY <4>1
        <4> QED BY <3>2, <4>1, <4>2, <4>3, <4>4, Zenon
      <3> QED BY <3>3, <3>4
    <2>6. ASSUME NEW k \in 1 .. depth', NEW i \in 1 .. 22, 22 * k + 1 - i <= Len(stack')
          PROVE  stack'[22 * k + 1 - i] = Context(k)'[ExceptionContext[i]]
      <3>1. CASE k \in 1 .. n BY <2>4, <3>1, ZenonT(60)
      <3>2. CASE k = n + 1 BY <1>10, <2>5, <2>6, <3>2, ZenonT(60)
      <3> QED BY <1>11, <3>1, <3>2
    <2> QED BY <2>2, <2>3, <2>6 DEF Layout
  <1>15. Contexts'
    <2>1. \A k \in 2 .. depth' : k - 1 \in 1 .. n /\ (k \in 2 .. n \/ k = n + 1)
      BY <1>3
    <2>2. n > 0 => ctx = Context(n) /\ n \in 1 .. n
      BY <1>1, <1>3 DEF TrapInv, Contexts
    <2>3. n > 0 => ctx' = Context(n)' BY <1>5, <1>9, <2>2
    <2>4. ASSUME NEW k \in 2 .. depth' PROVE saved'[k].ctx = Context(k - 1)'
      <3>1. CASE k \in 2 .. n
        <4>1. k \in 2 .. depth /\ k \in 1 .. n BY <1>3, <3>1
        <4>2. saved[k].ctx = Context(k - 1) BY <1>1, <4>1 DEF TrapInv, Contexts
        <4> QED BY <1>3, <1>9, <2>1, <4>1, <4>2
      <3>2. CASE k = n + 1
        <4>1. n > 0 /\ k - 1 = n BY <1>3, <2>1, <3>2
        <4> QED BY <1>3, <1>6, <1>9, <2>2, <3>2, <4>1
      <3> QED BY <2>1, <3>1, <3>2
    <2>5. (Running > 0 => ctx = Context(Running))' BY <1>7, <2>3 DEF Context
    <2> QED BY <2>4, <2>5 DEF Contexts
  <1>16. Nesting'
    <2>1. ASSUME NEW k \in 1 .. depth'
          PROVE  /\ saved'[k].phase = "code" <=> k = 1
                 /\ saved'[k].phase \in {"code", "dispatch", "handler", "leave"}
                 /\ saved'[k].phase = "handler" => HANDLER_SET'
                 /\ saved'[k].vec >= 32 => k = 1 /\ HANDLER_SET'
      <3>1. CASE k \in 1 .. n
        BY <1>1, <1>3, <1>5, <3>1, SMTT(60) DEF TrapInv, Nesting
      <3>2. CASE k = n + 1
        <4>1. phase = "code" <=> depth = 0 BY <1>1 DEF TrapInv, Types
        <4>2. phase = "handler" => HANDLER_SET BY <1>1 DEF TrapInv, Handling
        <4> QED BY <1>3, <1>5, <1>6, <3>2, <4>1, <4>2
      <3> QED BY <1>11, <3>1, <3>2
    <2> QED BY <1>3, <1>5, <1>6, <2>1 DEF Nesting
  <1>17. Handling'
    <2>1. isr' # 0 => saved'[1].vec >= 32
      <3>1. CASE v >= 32
        <4>1. depth = 0 BY <1>1, <1>5, <3>1 DEF TrapInv, Types
        <4> QED BY <1>3, <1>6, <3>1, <4>1
      <3>2. CASE ~(v >= 32)
        <4>1. isr # 0 => depth # 0 /\ saved[1].vec >= 32
          BY <1>1 DEF TrapInv, Handling, Types
        <4> QED BY <1>3, <1>5, <3>2, <4>1
      <3> QED BY <3>1, <3>2
    <2> QED BY <1>3, <1>5, <1>6, <2>1, ZenonT(60) DEF Handling
  <1>18. FrameDescribesTrap' BY <1>5 DEF FrameDescribesTrap
  <1> QED BY <1>12, <1>13, <1>14, <1>15, <1>16, <1>17, <1>18 DEF TInv, TrapInv

\* The words that a stub pushes are the other fields of the context.
LEMMA StackByStub ==
  ASSUME TrapInv, stub, NEW n \in Nat, n = depth, NEW v, v = vec
  PROVE  /\ n > 0 /\ v = saved[n].vec /\ v \in 0 .. 255
         /\ stack' \in Seq(Word) /\ Len(stack') = 22 * n
         /\ Len(stack) <= 22 * n - 16
         /\ \A m \in 1 .. Len(stack) : stack'[m] = stack[m]
         /\ \A i \in 1 .. 22 : stack'[22 * n + 1 - i] = ContextOf(v, n - 1)[ExceptionContext[i]]
  <1> DEFINE X == IF ISR_ERR(v) THEN <<>> ELSE <<<<"zero", 0>>>>
             V == <<<<"vector", v>>>>
             R == [i \in 1 .. 15 |-> regs[PUSH_GPRS[i]]]
             a == stack \o X
             b == a \o V
  <1>1. phase = "stub" BY DEF stub
  <1>2. n > 0 /\ v = saved[n].vec /\ v \in 0 .. 255
    BY <1>1 DEF TrapInv, Types, Nesting
  <1>3. Running = n - 1 /\ Missing = IF HasErrorCode(v) THEN 16 ELSE 17
    BY <1>1 DEF Running, Missing
  <1>4. stack \in Seq(Word) /\ Len(stack) = 22 * n - Missing
    BY DEF TrapInv, Types, Layout
  <1>5. ASSUME NEW i \in 1 .. 22, 22 * n + 1 - i <= Len(stack)
        PROVE  stack[22 * n + 1 - i] = ContextOf(v, n - 1)[ExceptionContext[i]]
    <2>1. n \in 1 .. depth BY <1>2
    <2> QED BY <1>2, <1>5, <2>1, Zenon DEF TrapInv, Layout, Context
  <1>6. stack' = b \o R BY Lengths DEF stub
  <1>7. X \in Seq(Word) /\ Len(X) = IF HasErrorCode(v) THEN 0 ELSE 1
    <2>1. CASE HasErrorCode(v) BY <2>1 DEF HasErrorCode, ISR_ERR
    <2>2. CASE ~HasErrorCode(v) BY <2>2 DEF HasErrorCode, ISR_ERR, Word
    <2> QED BY <2>1, <2>2
  <1>8. ~HasErrorCode(v) => X[1] = <<"zero", 0>>
    BY DEF HasErrorCode, ISR_ERR
  <1>9. V \in Seq(Word) /\ Len(V) = 1 /\ V[1] = <<"vector", v>>
    <2>1. "vector" \in Fields BY HighFields, FieldIndex
    <2> QED BY <1>2, <2>1 DEF Word
  <1>10. R \in Seq(Word) /\ Len(R) = 15
    <2>1. regs \in [GPR -> Word] BY <1>2, <1>3, RegisterTypes DEF TrapInv, Registers
    <2>2. \A i \in 1 .. 15 : regs[PUSH_GPRS[i]] \in Word BY <2>1, FieldIndex
    <2> QED BY <2>2, IsASeq, LenProperties
  <1>11. \A i \in 1 .. 15 : R[i] = <<PUSH_GPRS[i], n - 1>>
    BY <1>3, FieldIndex DEF TrapInv, Registers, RegsOf
  <1> HIDE DEF X, V, R
  <1>12. stack \in Seq(Word) /\ X \in Seq(Word) /\ a = stack \o X BY <1>4, <1>7
  <1>13. V \in Seq(Word) /\ b = a \o V BY <1>9
  <1>14. R \in Seq(Word) /\ stack' = b \o R BY <1>6, <1>10
  <1> HIDE DEF a, b
  <1>15. /\ a \in Seq(Word) /\ Len(a) = Len(stack) + Len(X)
         /\ \A m \in 1 .. Len(stack) : a[m] = stack[m]
         /\ \A m \in 1 .. Len(X) : a[Len(stack) + m] = X[m]
    BY <1>12, Concat
  <1>16. a \in Seq(Word) BY <1>15
  <1>17. /\ b \in Seq(Word) /\ Len(b) = Len(a) + Len(V)
         /\ \A m \in 1 .. Len(a) : b[m] = a[m]
         /\ \A m \in 1 .. Len(V) : b[Len(a) + m] = V[m]
    BY <1>13, <1>16, Concat
  <1>18. b \in Seq(Word) BY <1>17
  <1>19. /\ stack' \in Seq(Word) /\ Len(stack') = Len(b) + Len(R)
         /\ \A m \in 1 .. Len(b) : stack'[m] = b[m]
         /\ \A m \in 1 .. Len(R) : stack'[Len(b) + m] = R[m]
    BY <1>14, <1>18, Concat
  <1>20. Len(a) = 22 * n - 16 /\ Len(b) = 22 * n - 15 /\ Len(stack') = 22 * n
    BY <1>3, <1>4, <1>7, <1>9, <1>10, <1>15, <1>17, <1>19, SMTT(60)
  <1>21. \A m \in 1 .. Len(stack) : stack'[m] = stack[m]
    <2>1. \A m \in 1 .. Len(stack) : m \in 1 .. Len(a) /\ m \in 1 .. Len(b)
      BY <1>2, <1>3, <1>4, <1>20
    <2> QED BY <1>15, <1>17, <1>19, <2>1, Zenon
  <1>22. ASSUME NEW i \in 1 .. 22
         PROVE  stack'[22 * n + 1 - i] = ContextOf(v, n - 1)[ExceptionContext[i]]
    <2>1. CASE 22 * n + 1 - i <= Len(stack)
      <3>1. n > 0 BY <1>2
      <3>2. Len(stack) \in Nat BY <1>4, LenProperties
      <3>3. 22 * n + 1 - i \in 1 .. Len(stack) BY <2>1, <3>1, <3>2
      <3> QED BY <1>5, <1>21, <2>1, <3>3, ZenonT(60)
    <2>2. CASE i = 17 /\ ~(22 * n + 1 - i <= Len(stack))
      <3>1. ~HasErrorCode(v) /\ Len(stack) = 22 * n - 17 BY <1>2, <1>3, <1>4, <2>2
      <3>2. 22 * n + 1 - i = Len(stack) + 1 /\ 22 * n + 1 - i \in 1 .. Len(a)
            /\ 22 * n + 1 - i \in 1 .. Len(b) /\ 1 \in 1 .. Len(X)
        BY <1>2, <1>7, <1>20, <2>2, <3>1
      <3>3. stack'[22 * n + 1 - i] = a[22 * n + 1 - i] BY <1>17, <1>19, <3>2, SMTT(60)
      <3>4. a[22 * n + 1 - i] = X[1] BY <1>15, <3>2, ZenonT(60)
      <3>5. ErrorCodeOf(v) = <<"zero", 0>> BY <3>1 DEF ErrorCodeOf
      <3>6. ContextOf(v, n - 1)[ExceptionContext[17]] = <<"zero", 0>>
        BY <3>5, HighFields, ContextWords
      <3> QED BY <1>8, <2>2, <3>1, <3>3, <3>4, <3>6
    <2>3. CASE i = 16
      <3>1. 22 * n + 1 - i = Len(a) + 1 /\ 22 * n + 1 - i \in 1 .. Len(b) /\ 1 \in 1 .. Len(V)
        BY <1>2, <1>9, <1>20, <2>3
      <3>2. stack'[22 * n + 1 - i] = <<"vector", v>>
        BY <1>9, <1>17, <1>19, <3>1, ZenonT(60)
      <3> QED BY <2>3, <3>2, HighFields, ContextWords
    <2>4. CASE i \in 1 .. 15
      <3>1. 22 * n + 1 - i = Len(b) + (16 - i) /\ 16 - i \in 1 .. 15
        BY <1>2, <1>20, <2>4
      <3>2. stack'[22 * n + 1 - i] = R[16 - i] BY <1>10, <1>19, <3>1, ZenonT(60)
      <3>3. R[16 - i] = <<ExceptionContext[i], n - 1>> BY <1>11, <2>4, <3>1, OppositeOrders, ZenonT(60)
      <3>4. i \notin {16, 17} BY <2>4
      <3> QED BY <3>2, <3>3, <3>4, ContextWords
    <2>5. \/ 22 * n + 1 - i <= Len(stack) \/ i = 16 \/ i \in 1 .. 15
          \/ i = 17 /\ ~(22 * n + 1 - i <= Len(stack))
      BY <1>2, <1>3, <1>4
    <2> QED BY <2>1, <2>2, <2>3, <2>4, <2>5
  <1>23. Len(stack) <= 22 * n - 16 BY <1>2, <1>3, <1>4
  <1> QED BY <1>2, <1>19, <1>20, <1>21, <1>22, <1>23, ZenonT(60)

\* The context pointer of a new dispatcher shows the trap that its stub is for.
LEMMA ViewIsContext ==
  ASSUME NEW s, NEW v, NEW d,
         \A i \in 1 .. 22 : FromTop(s, i) = ContextOf(v, d)[ExceptionContext[i]]
  PROVE  View(s) = ContextOf(v, d)
  <1>1. ASSUME NEW f \in Fields PROVE View(s)[f] = ContextOf(v, d)[f]
    <2>1. PICK i \in 1 .. 22 : f = ExceptionContext[i] BY FieldIndex
    <2> QED BY <2>1, ViewWord, Zenon
  <1>2. View(s) = [f \in Fields |-> View(s)[f]] BY DEF View, Fields
  <1>3. ContextOf(v, d) = [f \in Fields |-> ContextOf(v, d)[f]] BY DEF ContextOf
  <1> QED BY <1>1, <1>2, <1>3, Zenon

\* Its words have their types.
LEMMA ContextType ==
  ASSUME NEW v \in 0 .. 255, NEW d \in Nat
  PROVE  ContextOf(v, d) \in [Fields -> Word]
  <1>1. "vector" \in Fields BY HighFields, FieldIndex
  <1>2. <<"vector", v>> \in Word BY <1>1 DEF Word
  <1>3. ErrorCodeOf(v) \in Word BY DEF ErrorCodeOf, Word
  <1>4. \A f \in Fields : <<f, d>> \in Word BY DEF Word
  <1> HIDE DEF Word
  <1> QED BY <1>2, <1>3, <1>4 DEF ContextOf

\* The stub completes the context.
LEMMA StubInv == TInv /\ stub => TInv'
  <1> SUFFICES ASSUME TInv, stub PROVE TInv' OBVIOUS
  <1>1. TrapInv BY DEF TInv
  <1>2. PICK n \in Nat : n = depth
    BY <1>1, LenProperties DEF TrapInv, Types, depth
  <1>3. PICK v : v = vec OBVIOUS
  <1>4. /\ n > 0 /\ v = saved[n].vec /\ v \in 0 .. 255
        /\ stack' \in Seq(Word) /\ Len(stack') = 22 * n
        /\ Len(stack) <= 22 * n - 16
        /\ \A m \in 1 .. Len(stack) : stack'[m] = stack[m]
        /\ \A i \in 1 .. 22 : stack'[22 * n + 1 - i] = ContextOf(v, n - 1)[ExceptionContext[i]]
    BY <1>1, <1>2, <1>3, StackByStub
  <1>5. /\ phase = "stub" /\ phase' = "dispatch" /\ ctx' = View(stack')
        /\ regs' = [r \in GPR |-> <<r, n>>] /\ rip' = <<"rip", n>>
        /\ UNCHANGED <<vec, frame, HANDLER_SET, cr2, isr, saved>>
    BY <1>2 DEF stub
  <1>6. depth' = n BY <1>2, <1>5 DEF depth
  <1>7. Running' = n /\ Missing' = 0 BY <1>5, <1>6 DEF Running, Missing
  <1>8. \A k : Context(k)' = Context(k) BY <1>5, SMTT(60) DEF Context
  <1>9. ctx' = Context(n)
    <2>1. \A i \in 1 .. 22 : FromTop(stack', i) = ContextOf(v, n - 1)[ExceptionContext[i]]
      BY <1>4, ZenonT(60) DEF FromTop
    <2>2. View(stack') = ContextOf(v, n - 1) BY <2>1, ViewIsContext, Zenon
    <2> QED BY <1>4, <1>5, <2>2 DEF Context
  <1>10. Types'
    <2>1. ctx' \in [Fields -> Word]
      <3>1. n - 1 \in Nat /\ v \in 0 .. 255
        <4>1. n > 0 /\ v \in 0 .. 255 BY <1>4, Zenon
        <4> QED BY <4>1
      <3>2. ContextOf(v, n - 1) \in [Fields -> Word] BY <3>1, ContextType, ZenonT(60)
      <3> QED BY <1>4, <1>9, <3>2 DEF Context
    <2>2. (ctx \in UNION {[D -> Word] : D \in {{}, Fields}})' BY <2>1, Zenon
    <2> QED BY <1>1, <1>2, <1>4, <1>5, <1>6, <2>2 DEF TrapInv, Types, Phase
  <1>11. Registers'
    BY <1>1, <1>2, <1>5, <1>6, <1>7 DEF TrapInv, Registers, RegsOf, RipOf
  <1>12. Layout'
    <2>1. ASSUME NEW k \in 1 .. n, NEW i \in 1 .. 22
          PROVE  stack'[22 * k + 1 - i] = Context(k)[ExceptionContext[i]]
      <3>1. CASE k = n BY <1>4, <3>1, ZenonT(60) DEF Context
      <3>2. CASE k # n
        <4>1. k <= n - 1 BY <3>2
        <4>2. Len(stack) >= 22 * (n - 1)
          BY <1>1, <1>2, <1>5 DEF TrapInv, Layout, Missing
        <4>3. 22 * k + 1 - i \in 1 .. Len(stack) /\ 22 * k + 1 - i <= Len(stack)
          <5>1. Len(stack) \in Nat BY <1>1, LenProperties DEF TrapInv, Types
          <5> QED BY <4>1, <4>2, <5>1
        <4>4. k \in 1 .. depth BY <1>2
        <4>5. stack[22 * k + 1 - i] = Context(k)[ExceptionContext[i]]
          BY <1>1, <4>3, <4>4, Zenon DEF TrapInv, Layout
        <4> QED BY <1>4, <4>3, <4>5, ZenonT(60)
      <3> QED BY <3>1, <3>2
    <2>2. Len(stack') = 22 * depth' - Missing' BY <1>4, <1>6, <1>7
    <2>3. \A k \in 1 .. n : saved'[k].height = 22 * (k - 1)
      BY <1>1, <1>2, <1>5 DEF TrapInv, Layout
    <2> QED BY <1>6, <1>8, <2>1, <2>2, <2>3, ZenonT(60) DEF Layout
  <1>13. Contexts'
    <2>1. (Running > 0 => ctx = Context(Running))' BY <1>5, <1>7, <1>9 DEF Context
    <2>2. \A k \in 2 .. n : saved'[k].ctx = Context(k - 1)'
      BY <1>1, <1>2, <1>5, <1>8 DEF TrapInv, Contexts
    <2> QED BY <1>6, <2>1, <2>2 DEF Contexts
  <1>14. Nesting' BY <1>1, <1>2, <1>5, <1>6 DEF TrapInv, Nesting
  <1>15. Handling' BY <1>1, <1>2, <1>5, <1>6 DEF TrapInv, Handling
  <1>16. FrameDescribesTrap' BY <1>5 DEF FrameDescribesTrap
  <1> QED BY <1>10, <1>11, <1>12, <1>13, <1>14, <1>15, <1>16 DEF TInv, TrapInv

\* The first m elements of a sequence.
LEMMA FirstElements ==
  ASSUME NEW S, NEW s \in Seq(S), NEW m \in 0 .. Len(s), NEW c, c = SubSeq(s, 1, m)
  PROVE  c \in Seq(S) /\ Len(c) = m /\ \A j \in 1 .. m : c[j] = s[j]
  <1>1. Len(s) \in Nat BY LenProperties
  <1>2. c = [j \in 1 .. m |-> s[j]]
    BY <1>1 DEF SubSeq
  <1>3. \A j \in 1 .. m : s[j] \in S BY <1>1, ElementOfSeq
  <1> QED BY <1>1, <1>2, <1>3, IsASeq, LenProperties

\* A return pops what the stub and the CPU pushed.
LEMMA ReturnPops ==
  ASSUME TrapInv, return, NEW n \in Nat, n = depth
  PROVE  /\ n > 0
         /\ regs' = RegsOf(n - 1) /\ rip' = RipOf(n - 1)
         /\ stack' \in Seq(Word) /\ Len(stack') = 22 * (n - 1)
         /\ \A m \in 1 .. 22 * (n - 1) : stack'[m] = stack[m]
  <1> DEFINE below == Drop(stack, Len(POP_GPRS) + 2)
  <1>1. n > 0 /\ phase = "leave" /\ Missing = 0
    BY DEF TrapInv, Types, return, Missing
  <1>2. stack \in Seq(Word) /\ Len(stack) = 22 * n
    BY <1>1 DEF TrapInv, Types, Layout
  <1>3. ASSUME NEW i \in 1 .. 22
        PROVE  stack[22 * n + 1 - i] = ContextOf(saved[n].vec, n - 1)[ExceptionContext[i]]
    <2>1. n \in 1 .. depth /\ 22 * n + 1 - i <= Len(stack) BY <1>1, <1>2
    <2> QED BY <2>1, Zenon DEF TrapInv, Layout, Context
  <1>4. ASSUME NEW r \in GPR
        PROVE  FromTop(stack, CHOOSE i \in 1 .. Len(POP_GPRS) : POP_GPRS[i] = r) = <<r, n - 1>>
    <2>1. PICK j \in 1 .. 15 : r = PUSH_GPRS[j] BY FieldIndex
    <2>2. 16 - j \in 1 .. 15 /\ 16 - (16 - j) = j OBVIOUS
    <2>3. PICK i \in 1 .. 15 : r = ExceptionContext[i] BY <2>1, <2>2, OppositeOrders
    <2>4. (CHOOSE k \in 1 .. Len(POP_GPRS) : POP_GPRS[k] = r) = i BY <2>3, PopPlace, ZenonT(60)
    <2>5. FromTop(stack, i) = <<r, n - 1>>
      <3>1. i \in 1 .. 22 /\ i \notin {16, 17} OBVIOUS
      <3>2. ContextOf(saved[n].vec, n - 1)[ExceptionContext[i]] = <<ExceptionContext[i], n - 1>>
        BY <3>1, ContextWords
      <3> QED BY <1>2, <1>3, <2>3, <3>1, <3>2, ZenonT(60) DEF FromTop
    <2> QED BY <2>4, <2>5, ZenonT(60)
  <1>5. regs' = RegsOf(n - 1)
    BY <1>4 DEF return, RegsOf
  <1>6. below = SubSeq(stack, 1, 22 * n - 17) BY <1>2, Lengths DEF Drop
  <1>7. 22 * n - 17 \in 0 .. Len(stack) BY <1>1, <1>2
  <1> HIDE DEF below
  <1>8. /\ below \in Seq(Word) /\ Len(below) = 22 * n - 17
        /\ \A j \in 1 .. 22 * n - 17 : below[j] = stack[j]
    BY <1>2, <1>6, <1>7, FirstElements, SMTT(60)
  <1>9. rip' = RipOf(n - 1)
    <2>1. rip' = below[22 * n - 17] BY <1>8 DEF return, below, FromTop
    <2>2. 22 * n - 17 \in 1 .. 22 * n - 17 /\ 22 * n + 1 - 18 = 22 * n - 17 BY <1>1
    <2>3. below[22 * n - 17] = stack[22 * n + 1 - 18] BY <1>8, <2>2
    <2>4. stack[22 * n + 1 - 18] = <<"rip", n - 1>>
      <3>1. 18 \in 1 .. 22 OBVIOUS
      <3>2. stack[22 * n + 1 - 18] = ContextOf(saved[n].vec, n - 1)["rip"]
        BY <1>3, <3>1, HighFields, Zenon
      <3> QED BY <3>2, ContextWords
    <2> QED BY <2>1, <2>3, <2>4 DEF RipOf
  <1>10. stack' = SubSeq(below, 1, 22 * (n - 1))
    <2>1. stack' = SubSeq(below, 1, Len(below) - 5) BY DEF return, below, Drop
    <2>2. Len(below) - 5 = 22 * (n - 1) BY <1>8
    <2> QED BY <2>1, <2>2
  <1>11. /\ stack' \in Seq(Word) /\ Len(stack') = 22 * (n - 1)
         /\ \A j \in 1 .. 22 * (n - 1) : stack'[j] = below[j]
    <2>1. 22 * (n - 1) \in 0 .. Len(below) /\ below \in Seq(Word) BY <1>1, <1>8
    <2> QED BY <1>10, <2>1, FirstElements
  <1>12. \A m \in 1 .. 22 * (n - 1) : stack'[m] = stack[m]
    <2>1. \A m \in 1 .. 22 * (n - 1) : m \in 1 .. 22 * n - 17 OBVIOUS
    <2> QED BY <1>8, <1>11, <2>1
  <1> QED BY <1>1, <1>5, <1>9, <1>11, <1>12

\* A return goes back to the trap below, or to the main code.
LEMMA ReturnInv == TInv /\ return => TInv'
  <1> SUFFICES ASSUME TInv, return PROVE TInv' OBVIOUS
  <1>1. TrapInv BY DEF TInv
  <1>2. PICK n \in Nat : n = depth
    BY <1>1, LenProperties DEF TrapInv, Types, depth
  <1>3. n > 0 BY <1>1, <1>2, ReturnPops
  <1>4. /\ regs' = RegsOf(n - 1) /\ rip' = RipOf(n - 1)
        /\ stack' \in Seq(Word) /\ Len(stack') = 22 * (n - 1)
        /\ \A m \in 1 .. 22 * (n - 1) : stack'[m] = stack[m]
    BY <1>1, <1>2, ReturnPops
  <1>5. /\ phase = "leave" /\ phase' = saved[n].phase /\ ctx' = saved[n].ctx
        /\ saved' = SubSeq(saved, 1, n - 1)
        /\ UNCHANGED <<vec, frame, HANDLER_SET, cr2, isr>>
    BY <1>2 DEF return, Drop, depth
  <1>6. saved' \in Seq(Interrupted) /\ Len(saved') = n - 1
        /\ \A k \in 1 .. n - 1 : saved'[k] = saved[k]
    <2>1. saved \in Seq(Interrupted) /\ n - 1 \in 0 .. Len(saved)
      BY <1>1, <1>2, <1>3 DEF TrapInv, Types, depth
    <2> QED BY <1>5, <2>1, FirstElements
  <1>7. depth' = n - 1 BY <1>6 DEF depth
  <1>8. /\ saved[n] \in Interrupted /\ n \in 1 .. depth
        /\ saved[n].phase = "code" <=> n = 1
        /\ saved[n].phase \in {"code", "dispatch", "handler", "leave"}
        /\ saved[n].phase = "handler" => HANDLER_SET
        /\ saved[n].vec >= 32 => n = 1 /\ HANDLER_SET
    <2>1. n \in 1 .. depth BY <1>2, <1>3
    <2>2. saved[n] \in Interrupted BY <1>1, <2>1, ElementOfSeq DEF TrapInv, Types, depth
    <2> QED BY <1>1, <2>1, <2>2 DEF TrapInv, Nesting
  <1>9. HANDLER_SET => n = 1 /\ isr = 0 /\ phase' = "code"
    BY <1>1, <1>2, <1>5, <1>8 DEF TrapInv, Handling
  <1>10. n = 1 => isr = 0
    BY <1>1, <1>8, <1>9 DEF TrapInv, Handling
  <1>11. Running' = n - 1 /\ Missing' = 0 BY <1>5, <1>7, <1>8 DEF Running, Missing
  <1>12. \A k \in 1 .. n - 1 : Context(k)' = Context(k) BY <1>6 DEF Context
  <1>13. Types'
    <2>1. phase' \in Phase /\ (phase' = "code" <=> depth' = 0)
      BY <1>3, <1>5, <1>7, <1>8 DEF Phase
    <2>2. (ctx \in UNION {[D -> Word] : D \in {{}, Fields}})'
      <3>1. saved[n].ctx \in UNION {[D -> Word] : D \in {{}, Fields}}
        BY <1>8 DEF Interrupted
      <3> QED BY <1>5, <3>1
    <2>3. depth' <= MaxDepth
      <3>1. n <= MaxDepth BY <1>1, <1>2 DEF TrapInv, Types
      <3> QED BY <1>7, <3>1, TrapAssumption
    <2>4. vec' \in 0 .. 255 /\ HANDLER_SET' \in BOOLEAN /\ cr2' \in 0 .. MaxDepth
          /\ isr' \in Vectors \cup {0}
      BY <1>1, <1>5 DEF TrapInv, Types
    <2> QED BY <1>4, <1>6, <2>1, <2>2, <2>3, <2>4 DEF Types
  <1>14. Registers'
    <2>1. \A k \in 1 .. n - 1 : k \in 1 .. depth BY <1>2
    <2>2. \A k \in 1 .. n - 1 : saved'[k].regs = RegsOf(k - 1) /\ saved'[k].rip = RipOf(k - 1)
      BY <1>1, <1>6, <2>1, SMTT(60) DEF TrapInv, Registers
    <2> QED BY <1>4, <1>7, <1>11, <2>2 DEF Registers, RegsOf, RipOf
  <1>15. Layout'
    <2>1. \A k \in 1 .. n - 1 : k \in 1 .. depth BY <1>2
    <2>2. ASSUME NEW k \in 1 .. n - 1, NEW i \in 1 .. 22
          PROVE  stack'[22 * k + 1 - i] = Context(k)'[ExceptionContext[i]]
      <3>1. Len(stack) = 22 * n BY <1>1, <1>2, <1>5 DEF TrapInv, Layout, Missing
      <3>2. 22 * k + 1 - i \in 1 .. 22 * (n - 1) /\ 22 * k + 1 - i <= Len(stack)
        BY <3>1
      <3>3. stack[22 * k + 1 - i] = Context(k)[ExceptionContext[i]]
        BY <1>1, <2>1, <3>2, Zenon DEF TrapInv, Layout
      <3> QED BY <1>4, <1>12, <3>2, <3>3
    <2>3. \A k \in 1 .. n - 1 : saved'[k].height = 22 * (k - 1)
      BY <1>1, <1>6, <2>1, ZenonT(60) DEF TrapInv, Layout
    <2>4. Len(stack') = 22 * depth' - Missing' BY <1>3, <1>4, <1>7, <1>11
    <2> QED BY <1>7, <2>2, <2>3, <2>4 DEF Layout
  <1>16. Contexts'
    <2>1. n - 1 > 0 => ctx' = Context(n - 1)'
      <3>1. n - 1 > 0 => n \in 2 .. depth /\ n - 1 \in 1 .. n - 1 BY <1>2
      <3>2. n - 1 > 0 => saved[n].ctx = Context(n - 1) BY <1>1, <3>1 DEF TrapInv, Contexts
      <3> QED BY <1>5, <1>12, <3>1, <3>2
    <2>2. (Running > 0 => ctx = Context(Running))' BY <1>11, <2>1 DEF Context
    <2>3. ASSUME NEW k \in 2 .. n - 1 PROVE saved'[k].ctx = Context(k - 1)'
      <3>1. k \in 2 .. depth /\ k \in 1 .. n - 1 /\ k - 1 \in 1 .. n - 1 BY <1>2
      <3>2. saved[k].ctx = Context(k - 1) BY <1>1, <3>1 DEF TrapInv, Contexts
      <3> QED BY <1>6, <1>12, <3>1, <3>2
    <2> QED BY <1>7, <2>2, <2>3 DEF Contexts
  <1>17. Nesting'
    <2>1. \A k \in 1 .. n - 1 : k \in 1 .. depth BY <1>2
    <2>2. phase' # "stub" BY <1>5, <1>8
    <2> QED BY <1>1, <1>5, <1>6, <1>7, <2>1, <2>2 DEF TrapInv, Nesting
  <1>18. Handling'
    <2>1. isr # 0 => n # 1 /\ saved[1].vec >= 32 BY <1>1, <1>10 DEF TrapInv, Handling
    <2>2. n # 1 => 1 \in 1 .. n - 1 BY <1>3
    <2>3. isr' # 0 => saved'[1].vec >= 32 BY <1>5, <1>6, <2>1, <2>2
    <2>4. phase' # "panic" /\ phase' # "stub" BY <1>5, <1>8
    <2> QED BY <1>5, <1>8, <1>9, <1>10, <2>3, <2>4 DEF Handling
  <1>19. FrameDescribesTrap'
    BY <1>5, <1>8, <1>9 DEF FrameDescribesTrap
  <1> QED BY <1>13, <1>14, <1>15, <1>16, <1>17, <1>18, <1>19 DEF TInv, TrapInv

-----------------------------------------------------------------------------
\* Every step keeps the invariant.
LEMMA NextInv == TInv /\ [Next]_vars => TInv'
  <1> SUFFICES ASSUME TInv, [Next]_vars PROVE TInv' OBVIOUS
  <1>1. CASE register_handler BY <1>1, RegisterHandlerInv
  <1>2. CASE \E v \in Vectors : Deliver(v) BY <1>2, DeliverInv
  <1>3. CASE stub BY <1>3, StubInv
  <1>4. CASE exception_dispatch BY <1>4, ExceptionDispatchInv
  <1>5. CASE irq_dispatch BY <1>5, IrqDispatchInv
  <1>6. CASE on_interrupt BY <1>6, OnInterruptInv
  <1>7. CASE return BY <1>7, ReturnInv
  <1>8. CASE UNCHANGED vars
    <2>1. UNCHANGED <<regs, rip, stack, phase, vec, ctx, frame, HANDLER_SET, cr2, isr, saved>>
      BY <1>8 DEF vars
    <2>2. UNCHANGED <<depth, Running, Missing>> BY <2>1 DEF depth, Running, Missing
    <2>3. \A k : Context(k)' = Context(k) BY <2>1 DEF Context
    <2>4. Types' /\ Registers' BY <2>1, <2>2, SMTT(60) DEF TInv, TrapInv, Types, Registers
    <2>5. Layout' BY <2>1, <2>2, <2>3, ZenonT(60) DEF TInv, TrapInv, Layout
    <2>6. Contexts' BY <2>1, <2>2, <2>3 DEF TInv, TrapInv, Contexts
    <2>7. Nesting' /\ Handling' BY <2>1, <2>2 DEF TInv, TrapInv, Nesting, Handling
    <2>8. FrameDescribesTrap' BY <2>1, <2>2 DEF TInv, FrameDescribesTrap
    <2> QED BY <2>4, <2>5, <2>6, <2>7, <2>8 DEF TInv, TrapInv
  <1>9. CASE halt BY <1>8, <1>9 DEF halt
  <1> QED BY <1>1, <1>2, <1>3, <1>4, <1>5, <1>6, <1>7, <1>8, <1>9 DEF Next

\* The invariant holds in every state.
LEMMA InvHolds == Spec => []TInv
  BY InitInv, NextInv, PTL DEF Spec

\* The variables keep their types and every trap takes 22 words, for every set of vectors
\* and every depth.
THEOREM TypesKept == Spec => []TypeOK
  <1>1. TInv => TypeOK
    <2> SUFFICES ASSUME TInv PROVE TypeOK OBVIOUS
    <2>1. TrapInv BY DEF TInv
    <2>2. depth \in Nat BY <2>1, LenProperties DEF TrapInv, Types, depth
    <2>3. Running \in 0 .. MaxDepth
      <3>1. phase = "stub" => depth # 0 BY <2>1 DEF TrapInv, Types
      <3>2. depth <= MaxDepth BY <2>1 DEF TrapInv, Types
      <3> QED BY <2>2, <3>1, <3>2, TrapAssumption DEF Running
    <2>4. regs \in [GPR -> GPR \X (0 .. MaxDepth)] /\ rip \in {"rip"} \X (0 .. MaxDepth)
      BY <2>1, <2>3 DEF TrapInv, Registers, RegsOf, RipOf
    <2>5. phase # "stub" => Len(stack) = Len(ExceptionContext) * depth
      BY <2>1, <2>2, Lengths DEF TrapInv, Layout, Missing
    <2> QED BY <2>1, <2>4, <2>5 DEF TrapInv, Types, TypeOK, Phase
  <1> QED BY <1>1, InvHolds, PTL

\* The dispatchers see the trap that they were called for: PUSH_GPRS, the words of the CPU
\* and the declaration of ExceptionContext agree, and a nested trap leaves all of them as
\* they were.
THEOREM ContextTheorem == Spec => []ContextDescribesTrap
  <1>1. TInv => ContextDescribesTrap
    <2> SUFFICES ASSUME TInv, phase \in {"dispatch", "handler", "leave"}
                 PROVE  ContextDescribesTrap
      BY DEF ContextDescribesTrap
    <2>1. TrapInv BY DEF TInv
    <2>2. depth \in Nat /\ depth > 0 /\ ctx = ContextOf(saved[depth].vec, depth - 1)
      BY <2>1, DispatcherContext DEF Context
    <2>3. saved[depth].regs = RegsOf(depth - 1) /\ saved[depth].rip = RipOf(depth - 1)
      BY <2>1, <2>2 DEF TrapInv, Registers
    <2>4. /\ ctx.vector = <<"vector", saved[depth].vec>>
          /\ ctx.error_code = ErrorCodeOf(saved[depth].vec)
          /\ ctx.rip = RipOf(depth - 1)
          /\ \A r \in GPR : ctx[r] = <<r, depth - 1>>
      BY <2>2, ContextWords DEF RipOf
    <2>5. \A r \in GPR : saved[depth].regs[r] = <<r, depth - 1>>
      BY <2>3 DEF RegsOf
    <2> QED BY <2>3, <2>4, <2>5 DEF ContextDescribesTrap
  <1> QED BY <1>1, InvHolds, PTL

\* The handler is told the trap that it was called for, with its own fault address,
\* because an exception that interrupts a dispatcher with a handler in place never returns.
THEOREM FrameTheorem == Spec => []FrameDescribesTrap
  <1>1. TInv => FrameDescribesTrap BY DEF TInv
  <1> QED BY <1>1, InvHolds, PTL

\* A return resumes exactly what was interrupted.
THEOREM ResumesTheorem == Spec => ResumesExactly
  <1> DEFINE Resumes ==
        Len(saved') < depth =>
          LET trap == saved[depth]
          IN  /\ regs' = trap.regs /\ rip' = trap.rip /\ Len(stack') = trap.height
              /\ phase' = "code" => isr' = 0
  <1>1. TInv /\ TInv' /\ [Next]_vars => [Resumes]_vars
    <2> SUFFICES ASSUME TInv, TInv', [Next]_vars, Len(saved') < depth PROVE Resumes
      OBVIOUS
    <2>1. TrapInv BY DEF TInv
    <2>2. PICK n \in Nat : n = depth
      BY <2>1, LenProperties DEF TrapInv, Types, depth
    <2>3. saved' # saved BY <2>2 DEF depth
    <2>4. ~\E v \in Vectors : Deliver(v)
      <3>1. \A v \in Vectors : Deliver(v) => depth' = depth + 1 BY <2>1, SavedByDeliver, ZenonT(60)
      <3> QED BY <2>2, <3>1 DEF depth
    <2>5. return
      BY <2>3, <2>4 DEF Next, vars, register_handler, stub, exception_dispatch, irq_dispatch,
                        on_interrupt, In, halt
    <2>6. /\ n > 0 /\ regs' = RegsOf(n - 1) /\ rip' = RipOf(n - 1)
          /\ Len(stack') = 22 * (n - 1)
      BY <2>1, <2>2, <2>5, ReturnPops
    <2>7. n \in 1 .. depth BY <2>2, <2>6
    <2>8. /\ saved[n].regs = RegsOf(n - 1) /\ saved[n].rip = RipOf(n - 1)
          /\ saved[n].height = 22 * (n - 1)
      BY <2>1, <2>7, SMTT(60) DEF TrapInv, Registers, Layout
    <2>9. phase' = "code" => isr' = 0 BY DEF TInv, TrapInv, Handling
    <2> QED BY <2>2, <2>6, <2>8, <2>9
  <1>2. Spec => [][Resumes]_vars
    BY <1>1, InvHolds, PTL DEF Spec
  <1> QED BY <1>2 DEF ResumesExactly
=============================================================================
