----------------------------- MODULE Interrupts -----------------------------
(***************************************************************************)
(* Interrupts: the two 8259 controllers (kernel/pic_8259.c), the           *)
(* descriptor table (kernel/idt.c), the handlers (kernel/isr.c), the       *)
(* builtin `interrupt' and the CPU they run on.                            *)
(*                                                                         *)
(* Handlers nest on the kernel's one stack.  LOAD_INTERRUPT_STACK pushes   *)
(* the data segment and at once gives the word back (add $4, %esp): until  *)
(* RESET_INTERRUPT_STACK reads it again it lies below the stack pointer,   *)
(* where the frame of another interrupt would be written.  The calls in    *)
(* between leave it alone: the compiler keeps the stack 16-byte aligned    *)
(* and the word falls into the padding under their arguments.              *)
(***************************************************************************)
EXTENDS Integers, Sequences, FiniteSets

CONSTANTS LINES,      \* the request lines the devices use on each controller
          MAXRAISES   \* bound on the number of requests in a behaviour

ASSUME IrqAssumption ==
  /\ LINES \subseteq 0 .. 7 /\ IsFiniteSet(LINES)
  /\ MAXRAISES \in Nat

Lines == 0 .. 7

ISR_DE == 0
ISR_OF == 4
ISR_DF == 8
ISR_TM == 32
ISR_KB == 33
ISR_IRQ == 32
IRQ_TM == ISR_TM - ISR_IRQ
IRQ_KB == ISR_KB - ISR_IRQ
PIC1_OFFSET == 32

TRAP_GATE == "trap"
INT_GATE == "int"
NoGate == "none"

VARIABLES boot,     \* how far init_descriptor_tables is, then "run"
          irr,      \* per controller: requests latched and not yet accepted
          imr,      \* per controller: masked lines
          inservice,\* per controller: accepted and not yet acknowledged
          idt,      \* the gate of each vector
          iflag,    \* the interrupt flag of the CPU
          ds,       \* the data segments: "boot", "kernel" or "garbage"
          stack,    \* the handlers that are active, the innermost last
          raises    \* requests so far

picvars == <<irr, imr, inservice>>
cpuvars == <<iflag, ds, stack>>
irqvars == <<boot, picvars, idt, cpuvars, raises>>

\* What boot.s leaves: interrupts off, the loader's segments; the controllers
\* as the firmware set them up.
IInit ==
  /\ boot = "icw"
  /\ irr = [p \in 1 .. 2 |-> {}]
  /\ imr = [p \in 1 .. 2 |-> {}]
  /\ inservice = [p \in 1 .. 2 |-> {}]
  /\ idt = [v \in 0 .. 255 |-> NoGate]
  /\ iflag = FALSE
  /\ ds = "boot"
  /\ stack = <<>>
  /\ raises = 0

-----------------------------------------------------------------------------
\* A device requests an interrupt; a request that is pending absorbs it.
Raise(p, l) ==
  /\ raises < MAXRAISES
  /\ l \notin irr[p]
  /\ irr' = [irr EXCEPT ![p] = @ \cup {l}]
  /\ raises' = raises + 1
  /\ UNCHANGED <<boot, imr, inservice, idt, cpuvars>>

\* pic_8259_init: the initialisation words, which reset the controllers ...
SendICW ==
  /\ boot = "icw"
  /\ boot' = "mask"
  /\ irr' = [p \in 1 .. 2 |-> {}]
  /\ imr' = [p \in 1 .. 2 |-> {}]
  /\ inservice' = [p \in 1 .. 2 |-> {}]
  /\ UNCHANGED <<idt, cpuvars, raises>>

Port(irq) == IF irq < 8 THEN 1 ELSE 2
irq_clear_mask(m, irq) == [m EXCEPT ![Port(irq)] = @ \ {irq % 8}]

\* Variants with a fault: the lines are not all masked first, and the keyboard
\* stays masked.
MasksOpen == irq_clear_mask(irq_clear_mask(imr, IRQ_TM), IRQ_KB)
MasksKeyboard == irq_clear_mask([p \in 1 .. 2 |-> Lines], IRQ_TM)
Masks == irq_clear_mask(irq_clear_mask([p \in 1 .. 2 |-> Lines], IRQ_TM), IRQ_KB)

\* ... and the masks: everything, then not the timer and not the keyboard.
pic_8259_init ==
  /\ boot = "mask"
  /\ boot' = "gdt"
  /\ imr' = Masks
  /\ UNCHANGED <<irr, inservice, idt, cpuvars, raises>>

\* gdt_init ends with gdt_flush, which loads the kernel's data segment.
gdt_init ==
  /\ boot = "gdt"
  /\ boot' = "idt"
  /\ ds' = "kernel"
  /\ UNCHANGED <<picvars, idt, iflag, stack, raises>>

idt_set_descriptor(table, v, gate) == [table EXCEPT ![v] = gate]

Descriptors ==
  LET de == idt_set_descriptor(idt, ISR_DE, TRAP_GATE)
      of == idt_set_descriptor(de, ISR_OF, TRAP_GATE)
      df == idt_set_descriptor(of, ISR_DF, TRAP_GATE)
      timer == idt_set_descriptor(df, ISR_TM, INT_GATE)
  IN  idt_set_descriptor(timer, ISR_KB, INT_GATE)

\* The five descriptors, lidt and sti.
idt_init ==
  /\ boot = "idt"
  /\ boot' = "run"
  /\ idt' = Descriptors
  /\ iflag' = TRUE
  /\ UNCHANGED <<picvars, ds, stack, raises>>

-----------------------------------------------------------------------------
Top == stack[Len(stack)]
Advance(at) == stack' = [stack EXCEPT ![Len(stack)].at = at]

\* The word LOAD_INTERRUPT_STACK left below the stack pointer is in use.
InWindow(h) == h.at \in {"loaded", "called"}

\* The CPU enters the gate of vector v: it writes a frame at the stack pointer
\* and, through an interrupt gate, turns interrupts off.
Enter(v) ==
  /\ idt[v] # NoGate
  /\ LET below == IF stack # <<>> /\ InWindow(Top)
                  THEN [stack EXCEPT ![Len(stack)].saved = "garbage"] ELSE stack
     IN  stack' = Append(below, [vec |-> v, at |-> "entry", saved |-> "none",
                                 iflag |-> iflag, ds |-> ds])
  /\ iflag' = (iflag /\ idt[v] = TRAP_GATE)
  /\ UNCHANGED <<boot, imr, idt, ds, raises>>

\* The requests controller 1 passes on: unmasked, and no line of the same or
\* a higher priority in service.  Controller 2 hangs on line 2.
Passed == {l \in irr[1] \ imr[1] : \A s \in inservice[1] : l < s}

Deliver(l) ==
  /\ iflag /\ l \in Passed
  /\ irr' = [irr EXCEPT ![1] = @ \ {l}]
  /\ inservice' = [inservice EXCEPT ![1] = @ \cup {l}]
  /\ Enter(PIC1_OFFSET + l)

\* The builtin, given a number it implements.
interrupt(n) ==
  /\ boot = "run" /\ stack = <<>>
  /\ Enter(n)
  /\ UNCHANGED <<irr, inservice>>

\* Variant with a fault: the macro does not begin with cli.
LOAD_INTERRUPT_STACK_nocli ==
  /\ stack # <<>> /\ Top.at = "entry"
  /\ stack' = [stack EXCEPT ![Len(stack)].at = "loaded",
                            ![Len(stack)].saved = ds]
  /\ ds' = "kernel"
  /\ UNCHANGED <<boot, picvars, idt, iflag, raises>>

LOAD_INTERRUPT_STACK ==
  /\ stack # <<>> /\ Top.at = "entry"
  /\ iflag' = FALSE
  /\ stack' = [stack EXCEPT ![Len(stack)].at = "loaded",
                            ![Len(stack)].saved = ds]
  /\ ds' = "kernel"
  /\ UNCHANGED <<boot, picvars, idt, raises>>

\* A command of this kind clears the bit of the highest priority in service.
EndOfInterrupt(S) == {s \in S : \E t \in S : t < s}

\* Variant with a fault: only the second controller hears of a line above 0.
pic_8259_eoi_one(irq) ==
  [p \in 1 .. 2 |-> IF (p = 2) = (irq > 0)
                    THEN EndOfInterrupt(inservice[p]) ELSE inservice[p]]
pic_8259_eoi(irq) ==
  [p \in 1 .. 2 |-> IF p = 1 \/ irq > 8
                    THEN EndOfInterrupt(inservice[p]) ELSE inservice[p]]

\* timer_handler and keyboard_handler acknowledge, and that is all.
irq_handler ==
  /\ stack # <<>> /\ Top.at = "loaded" /\ Top.vec \in {ISR_TM, ISR_KB}
  /\ inservice' = pic_8259_eoi(Top.vec - ISR_IRQ)
  /\ Advance("called")
  /\ UNCHANGED <<boot, irr, imr, idt, iflag, ds, raises>>

\* divide_error_handler and overflow_handler print the frame.
exception_handler ==
  /\ stack # <<>> /\ Top.at = "loaded" /\ Top.vec \in {ISR_DE, ISR_OF}
  /\ Advance("called")
  /\ UNCHANGED <<boot, picvars, idt, iflag, ds, raises>>

\* double_fault_handler prints and halts, with interrupts off: for good.
double_fault_handler ==
  /\ stack # <<>> /\ Top.at = "loaded" /\ Top.vec = ISR_DF
  /\ Advance("halted")
  /\ UNCHANGED <<boot, picvars, idt, iflag, ds, raises>>

\* The segments back, and interrupts on while the frame is still to be left.
RESET_INTERRUPT_STACK ==
  /\ stack # <<>> /\ Top.at = "called"
  /\ ds' = Top.saved
  /\ iflag' = TRUE
  /\ Advance("reset")
  /\ UNCHANGED <<boot, picvars, idt, raises>>

\* The end of a handler: iret restores the flags of the interrupted code.
iret ==
  /\ stack # <<>> /\ Top.at = "reset"
  /\ iflag' = Top.iflag
  /\ stack' = SubSeq(stack, 1, Len(stack) - 1)
  /\ UNCHANGED <<boot, picvars, idt, ds, raises>>

-----------------------------------------------------------------------------
init_descriptor_tables == SendICW \/ pic_8259_init \/ gdt_init \/ idt_init

handler ==
  \/ LOAD_INTERRUPT_STACK
  \/ irq_handler
  \/ exception_handler
  \/ double_fault_handler
  \/ RESET_INTERRUPT_STACK
  \/ iret

INext ==
  \/ init_descriptor_tables
  \/ handler
  \/ \E p \in 1 .. 2, l \in LINES : Raise(p, l)
  \/ \E l \in LINES : Deliver(l)
  \/ \E n \in {ISR_DE, ISR_OF, ISR_DF} : interrupt(n)

\* The CPU keeps executing, and takes a pending request at an instruction
\* boundary once interrupts are on (strong fairness: the boundaries at which
\* they are on come and go).
ISpec ==
  /\ IInit /\ [][INext]_irqvars
  /\ WF_irqvars(init_descriptor_tables)
  /\ WF_irqvars(handler)
  /\ \A l \in LINES : SF_irqvars(Deliver(l))

-----------------------------------------------------------------------------
(***************************************************************************)
(* Properties                                                              *)
(***************************************************************************)
Halted == stack # <<>> /\ Top.at = "halted"

\* When the last handler has returned the shell goes on as it was: interrupts
\* on, the kernel's data segment loaded, every accepted request acknowledged.
MainResumesIntact ==
  boot = "run" /\ stack = <<>> =>
    iflag /\ ds = "kernel" /\ inservice[1] = {}

\* No interrupt is taken while the saved segment lies below the stack pointer,
\* from LOAD_INTERRUPT_STACK to RESET_INTERRUPT_STACK, although the gates of
\* the exceptions leave interrupts on and RESET turns them on before iret.
NestsOutsideWindow ==
  \A i \in 1 .. Len(stack) :
    (InWindow(stack[i]) => i = Len(stack)) /\ stack[i].saved # "garbage"

\* Whenever interrupts are on, every request the controllers would pass on has
\* a gate: requests latched during boot included.
VectorsInstalled ==
  iflag => \A l \in Passed : idt[PIC1_OFFSET + l] # NoGate

\* A request of the timer or the keyboard is served, however the handlers
\* nest, unless the machine was halted by the double fault handler.
RaisedServed ==
  \A l \in {IRQ_TM, IRQ_KB} :
    (boot = "run" /\ l \in irr[1]) ~> (l \notin irr[1] \/ Halted)
=============================================================================
