-------------------------- MODULE ConcurrencyProofs -------------------------
(***************************************************************************)
(* Proofs about what runs beside the kernel's main line: the interrupt     *)
(* handlers and, below, the spinlock and the keyboard driver behind the    *)
(* controller's queue.                                                     *)
(*                                                                         *)
(* The safety of the interrupt handlers for any set of request lines, any  *)
(* number of requests and any depth of nesting.                            *)
(*                                                                         *)
(* The argument: interrupts are off from the entry of a request's handler, *)
(* and from LOAD_INTERRUPT_STACK of every handler, until RESET turns them  *)
(* on; so a handler that lies below another one has not begun or is about  *)
(* to leave, and at most one request, that of the innermost handler, is in *)
(* service.                                                                *)
(***************************************************************************)
EXTENDS Interrupts, Spinlock, Keyboard, LevelInduction, SequenceTheorems

IrqVectors == {ISR_TM, ISR_KB}
Gates == {NoGate, TRAP_GATE, INT_GATE}
Vectors == {ISR_DE, ISR_OF, ISR_DF} \cup IrqVectors

\* The handler has interrupts off, whatever the gate.
Busy(h) == h.at \in {"loaded", "called", "halted"} \/ (h.at = "entry" /\ h.vec \in IrqVectors)

\* The handler's request is not acknowledged yet.
Unserved(h) == h.vec \in IrqVectors /\ h.at \in {"entry", "loaded"}

Handlers ==
  [vec : Vectors, at : {"entry", "loaded", "called", "halted", "reset"},
   saved : {"none", "kernel"}, iflag : {TRUE}, ds : {"kernel"}]

TablesOK ==
  /\ boot \in {"icw", "mask", "gdt", "idt", "run"}
  /\ idt \in [0 .. 255 -> Gates]
  /\ imr \in [1 .. 2 -> SUBSET Lines]
  /\ irr \in [1 .. 2 -> SUBSET Lines]
  /\ boot \in {"gdt", "idt", "run"} => imr[1] = Lines \ {IRQ_TM, IRQ_KB}
  /\ boot = "run" => \A v \in IrqVectors : idt[v] = INT_GATE

FlagsOK ==
  /\ iflag \in BOOLEAN
  /\ iflag => boot = "run" /\ (stack # <<>> => ~Busy(Top))
  /\ boot = "run" /\ stack = <<>> => iflag
  /\ boot \in {"idt", "run"} => ds = "kernel"

StackOK ==
  /\ stack \in Seq(Handlers)
  /\ stack # <<>> => boot = "run"
  /\ \A i \in 1 .. Len(stack) :
       /\ InWindow(stack[i]) => stack[i].saved = "kernel"
       /\ Busy(stack[i]) => i = Len(stack)

ServiceOK ==
  /\ inservice \in [1 .. 2 -> SUBSET Lines]
  /\ inservice[1] = IF stack # <<>> /\ Unserved(Top) THEN {Top.vec - ISR_IRQ} ELSE {}

IInv == TablesOK /\ FlagsOK /\ StackOK /\ ServiceOK

-----------------------------------------------------------------------------
(***************************************************************************)
(* What the three changes of the stack do to it.                           *)
(***************************************************************************)
LEMMA TopType ==
  ASSUME IInv, stack # <<>>
  PROVE  /\ Len(stack) \in Nat \ {0}
         /\ Top \in Handlers
         /\ boot = "run" /\ ds = "kernel"
  <1>1. stack \in Seq(Handlers) /\ boot = "run"
    BY DEF IInv, StackOK
  <1>2. Len(stack) \in Nat \ {0}
    BY <1>1
  <1>3. Top \in Handlers
    BY <1>1, <1>2 DEF Top
  <1> QED
    BY <1>1, <1>2, <1>3 DEF IInv, FlagsOK

\* A frame on top of a handler that is not busy.
LEMMA Push ==
  ASSUME IInv, NEW h \in Handlers, h.at = "entry", boot = "run", boot' = boot,
         stack # <<>> => ~Busy(Top),
         stack' = Append(stack, h)
  PROVE  StackOK' /\ stack' # <<>> /\ Top' = h
  <1>1. stack \in Seq(Handlers) /\ Len(stack) \in Nat
    BY DEF IInv, StackOK
  <1>2. /\ stack' \in Seq(Handlers) /\ Len(stack') = Len(stack) + 1
        /\ \A i \in 1 .. Len(stack) : stack'[i] = stack[i]
        /\ stack'[Len(stack) + 1] = h
    BY <1>1
  <1>3. stack' # <<>> /\ Top' = h
    BY <1>1, <1>2 DEF Top
  <1>4. ASSUME NEW i \in 1 .. Len(stack)
        PROVE  /\ InWindow(stack[i]) => stack[i].saved = "kernel"
               /\ ~Busy(stack[i])
    <2>1. stack # <<>>
      BY <1>1
    <2> QED
      BY <1>1, <2>1 DEF IInv, StackOK, Top
  <1>5. ~InWindow(h)
    BY DEF InWindow
  <1>6. ASSUME NEW i \in 1 .. Len(stack')
        PROVE  /\ InWindow(stack'[i]) => stack'[i].saved = "kernel"
               /\ Busy(stack'[i]) => i = Len(stack')
    <2>1. CASE i \in 1 .. Len(stack)
      BY <1>2, <1>4, <2>1
    <2>2. CASE i = Len(stack) + 1
      BY <1>2, <1>5, <2>2
    <2> QED
      BY <1>1, <1>2, <2>1, <2>2
  <1> QED
    BY <1>2, <1>3, <1>6 DEF StackOK

\* The innermost handler goes on.
Replaced(q, h) == [q EXCEPT ![Len(q)] = h]

\* A handler that takes its next step stays the innermost one.
LEMMA Replace ==
  ASSUME IInv, stack # <<>>, boot' = boot,
         NEW h \in Handlers, InWindow(h) => h.saved = "kernel",
         stack' = Replaced(stack, h)
  PROVE  StackOK' /\ stack' # <<>> /\ Top' = h
  <1>1. stack \in Seq(Handlers) /\ Len(stack) \in Nat \ {0} /\ boot = "run"
    BY TopType DEF IInv, StackOK
  <1>2. /\ stack' \in Seq(Handlers) /\ Len(stack') = Len(stack)
        /\ \A i \in 1 .. Len(stack) - 1 : stack'[i] = stack[i]
        /\ stack'[Len(stack)] = h
    BY <1>1 DEF Replaced
  <1>3. stack' # <<>> /\ Top' = h
    BY <1>1, <1>2 DEF Top
  <1>4. ASSUME NEW i \in 1 .. Len(stack')
        PROVE  /\ InWindow(stack'[i]) => stack'[i].saved = "kernel"
               /\ Busy(stack'[i]) => i = Len(stack')
    <2>1. CASE i = Len(stack)
      BY <1>2, <2>1
    <2>2. CASE i \in 1 .. Len(stack) - 1
      <3>1. /\ InWindow(stack[i]) => stack[i].saved = "kernel"
            /\ Busy(stack[i]) => i = Len(stack)
        BY <1>1, <2>2 DEF IInv, StackOK
      <3> QED
        BY <1>1, <1>2, <2>2, <3>1
    <2>3. i = Len(stack) \/ i \in 1 .. Len(stack) - 1
      BY <1>1, <1>2
    <2> QED
      BY <2>1, <2>2, <2>3
  <1> QED
    BY <1>1, <1>2, <1>3, <1>4 DEF StackOK

\* The innermost handler leaves; the one below it is not busy.
LEMMA Pop ==
  ASSUME IInv, stack # <<>>, boot' = boot,
         stack' = SubSeq(stack, 1, Len(stack) - 1)
  PROVE  StackOK' /\ (stack' # <<>> => ~Busy(Top'))
  <1>1. stack \in Seq(Handlers) /\ Len(stack) \in Nat \ {0} /\ boot = "run"
    BY TopType DEF IInv, StackOK
  <1>2. /\ stack' \in Seq(Handlers) /\ Len(stack') = Len(stack) - 1
        /\ \A i \in 1 .. Len(stack) - 1 : stack'[i] = stack[i]
    <2> DEFINE n == Len(stack) - 1
    <2>1. n \in Nat /\ n <= Len(stack)
      BY <1>1
    <2>2. /\ SubSeq(stack, 1, n) \in Seq(Handlers) /\ Len(SubSeq(stack, 1, n)) = n
          /\ \A i \in 1 .. n : SubSeq(stack, 1, n)[i] = stack[i]
      <3> HIDE DEF n
      <3>1. SubSeq(stack, 1, n) \in Seq(Handlers)
        BY <1>1, <2>1
      <3>2. Len(SubSeq(stack, 1, n)) = n
        BY <1>1, <2>1
      <3>3. \A i \in 1 .. n : SubSeq(stack, 1, n)[i] = stack[i]
        BY <1>1, <2>1
      <3> QED
        BY <3>1, <3>2, <3>3
    <2> QED
      BY <2>2
  <1>3. ASSUME NEW i \in 1 .. Len(stack')
        PROVE  (InWindow(stack'[i]) => stack'[i].saved = "kernel") /\ ~Busy(stack'[i])
    <2>1. i \in 1 .. Len(stack) /\ i # Len(stack) /\ stack'[i] = stack[i]
      BY <1>1, <1>2
    <2>2. /\ InWindow(stack[i]) => stack[i].saved = "kernel"
          /\ Busy(stack[i]) => i = Len(stack)
      BY <2>1 DEF IInv, StackOK
    <2> QED
      BY <2>1, <2>2
  <1>4. stack' # <<>> => ~Busy(Top')
    <2>1. stack' # <<>> => Len(stack') \in 1 .. Len(stack')
      BY <1>2
    <2> QED
      BY <1>3, <2>1 DEF Top
  <1> QED
    BY <1>1, <1>2, <1>3, <1>4 DEF StackOK

-----------------------------------------------------------------------------
(***************************************************************************)
(* Boot, and the requests.                                                 *)
(***************************************************************************)
LEMMA IInvInit == IInit => IInv
  <1> SUFFICES ASSUME IInit PROVE IInv
    OBVIOUS
  <1>1. TablesOK
    BY DEF IInit, TablesOK, Gates
  <1>2. FlagsOK
    BY DEF IInit, FlagsOK
  <1>3. StackOK
    BY DEF IInit, StackOK
  <1>4. ServiceOK
    BY DEF IInit, ServiceOK
  <1> QED
    BY <1>1, <1>2, <1>3, <1>4 DEF IInv

\* Before the end of boot no handler is active, interrupts are off and nothing is
\* in service.
LEMMA BootQuiet ==
  ASSUME IInv, boot # "run"
  PROVE  stack = <<>> /\ ~iflag /\ inservice[1] = {}
  BY DEF IInv, FlagsOK, StackOK, ServiceOK

\* idt_set_descriptor changes the gate it is asked to, and no other.
LEMMA SetDescriptor ==
  ASSUME NEW table \in [0 .. 255 -> Gates], NEW v \in 0 .. 255, NEW gate \in Gates
  PROVE  /\ idt_set_descriptor(table, v, gate) \in [0 .. 255 -> Gates]
         /\ idt_set_descriptor(table, v, gate)[v] = gate
         /\ \A u \in 0 .. 255 \ {v} : idt_set_descriptor(table, v, gate)[u] = table[u]
  BY DEF idt_set_descriptor

\* init_descriptor_tables: until its end interrupts are off and the stack is empty.
LEMMA BootKeepsIInv ==
  ASSUME IInv, init_descriptor_tables
  PROVE  IInv'
  <1>1. boot # "run"
    BY DEF init_descriptor_tables, SendICW, pic_8259_init, gdt_init, idt_init
  <1>2. stack = <<>> /\ ~iflag /\ inservice[1] = {} /\ stack' = stack
    BY <1>1, BootQuiet
       DEF init_descriptor_tables, SendICW, pic_8259_init, gdt_init, idt_init, cpuvars
  <1>3. StackOK'
    BY <1>2 DEF IInv, StackOK
  <1>4. ServiceOK'
    <2>1. inservice' \in [1 .. 2 -> SUBSET Lines] /\ inservice'[1] = {}
      BY <1>2 DEF IInv, ServiceOK, init_descriptor_tables, SendICW, pic_8259_init,
                  gdt_init, idt_init, picvars
    <2> QED
      BY <1>2, <2>1 DEF ServiceOK
  <1>5. TablesOK' /\ FlagsOK'
    <2>1. CASE SendICW
      BY <1>2, <2>1 DEF IInv, TablesOK, FlagsOK, SendICW, cpuvars
    <2>2. CASE pic_8259_init
      <3>1. imr' \in [1 .. 2 -> SUBSET Lines] /\ imr'[1] = Lines \ {IRQ_TM, IRQ_KB}
        BY <2>2 DEF pic_8259_init, Masks, irq_clear_mask, Port, IRQ_TM, IRQ_KB,
                    ISR_TM, ISR_KB, ISR_IRQ, Lines
      <3> QED
        BY <1>2, <2>2, <3>1 DEF IInv, TablesOK, FlagsOK, pic_8259_init, cpuvars
    <2>3. CASE gdt_init
      BY <1>2, <2>3 DEF IInv, TablesOK, FlagsOK, gdt_init, picvars
    <2>4. CASE idt_init
      <3>1. idt' \in [0 .. 255 -> Gates] /\ \A v \in IrqVectors : idt'[v] = INT_GATE
        <4> DEFINE de == idt_set_descriptor(idt, ISR_DE, TRAP_GATE)
                   of == idt_set_descriptor(de, ISR_OF, TRAP_GATE)
                   df == idt_set_descriptor(of, ISR_DF, TRAP_GATE)
                   tm == idt_set_descriptor(df, ISR_TM, INT_GATE)
                   kb == idt_set_descriptor(tm, ISR_KB, INT_GATE)
        <4>1. /\ ISR_DE \in 0 .. 255 /\ ISR_OF \in 0 .. 255 /\ ISR_DF \in 0 .. 255
              /\ ISR_TM \in 0 .. 255 /\ ISR_KB \in 0 .. 255 /\ ISR_TM # ISR_KB
          BY DEF ISR_DE, ISR_OF, ISR_DF, ISR_TM, ISR_KB
        <4>2. TRAP_GATE \in Gates /\ INT_GATE \in Gates
          BY DEF Gates
        <4>3. de \in [0 .. 255 -> Gates]
          BY <4>1, <4>2, SetDescriptor DEF IInv, TablesOK
        <4> HIDE DEF de
        <4>4. of \in [0 .. 255 -> Gates]
          BY <4>1, <4>2, <4>3, SetDescriptor
        <4> HIDE DEF of
        <4>5. df \in [0 .. 255 -> Gates]
          BY <4>1, <4>2, <4>4, SetDescriptor
        <4> HIDE DEF df
        <4>6. tm \in [0 .. 255 -> Gates] /\ tm[ISR_TM] = INT_GATE
          <5>1. tm \in [0 .. 255 -> Gates]
            BY <4>1, <4>2, <4>5, SetDescriptor
          <5>2. tm[ISR_TM] = INT_GATE
            BY <4>1, <4>5 DEF idt_set_descriptor
          <5> QED
            BY <5>1, <5>2
        <4> HIDE DEF tm
        <4>7. /\ kb \in [0 .. 255 -> Gates] /\ kb[ISR_KB] = INT_GATE
              /\ kb[ISR_TM] = INT_GATE
          <5>1. kb \in [0 .. 255 -> Gates]
            BY <4>1, <4>2, <4>6, SetDescriptor
          <5>2. kb[ISR_KB] = INT_GATE /\ kb[ISR_TM] = INT_GATE
            BY <4>1, <4>6 DEF idt_set_descriptor
          <5> QED
            BY <5>1, <5>2
        <4>8. idt' = kb
          BY <2>4 DEF idt_init, Descriptors, de, of, df, tm
        <4> QED
          BY <4>7, <4>8 DEF IrqVectors
      <3> QED
        BY <1>2, <2>4, <3>1 DEF IInv, TablesOK, FlagsOK, idt_init, picvars
    <2> QED
      BY <2>1, <2>2, <2>3, <2>4 DEF init_descriptor_tables
  <1> QED
    BY <1>3, <1>4, <1>5 DEF IInv

\* A device that raises a line changes neither the stack nor the flag.
LEMMA RaiseKeepsIInv ==
  ASSUME IInv, NEW p \in 1 .. 2, NEW l \in LINES, Raise(p, l)
  PROVE  IInv'
  <1>1. l \in Lines
    BY IrqAssumption DEF Lines
  <1>2. TablesOK'
    BY <1>1 DEF IInv, TablesOK, Raise
  <1> QED
    BY <1>2 DEF IInv, FlagsOK, StackOK, ServiceOK, Raise, cpuvars, Top

-----------------------------------------------------------------------------
(***************************************************************************)
(* Entering and leaving a handler.                                         *)
(***************************************************************************)
\* The requests that get through have a gate, and it turns interrupts off.
LEMMA PassedHaveGates ==
  ASSUME IInv, boot = "run", NEW l \in Passed
  PROVE  /\ l \in {IRQ_TM, IRQ_KB} /\ l \in Lines
         /\ PIC1_OFFSET + l \in IrqVectors
         /\ (PIC1_OFFSET + l) - ISR_IRQ = l
         /\ idt[PIC1_OFFSET + l] = INT_GATE
  <1>1. imr[1] = Lines \ {IRQ_TM, IRQ_KB} /\ irr[1] \in SUBSET Lines
    BY DEF IInv, TablesOK
  <1>2. l \in {IRQ_TM, IRQ_KB} /\ l \in Lines
    BY <1>1 DEF Passed
  <1>3. PIC1_OFFSET + l \in IrqVectors /\ (PIC1_OFFSET + l) - ISR_IRQ = l
    BY <1>2 DEF IrqVectors, PIC1_OFFSET, IRQ_TM, IRQ_KB, ISR_TM, ISR_KB, ISR_IRQ
  <1> QED
    BY <1>2, <1>3 DEF IInv, TablesOK

\* A frame is written only where no saved segment lies.
LEMMA EnterPushes ==
  ASSUME IInv, iflag, NEW v \in Vectors, Enter(v)
  PROVE  LET h == [vec |-> v, at |-> "entry", saved |-> "none",
                   iflag |-> TRUE, ds |-> "kernel"]
         IN  /\ h \in Handlers
             /\ stack' = Append(stack, h)
             /\ StackOK' /\ stack' # <<>> /\ Top' = h
  <1> DEFINE h == [vec |-> v, at |-> "entry", saved |-> "none",
                   iflag |-> TRUE, ds |-> "kernel"]
  <1>1. boot = "run" /\ boot' = boot /\ ds = "kernel" /\ iflag = TRUE
        /\ (stack # <<>> => ~Busy(Top))
    BY DEF IInv, FlagsOK, Enter
  <1>2. ~(stack # <<>> /\ InWindow(Top))
    BY <1>1 DEF Busy, InWindow
  <1>3. stack' = Append(stack, h)
    BY <1>1, <1>2, Zenon DEF Enter
  <1>4. h \in Handlers /\ h.at = "entry"
    BY DEF Handlers
  <1> HIDE DEF h
  <1>5. StackOK' /\ stack' # <<>> /\ Top' = h
    BY <1>1, <1>3, <1>4, Push
  <1> QED
    BY <1>3, <1>4, <1>5 DEF h

\* The CPU takes a request only with interrupts on, so onto a handler that is
\* not busy.
LEMMA DeliverKeepsIInv ==
  ASSUME IInv, NEW l \in LINES, Deliver(l)
  PROVE  IInv'
  <1> DEFINE v == PIC1_OFFSET + l
             h == [vec |-> v, at |-> "entry", saved |-> "none",
                   iflag |-> TRUE, ds |-> "kernel"]
  <1>1. iflag /\ boot = "run" /\ l \in Passed /\ Enter(v)
    BY DEF IInv, FlagsOK, Deliver
  <1>2. l \in Lines /\ v \in IrqVectors /\ v - ISR_IRQ = l /\ idt[v] = INT_GATE
    BY <1>1, PassedHaveGates
  <1>3. v \in Vectors
    BY <1>2 DEF Vectors
  <1>4. StackOK' /\ stack' # <<>> /\ Top' = h
    BY <1>1, <1>3, EnterPushes
  <1>5. iflag' = FALSE /\ ds' = ds /\ boot' = boot /\ idt' = idt /\ imr' = imr
    BY <1>1, <1>2 DEF Enter, INT_GATE, TRAP_GATE
  <1>6. TablesOK'
    <2>1. irr' \in [1 .. 2 -> SUBSET Lines]
      BY DEF IInv, TablesOK, Deliver
    <2> QED
      BY <1>5, <2>1 DEF IInv, TablesOK
  <1>7. FlagsOK'
    BY <1>1, <1>4, <1>5 DEF IInv, FlagsOK
  <1>8. ServiceOK'
    <2>1. inservice[1] = {}
      <3>1. stack # <<>> => ~Unserved(Top)
        BY <1>1 DEF IInv, FlagsOK, Busy, Unserved
      <3> QED
        BY <3>1 DEF IInv, ServiceOK
    <2>2. inservice' \in [1 .. 2 -> SUBSET Lines] /\ inservice'[1] = {l}
      <3>1. inservice' = [inservice EXCEPT ![1] = {l}]
        BY <2>1 DEF IInv, ServiceOK, Deliver
      <3> QED
        BY <1>2, <3>1 DEF IInv, ServiceOK
    <2>3. Unserved(h) /\ h.vec - ISR_IRQ = l
      BY <1>2 DEF Unserved
    <2> HIDE DEF h
    <2> QED
      BY <1>4, <2>2, <2>3 DEF ServiceOK
  <1> QED
    BY <1>4, <1>6, <1>7, <1>8 DEF IInv

\* The builtin's int instruction runs in the kernel's main thread.
LEMMA InterruptKeepsIInv ==
  ASSUME IInv, NEW n \in {ISR_DE, ISR_OF, ISR_DF}, interrupt(n)
  PROVE  IInv'
  <1> DEFINE h == [vec |-> n, at |-> "entry", saved |-> "none",
                   iflag |-> TRUE, ds |-> "kernel"]
  <1>1. boot = "run" /\ stack = <<>> /\ Enter(n) /\ iflag
    BY DEF IInv, FlagsOK, interrupt
  <1>2. n \in Vectors /\ n \notin IrqVectors
    BY DEF Vectors, IrqVectors, ISR_DE, ISR_OF, ISR_DF, ISR_TM, ISR_KB
  <1>3. StackOK' /\ stack' # <<>> /\ Top' = h
    BY <1>1, <1>2, EnterPushes
  <1>4. ds' = ds /\ boot' = boot /\ idt' = idt /\ imr' = imr
        /\ irr' = irr /\ inservice' = inservice /\ iflag' \in BOOLEAN
    BY <1>1 DEF Enter, interrupt
  <1>5. ~Busy(h) /\ ~Unserved(h)
    BY <1>2 DEF Busy, Unserved
  <1> HIDE DEF h
  <1>6. TablesOK'
    BY <1>4 DEF IInv, TablesOK
  <1>7. FlagsOK'
    BY <1>1, <1>3, <1>4, <1>5 DEF IInv, FlagsOK
  <1>8. ServiceOK'
    BY <1>1, <1>3, <1>4, <1>5 DEF IInv, ServiceOK
  <1> QED
    BY <1>3, <1>6, <1>7, <1>8 DEF IInv

\* iret uncovers a frame that was pushed with interrupts on.
LEMMA IretKeepsIInv ==
  ASSUME IInv, iret
  PROVE  IInv'
  <1>1. stack # <<>> /\ Top.at = "reset" /\ boot' = boot
        /\ stack' = SubSeq(stack, 1, Len(stack) - 1)
    BY DEF iret
  <1>2. Top \in Handlers /\ boot = "run" /\ ds = "kernel"
    BY <1>1, TopType
  <1>3. StackOK' /\ (stack' # <<>> => ~Busy(Top'))
    BY <1>1, Pop
  <1>4. iflag' = TRUE
    <2>1. Top.iflag = TRUE
      BY <1>2 DEF Handlers
    <2> QED
      BY <2>1 DEF iret
  <1>5. /\ ds' = ds /\ boot' = boot /\ idt' = idt /\ imr' = imr /\ irr' = irr
        /\ inservice' = inservice
    BY DEF iret, picvars
  <1>6. TablesOK'
    BY <1>5 DEF IInv, TablesOK
  <1>7. FlagsOK'
    BY <1>2, <1>3, <1>4, <1>5 DEF FlagsOK
  <1>8. ServiceOK'
    <2>1. ~Unserved(Top)
      BY <1>1 DEF Unserved
    <2>2. stack' # <<>> => ~Unserved(Top')
      BY <1>3 DEF Busy, Unserved
    <2> QED
      BY <1>1, <1>5, <2>1, <2>2 DEF IInv, ServiceOK
  <1> QED
    BY <1>3, <1>6, <1>7, <1>8 DEF IInv

-----------------------------------------------------------------------------
(***************************************************************************)
(* The steps of a handler.                                                 *)
(***************************************************************************)
LEMMA LoadKeepsIInv ==
  ASSUME IInv, LOAD_INTERRUPT_STACK
  PROVE  IInv'
  <1> DEFINE h == [Top EXCEPT !.at = "loaded", !.saved = ds]
  <1>1. stack # <<>> /\ Top.at = "entry" /\ iflag' = FALSE /\ ds' = "kernel"
        /\ boot' = boot /\ idt' = idt /\ imr' = imr /\ irr' = irr /\ inservice' = inservice
    BY DEF LOAD_INTERRUPT_STACK, picvars
  <1>2. Top \in Handlers /\ boot = "run" /\ ds = "kernel" /\ Len(stack) \in Nat \ {0}
    BY <1>1, TopType
  <1>3. h \in Handlers /\ h.saved = "kernel" /\ h.at = "loaded" /\ h.vec = Top.vec
    BY <1>2 DEF Handlers
  <1>4. stack' = Replaced(stack, h)
    BY <1>2 DEF LOAD_INTERRUPT_STACK, Replaced, Top, IInv, StackOK
  <1>5. Unserved(h) <=> Unserved(Top)
    BY <1>1, <1>3 DEF Unserved
  <1> HIDE DEF h
  <1>6. StackOK' /\ stack' # <<>> /\ Top' = h
    BY <1>1, <1>3, <1>4, Replace
  <1>7. TablesOK'
    BY <1>1 DEF IInv, TablesOK
  <1>8. FlagsOK'
    BY <1>1, <1>2, <1>6 DEF FlagsOK
  <1>9. ServiceOK'
    BY <1>1, <1>3, <1>5, <1>6 DEF IInv, ServiceOK
  <1> QED
    BY <1>6, <1>7, <1>8, <1>9 DEF IInv

\* A handler that goes on from a place where interrupts are off to another one.
LEMMA AdvanceReplaces ==
  ASSUME IInv, stack # <<>>, NEW at \in {"called", "halted", "reset"},
         at = "called" => Top.at = "loaded", boot' = boot, Advance(at)
  PROVE  /\ StackOK' /\ stack' # <<>>
         /\ Top' = [Top EXCEPT !.at = at] /\ Top'.at = at
         /\ ~Unserved(Top')
  <1> DEFINE h == [Top EXCEPT !.at = at]
  <1>1. Top \in Handlers /\ Len(stack) \in Nat \ {0}
    BY TopType
  <1>2. h \in Handlers /\ h.at = at /\ h.saved = Top.saved
    BY <1>1 DEF Handlers
  <1>3. stack' = Replaced(stack, h)
    BY <1>1 DEF Advance, Replaced, Top, IInv, StackOK
  <1>4. InWindow(h) => h.saved = "kernel"
    <2>1. InWindow(h) => InWindow(Top)
      BY <1>2 DEF InWindow
    <2>2. InWindow(Top) => Top.saved = "kernel"
      BY <1>1 DEF IInv, StackOK, Top
    <2> QED
      BY <1>2, <2>1, <2>2
  <1>5. ~Unserved(h)
    BY <1>2 DEF Unserved
  <1>6. StackOK' /\ stack' # <<>> /\ Top' = h
    <2> HIDE DEF h
    <2> QED
      BY <1>2, <1>3, <1>4, Replace
  <1> QED
    BY <1>2, <1>5, <1>6

\* While a handler is loaded interrupts are off.
LEMMA LoadedOff ==
  ASSUME IInv, stack # <<>>, Top.at \in {"loaded", "called"}
  PROVE  ~iflag
  BY DEF IInv, FlagsOK, Busy

\* irq_handler acknowledges the request that is in service.
LEMMA IrqHandlerKeepsIInv ==
  ASSUME IInv, irq_handler
  PROVE  IInv'
  <1>1. stack # <<>> /\ Top.at = "loaded" /\ Top.vec \in IrqVectors /\ Advance("called")
        /\ boot' = boot /\ idt' = idt /\ imr' = imr /\ irr' = irr
        /\ iflag' = iflag /\ ds' = ds
    BY DEF irq_handler, IrqVectors
  <1>2. StackOK' /\ stack' # <<>> /\ ~Unserved(Top')
    BY <1>1, AdvanceReplaces
  <1>3. TablesOK'
    BY <1>1 DEF IInv, TablesOK
  <1>4. FlagsOK'
    <2>1. ~iflag
      BY <1>1, LoadedOff
    <2> QED
      BY <1>1, <1>2, <2>1 DEF IInv, FlagsOK
  <1>5. ServiceOK'
    <2>1. inservice[1] = {Top.vec - ISR_IRQ}
      BY <1>1 DEF IInv, ServiceOK, Unserved
    <2>2. Top.vec - ISR_IRQ \in Int
      BY <1>1 DEF IrqVectors, ISR_TM, ISR_KB, ISR_IRQ
    <2>3. EndOfInterrupt(inservice[1]) = {}
      BY <2>1, <2>2 DEF EndOfInterrupt
    <2>4. inservice \in [1 .. 2 -> SUBSET Lines]
          /\ \A p \in 1 .. 2 : EndOfInterrupt(inservice[p]) \in SUBSET Lines
      BY DEF IInv, ServiceOK, EndOfInterrupt
    <2>5. inservice' \in [1 .. 2 -> SUBSET Lines] /\ inservice'[1] = {}
      BY <2>3, <2>4 DEF irq_handler, pic_8259_eoi
    <2> QED
      BY <1>2, <2>5 DEF ServiceOK
  <1> QED
    BY <1>2, <1>3, <1>4, <1>5 DEF IInv

\* An exception's handler prints, and returns or halts.
LEMMA ExceptionKeepsIInv ==
  ASSUME IInv, exception_handler \/ double_fault_handler
  PROVE  IInv'
  <1>1. PICK place \in {"called", "halted"} : Advance(place)
    BY DEF exception_handler, double_fault_handler
  <1>2. stack # <<>> /\ Top.at = "loaded" /\ Top.vec \notin IrqVectors
        /\ boot' = boot /\ idt' = idt /\ imr' = imr /\ irr' = irr
        /\ inservice' = inservice /\ iflag' = iflag /\ ds' = ds
    BY DEF exception_handler, double_fault_handler, picvars, IrqVectors,
           ISR_DE, ISR_OF, ISR_DF, ISR_TM, ISR_KB
  <1>3. StackOK' /\ stack' # <<>> /\ ~Unserved(Top')
    BY <1>1, <1>2, AdvanceReplaces
  <1>4. TablesOK'
    BY <1>2 DEF IInv, TablesOK
  <1>5. FlagsOK'
    <2>1. ~iflag
      BY <1>2, LoadedOff
    <2> QED
      BY <1>2, <1>3, <2>1 DEF IInv, FlagsOK
  <1>6. ServiceOK'
    BY <1>2, <1>3 DEF IInv, ServiceOK, Unserved
  <1> QED
    BY <1>3, <1>4, <1>5, <1>6 DEF IInv

\* RESET_INTERRUPT_STACK finds the data segment where it was saved.
LEMMA ResetKeepsIInv ==
  ASSUME IInv, RESET_INTERRUPT_STACK
  PROVE  IInv'
  <1>1. stack # <<>> /\ Top.at = "called" /\ Advance("reset") /\ iflag' = TRUE
        /\ ds' = Top.saved /\ boot' = boot /\ idt' = idt /\ imr' = imr /\ irr' = irr
        /\ inservice' = inservice
    BY DEF RESET_INTERRUPT_STACK, picvars
  <1>2. boot = "run" /\ Len(stack) \in Nat \ {0}
    BY <1>1, TopType
  <1>3. Top.saved = "kernel"
    BY <1>1, <1>2 DEF IInv, StackOK, Top, InWindow
  <1>4. StackOK' /\ stack' # <<>> /\ Top'.at = "reset" /\ ~Unserved(Top')
    BY <1>1, AdvanceReplaces
  <1>5. TablesOK'
    BY <1>1 DEF IInv, TablesOK
  <1>6. FlagsOK'
    <2>1. ~Busy(Top')
      BY <1>4 DEF Busy
    <2> QED
      BY <1>1, <1>2, <1>3, <1>4, <2>1 DEF FlagsOK
  <1>7. ServiceOK'
    BY <1>1, <1>4 DEF IInv, ServiceOK, Unserved
  <1> QED
    BY <1>4, <1>5, <1>6, <1>7 DEF IInv

-----------------------------------------------------------------------------
\* Every step keeps the invariant.
LEMMA IInvStep == IInv /\ [INext]_irqvars => IInv'
  <1> SUFFICES ASSUME IInv, [INext]_irqvars PROVE IInv'
    OBVIOUS
  <1>1. CASE init_descriptor_tables
    BY <1>1, BootKeepsIInv
  <1>2. ASSUME NEW p \in 1 .. 2, NEW l \in LINES, Raise(p, l) PROVE IInv'
    BY <1>2, RaiseKeepsIInv
  <1>3. ASSUME NEW l \in LINES, Deliver(l) PROVE IInv'
    BY <1>3, DeliverKeepsIInv
  <1>4. ASSUME NEW n \in {ISR_DE, ISR_OF, ISR_DF}, interrupt(n) PROVE IInv'
    BY <1>4, InterruptKeepsIInv
  <1>5. CASE handler
    BY <1>5, LoadKeepsIInv, IrqHandlerKeepsIInv, ExceptionKeepsIInv,
       ResetKeepsIInv, IretKeepsIInv DEF handler
  <1>6. CASE UNCHANGED irqvars
    BY <1>6 DEF irqvars, picvars, cpuvars, IInv, TablesOK, FlagsOK, StackOK, ServiceOK,
                Top
  <1> QED
    BY <1>1, <1>2, <1>3, <1>4, <1>5, <1>6 DEF INext

\* The invariant holds from boot on.
LEMMA Inductive == ISpec => []IInv
  BY IInvInit, IInvStep, PTL DEF ISpec

\* However many handlers nest, and on whatever lines, none is entered between
\* LOAD_INTERRUPT_STACK and RESET_INTERRUPT_STACK of another: the segment a
\* handler saved below the stack pointer is never overwritten.
THEOREM NestingIsSafe == ISpec => []NestsOutsideWindow
  <1>1. IInv => NestsOutsideWindow
    <2> SUFFICES ASSUME IInv, NEW i \in 1 .. Len(stack)
                 PROVE  (InWindow(stack[i]) => i = Len(stack)) /\ stack[i].saved # "garbage"
      BY DEF NestsOutsideWindow
    <2>1. stack \in Seq(Handlers) /\ (Busy(stack[i]) => i = Len(stack))
      BY DEF IInv, StackOK
    <2>2. stack[i] \in Handlers
      BY <2>1
    <2> QED
      BY <2>1, <2>2 DEF Handlers, Busy, InWindow
  <1> QED
    BY <1>1, Inductive, PTL

\* Whatever the devices request and when, boot included, a request that gets
\* through finds a gate in the table.
THEOREM RequestsHaveGates == ISpec => []VectorsInstalled
  <1>1. IInv => VectorsInstalled
    <2> SUFFICES ASSUME IInv, iflag, NEW l \in Passed
                 PROVE  idt[PIC1_OFFSET + l] # NoGate
      BY DEF VectorsInstalled
    <2>1. boot = "run"
      BY DEF IInv, FlagsOK
    <2>2. idt[PIC1_OFFSET + l] = INT_GATE
      BY <2>1, PassedHaveGates
    <2> QED
      BY <2>2 DEF INT_GATE, NoGate
  <1> QED
    BY <1>1, Inductive, PTL

\* When the last of any number of nested handlers has returned, interrupts are
\* on, the kernel's segment is loaded and every request was acknowledged.
THEOREM MainAlwaysResumes == ISpec => []MainResumesIntact
  <1>1. IInv => MainResumesIntact
    BY DEF IInv, FlagsOK, ServiceOK, MainResumesIntact
  <1> QED
    BY <1>1, Inductive, PTL
-----------------------------------------------------------------------------
(***************************************************************************)
(* The spinlock: mutual exclusion and the absence of lost updates for      *)
(* every set of CPUs.  The two need each other's neighbour,                *)
(* HolderUpToDate: the word is written from a copy, and only the holder of *)
(* the lock has one.                                                       *)
(***************************************************************************)

LInv == LTypeOK /\ MutualExclusion /\ HolderUpToDate /\ NoUpdateLost

\* Before kspin_init nobody has used the lock.
LEMMA LInitInv == LInit => LInv
<1> SUFFICES ASSUME LInit PROVE LInv
  OBVIOUS
<1> USE DEF LInit
<1>1. LTypeOK
  <2>1. ready \in BOOLEAN
    OBVIOUS
  <2>2. -1 \in {0, -1} /\ 0 \in {0, -1}
    OBVIOUS
  <2> QED
    BY <2>1, <2>2, SpinlockAssumption DEF LTypeOK
<1>2. \A c \in CPUS : lpc[c] \notin Holding
  BY DEF Holding
<1>3. MutualExclusion /\ HolderUpToDate
  BY <1>2 DEF MutualExclusion, HolderUpToDate, Holding
<1>4. NoUpdateLost
  BY DEF NoUpdateLost
<1> QED
  BY <1>1, <1>3, <1>4 DEF LInv

\* Every step of kspin_init, kspin_lock, kspin_trylock, kspin_drop and of the
\* client keeps the invariant.
LEMMA LNextInv == LInv /\ [LNext]_spinvars => LInv'
<1> SUFFICES ASSUME LInv, [LNext]_spinvars PROVE LInv'
  OBVIOUS
<1> USE SpinlockAssumption
    DEF LInv, LTypeOK, MutualExclusion, HolderUpToDate, NoUpdateLost, Holding
<1>1. CASE kspin_init
  <2>1. \A c \in CPUS : lpc[c] \notin Holding
    BY <1>1 DEF kspin_init
  <2>2. ready' \in BOOLEAN
    BY <1>1 DEF kspin_init
  <2>3. LTypeOK'
    BY <1>1, <2>2 DEF kspin_init
  <2>4. HolderUpToDate' /\ MutualExclusion'
    BY <1>1, <2>1 DEF kspin_init
  <2> QED
    BY <1>1, <2>3, <2>4 DEF kspin_init
<1>2. ASSUME NEW c \in CPUS, kspin_lock(c) PROVE LInv'
  <2>1. CASE lock = 0
    <3>1. lock' = 1 /\ lpc' = [lpc EXCEPT ![c] = "locked"]
      BY <1>2, <2>1 DEF kspin_lock, acquire_or_one
    <3> QED
      BY <1>2, <2>1, <3>1 DEF kspin_lock
  <2>2. CASE lock = 1
    <3>1. lock' = 1 /\ lpc' = [lpc EXCEPT ![c] = "spinning"]
      BY <1>2, <2>2 DEF kspin_lock, acquire_or_one
    <3> QED
      BY <1>2, <2>2, <3>1 DEF kspin_lock
  <2> QED
    BY <2>1, <2>2
<1>3. ASSUME NEW c \in CPUS, kspin_trylock(c) PROVE LInv'
  <2>1. PICK old \in {0, 1} :
          /\ acquire_or_one(old)
          /\ tryret' = [tryret EXCEPT ![c] = 0 - old]
          /\ lpc' = [lpc EXCEPT ![c] = IF 0 - old = 0 THEN "locked" ELSE "idle"]
    BY <1>3 DEF kspin_trylock
  <2>2. CASE old = 0
    <3>1. lock = 0 /\ lock' = 1 /\ lpc' = [lpc EXCEPT ![c] = "locked"]
      <4>1. 0 - old = 0
        BY <2>2
      <4> QED
        BY <2>1, <2>2, <4>1 DEF acquire_or_one
    <3> QED
      BY <1>3, <2>1, <2>2, <3>1 DEF kspin_trylock
  <2>3. CASE old = 1
    <3>1. lock = 1 /\ lock' = 1 /\ lpc' = [lpc EXCEPT ![c] = "idle"]
      BY <2>1, <2>3 DEF acquire_or_one
    <3> QED
      BY <1>3, <2>1, <2>3, <3>1 DEF kspin_trylock
  <2> QED
    BY <2>2, <2>3
<1>4. ASSUME NEW c \in CPUS, kspin_drop(c) PROVE LInv'
  BY <1>4 DEF kspin_drop
<1>5. ASSUME NEW c \in CPUS, ReadWord(c) PROVE LInv'
  BY <1>5 DEF ReadWord
<1>6. ASSUME NEW c \in CPUS, WriteWord(c) PROVE LInv'
  BY <1>6 DEF WriteWord
<1>7. CASE UNCHANGED spinvars
  BY <1>7 DEF spinvars
<1> QED
  BY <1>1, <1>2, <1>3, <1>4, <1>5, <1>6, <1>7 DEF LNext

\* The inductive invariant: the lock word says whether a CPU is inside, and a
\* CPU that has read the guarded word under the lock has read its last value.
THEOREM LInvHolds == LSafety => []LInv
BY LInitInv, LNextInv, PTL DEF LSafety

\* Type correctness of the spinlock and its client.
THEOREM SpinlockTypeCorrect == LSafety => []LTypeOK
BY LInvHolds, PTL DEF LInv

\* At most one CPU is between kspin_lock (or a kspin_trylock that returned 0)
\* and kspin_drop.
THEOREM SpinlockExcludes == LSafety => []MutualExclusion
BY LInvHolds, PTL DEF LInv

\* Updates of a word under the lock are never lost.
THEOREM SpinlockProtects == LSafety => []NoUpdateLost
BY LInvHolds, PTL DEF LInv

-----------------------------------------------------------------------------
(***************************************************************************)
(* The keyboard driver, for any number of strokes of any keys of the       *)
(* tables, any length of the queue and any number of lost bytes.           *)
(*                                                                         *)
(* The argument follows one position, the byte the driver reads next.  The *)
(* prefix flag is a function of it as long as no byte of the stroke before *)
(* and of this one was lost; so each stroke that got through is decoded to *)
(* its own key, and the modifiers are what they were for the user at that  *)
(* stroke.                                                                 *)
(***************************************************************************)

Types == {"KEY_PRESSED", "KEY_RELEASED"}
Layouts == {"us", "fr"}
Known == AllKeys \cup {"PRINT"}
Mods == HoldModifiers \cup Locks

Strokes == [key : KEYS, type : Types, with : SUBSET (Known \cup Locks)]
Items == [byte : Nat, stroke : Nat, at : Nat]
EventRecs == [key : AllKeys, type : Types, stroke : Nat, char : Chars, layout : Layouts]

KTypes ==
  /\ sent \in Seq(Strokes) /\ fifo \in Seq(Items) /\ events \in Seq(EventRecs)
  /\ held \subseteq Known /\ locks \subseteq Locks
  /\ lost \subseteq 1 .. Len(sent)
  /\ kbd_ext \in BOOLEAN /\ layout \in Layouts

BytesOf(i) == Bytes(sent[i].key, sent[i].type)

\* An item of the queue is a byte of its stroke.
ItemOK(e) ==
  /\ e.stroke \in 1 .. Len(sent)
  /\ e.at \in 1 .. Len(BytesOf(e.stroke))
  /\ e.byte = BytesOf(e.stroke)[e.at]

\* Item f comes right behind item e: the next byte, or the first of the next
\* stroke.
Follows(e, f) ==
  \/ e.at < Len(BytesOf(e.stroke)) /\ f.stroke = e.stroke /\ f.at = e.at + 1
  \/ e.at = Len(BytesOf(e.stroke)) /\ f.stroke = e.stroke + 1 /\ f.at = 1

\* The queue has the bytes of the strokes in order, up to the last.
FifoInv ==
  /\ \A n \in 1 .. Len(fifo) : ItemOK(fifo[n])
  /\ \A n \in 1 .. Len(fifo) : n < Len(fifo) => Follows(fifo[n], fifo[n + 1])
  /\ fifo # <<>> => fifo[Len(fifo)].stroke = Len(sent)
                    /\ fifo[Len(fifo)].at = Len(BytesOf(Len(sent)))

\* The position of the driver: the byte it will read next, or the first one of
\* the stroke to come.
HereStroke == IF fifo = <<>> THEN Len(sent) + 1 ELSE Head(fifo).stroke
HereAt == IF fifo = <<>> THEN 1 ELSE Head(fifo).at

\* The prefix flag is that of the position, and it is down between two strokes
\* when the last byte was not lost.
PrefixInv ==
  /\ Intact(HereStroke) => (kbd_ext <=> HereAt \in {2, 4})
  /\ HereAt = 1 /\ HereStroke - 1 \notin lost => ~kbd_ext

\* Events are of strokes up to the position; the one at the position is not yet
\* reported, unless it is garbled.
Reported ==
  \A n \in 1 .. Len(events) :
    /\ events[n].stroke \in 1 .. Len(sent)
    /\ events[n].stroke <= HereStroke
    /\ Intact(HereStroke) => events[n].stroke < HereStroke

\* The three parts of EventsFollowKeys, by indices.
RightKeys ==
  \A n \in 1 .. Len(events) : Intact(events[n].stroke) =>
    /\ events[n].key = sent[events[n].stroke].key
    /\ events[n].type = sent[events[n].stroke].type
RightOrder ==
  \A i, j \in 1 .. Len(events) :
    i < j /\ Intact(events[j].stroke) => events[i].stroke < events[j].stroke
NoneMissing ==
  \A i \in 1 .. Len(sent) :
    Intact(i) /\ i < HereStroke /\ sent[i].key \in AllKeys
      => \E n \in 1 .. Len(events) : events[n].stroke = i
EventsInv == Reported /\ RightKeys /\ RightOrder /\ NoneMissing

\* What was down or locked before stroke i, the stroke to come included.
Before(i) == IF i <= Len(sent) THEN sent[i].with ELSE (held \ Locks) \cup locks

\* set_modifiers on a given set.
SetMods(M, key, type) ==
  CASE key \in HoldModifiers -> IF type = "KEY_PRESSED" THEN M \cup {key} ELSE M \ {key}
    [] key \in Locks /\ type = "KEY_RELEASED" -> Toggle(M, key)
    [] OTHER -> M

\* Each stroke changes what is held as set_modifiers does.
HistoryInv ==
  \A j \in 1 .. Len(sent) :
    Before(j + 1) \cap Mods = SetMods(Before(j) \cap Mods, sent[j].key, sent[j].type)

\* The modifiers are those of the position: all of them if nothing was lost, and
\* otherwise those struck since the driver is in step again.
ModInv ==
  /\ lost = {} => modifiers = Before(HereStroke) \cap Mods
  /\ \A m \in HoldModifiers, q \in 1 .. Len(sent) :
       q < HereStroke /\ sent[q].key = m /\ (\A i \in lost : q > i + 1)
         => (m \in modifiers <=> m \in Before(HereStroke))

KInv == KTypes /\ FifoInv /\ PrefixInv /\ EventsInv /\ HistoryInv /\ ModInv

-----------------------------------------------------------------------------
(***************************************************************************)
(* The tables and the codes                                                *)
(***************************************************************************)

\* Codes of the tables leave room for the prefix and the release bit, and no
\* entry is the UNKNOWN one.
LEMMA Tables ==
  /\ DOMAIN kbd_reg_keycodes \subseteq 1 .. 88
  /\ DOMAIN kbd_ext_keycodes \subseteq 1 .. 88
  /\ 42 \notin DOMAIN kbd_ext_keycodes /\ 55 \notin DOMAIN kbd_ext_keycodes
  /\ "UNKNOWN" \notin AllKeys /\ "PRINT" \notin AllKeys
<1>1. DOMAIN kbd_ext_keycodes = {28, 29, 56, 72}
  BY DEF kbd_ext_keycodes
<1>2. DOMAIN kbd_reg_keycodes = {3, 28, 29, 30, 40, 42, 54, 56, 58, 69, 72}
  BY DEF kbd_reg_keycodes
<1>3. \A c \in DOMAIN kbd_ext_keycodes :
        kbd_ext_keycodes[c] # "UNKNOWN" /\ kbd_ext_keycodes[c] # "PRINT"
  BY <1>1 DEF kbd_ext_keycodes
<1>4. \A c \in DOMAIN kbd_reg_keycodes :
        kbd_reg_keycodes[c] # "UNKNOWN" /\ kbd_reg_keycodes[c] # "PRINT"
  <2>1. \A c \in {3, 28, 29, 30, 40, 42} :
          kbd_reg_keycodes[c] # "UNKNOWN" /\ kbd_reg_keycodes[c] # "PRINT"
    BY DEF kbd_reg_keycodes
  <2>2. \A c \in {54, 56, 58, 69, 72} :
          kbd_reg_keycodes[c] # "UNKNOWN" /\ kbd_reg_keycodes[c] # "PRINT"
    BY DEF kbd_reg_keycodes
  <2> QED
    BY <1>2, <2>1, <2>2
<1>5. "UNKNOWN" \notin AllKeys /\ "PRINT" \notin AllKeys
  BY <1>3, <1>4 DEF AllKeys
<1> QED
  BY <1>1, <1>2, <1>5

\* The code of a byte, its direction, and what the driver finds for it.
Code(sc) == IF sc > 128 THEN sc - 128 ELSE sc
TypeOf(sc) == IF sc > 128 THEN "KEY_RELEASED" ELSE "KEY_PRESSED"
FoundExt(sc) == Lookup(kbd_ext_keycodes, ExtLength, Code(sc))
FoundReg(sc) == Lookup(kbd_reg_keycodes, RegLength, Code(sc))

\* The driver finds a key of the tables or nothing.
LEMMA FoundIs ==
  ASSUME NEW sc \in Nat
  PROVE  /\ FoundExt(sc) \subseteq AllKeys \cup {"UNKNOWN"}
         /\ FoundReg(sc) \subseteq AllKeys \cup {"UNKNOWN"}
<1>1. ASSUME NEW t, NEW n \in Nat, NEW c \in Nat,
             {t[d] : d \in DOMAIN t} \subseteq AllKeys
      PROVE  Lookup(t, n, c) \subseteq AllKeys \cup {"UNKNOWN"}
  BY <1>1 DEF Lookup
<1>2. /\ {kbd_reg_keycodes[c] : c \in DOMAIN kbd_reg_keycodes} \subseteq AllKeys
      /\ {kbd_ext_keycodes[c] : c \in DOMAIN kbd_ext_keycodes} \subseteq AllKeys
  BY DEF AllKeys
<1>3. Code(sc) \in Nat
  BY DEF Code
<1>4. RegLength \in Nat /\ ExtLength \in Nat
  BY DEF RegLength, ExtLength
<1> QED
  BY <1>1, <1>2, <1>3, <1>4 DEF FoundReg, FoundExt

\* The code of an entry finds it, pressed and released.
Up(type) == IF type = "KEY_RELEASED" THEN 128 ELSE 0
LEMMA CodeFound ==
  ASSUME NEW c \in 1 .. 88, NEW type \in Types,
         NEW sc, sc = c + Up(type)
  PROVE  /\ sc \in Nat /\ sc # 224 /\ TypeOf(sc) = type /\ Code(sc) = c
         /\ c \in DOMAIN kbd_reg_keycodes => FoundReg(sc) = {kbd_reg_keycodes[c]}
         /\ c \in DOMAIN kbd_ext_keycodes => FoundExt(sc) = {kbd_ext_keycodes[c]}
<1>1. sc \in Nat /\ sc # 224 /\ TypeOf(sc) = type /\ Code(sc) = c
  BY DEF Types, TypeOf, Code, Up
<1>2. ~(c >= RegLength) /\ ~(c >= ExtLength)
  BY DEF RegLength, ExtLength
<1> QED
  BY <1>1, <1>2 DEF FoundReg, FoundExt, Lookup

\* The bytes of a key of the tables: a prefix or none, then the code that finds
\* the key.
PlainCode(B, key, type) ==
  \E b \in Nat : B = <<b>> /\ b # 224 /\ TypeOf(b) = type /\ FoundReg(b) = {key}
ExtendedCode(B, key, type) ==
  \E b \in Nat : B = <<224, b>> /\ b # 224 /\ TypeOf(b) = type /\ FoundExt(b) = {key}
LEMMA KnownBytes ==
  ASSUME NEW key \in AllKeys, NEW type \in Types
  PROVE  PlainCode(Bytes(key, type), key, type) \/ ExtendedCode(Bytes(key, type), key, type)
<1> DEFINE up == Up(type)
           code(t) == CHOOSE c \in DOMAIN t : t[c] = key
<1>1. key # "PRINT"
  BY Tables
<1>2. CASE \E c \in DOMAIN kbd_ext_keycodes : kbd_ext_keycodes[c] = key
  <2>1. Bytes(key, type) = <<224, code(kbd_ext_keycodes) + up>>
    BY <1>1, <1>2 DEF Bytes, Up
  <2>2. PICK c \in DOMAIN kbd_ext_keycodes :
               c = code(kbd_ext_keycodes) /\ kbd_ext_keycodes[c] = key
    BY <1>2
  <2>3. PICK sc : sc = c + up
    OBVIOUS
  <2>4. c \in 1 .. 88
    BY Tables
  <2>5. sc \in Nat /\ sc # 224 /\ TypeOf(sc) = type /\ FoundExt(sc) = {kbd_ext_keycodes[c]}
    BY <2>3, <2>4, CodeFound
  <2>6. Bytes(key, type) = <<224, sc>>
    <3>1. code(kbd_ext_keycodes) + up = sc
      BY <2>2, <2>3
    <3> HIDE DEF code, up
    <3> QED
      BY <2>1, <3>1, Zenon
  <2> QED
    BY <2>2, <2>5, <2>6 DEF ExtendedCode
<1>3. CASE ~ \E c \in DOMAIN kbd_ext_keycodes : kbd_ext_keycodes[c] = key
  <2>1. Bytes(key, type) = <<code(kbd_reg_keycodes) + up>>
    BY <1>1, <1>3 DEF Bytes, Up
  <2>2. \E c \in DOMAIN kbd_reg_keycodes : kbd_reg_keycodes[c] = key
    BY <1>3 DEF AllKeys
  <2>3. PICK c \in DOMAIN kbd_reg_keycodes :
               c = code(kbd_reg_keycodes) /\ kbd_reg_keycodes[c] = key
    BY <2>2
  <2>4. PICK sc : sc = c + up
    OBVIOUS
  <2>5. c \in 1 .. 88
    BY Tables
  <2>6. sc \in Nat /\ sc # 224 /\ TypeOf(sc) = type /\ FoundReg(sc) = {kbd_reg_keycodes[c]}
    BY <2>4, <2>5, CodeFound
  <2>7. Bytes(key, type) = <<sc>>
    <3>1. code(kbd_reg_keycodes) + up = sc
      BY <2>3, <2>4
    <3> HIDE DEF code, up
    <3> QED
      BY <2>1, <3>1, Zenon
  <2> QED
    BY <2>3, <2>6, <2>7 DEF PlainCode
<1> QED
  BY <1>2, <1>3

\* The bytes of the key without a name are found nowhere.
Nameless(b) == b \in Nat /\ b # 224 /\ FoundExt(b) = {"UNKNOWN"}
LEMMA PrintBytes ==
  ASSUME NEW key, key = "PRINT", NEW type \in Types
  PROVE  \E b, c : Bytes(key, type) = <<224, b, 224, c>> /\ Nameless(b) /\ Nameless(c)
<1>1. \A sc \in {42, 55, 183, 170} : Nameless(sc)
  <2>1. \A sc \in {42, 55, 183, 170} : Code(sc) \in {42, 55} /\ sc \in Nat /\ sc # 224
    BY DEF Code
  <2>2. \A c \in {42, 55} : ~(c >= ExtLength) /\ c \notin DOMAIN kbd_ext_keycodes
    BY Tables DEF ExtLength
  <2> QED
    BY <2>1, <2>2 DEF FoundReg, FoundExt, Lookup, Nameless
<1>2. /\ type = "KEY_RELEASED" => Bytes(key, type) = <<224, 183, 224, 170>>
      /\ type # "KEY_RELEASED" => Bytes(key, type) = <<224, 42, 224, 55>>
  <2>1. \A c \in DOMAIN kbd_ext_keycodes : kbd_ext_keycodes[c] # key
    BY Tables DEF AllKeys
  <2> QED
    BY <2>1 DEF Bytes
<1> QED
  BY <1>1, <1>2

\* What the rest of the argument knows of the bytes of a stroke: prefixes are at
\* odd places and never last; a code read with the flag that belongs to its place
\* is that of the stroke's key, or of none.
ByteFacts(B, key, type) ==
  /\ B \in Seq(Nat) /\ Len(B) \in {1, 2, 4}
  /\ key \in AllKeys => Len(B) <= 2
  /\ \A a \in 1 .. Len(B) :
       /\ B[a] \in Nat
       /\ B[a] = 224 => a < Len(B) /\ a + 1 \in {2, 4}
       /\ B[a] # 224 /\ a < Len(B) => a = 2 /\ key \notin AllKeys
       /\ B[a] # 224 /\ key \in AllKeys =>
            /\ TypeOf(B[a]) = type
            /\ a \in {2, 4} => FoundExt(B[a]) = {key}
            /\ a \notin {2, 4} => FoundReg(B[a]) = {key}
       /\ B[a] # 224 /\ key \notin AllKeys =>
            a \in {2, 4} /\ FoundExt(B[a]) = {"UNKNOWN"}
LEMMA BytesAre ==
  ASSUME NEW key \in Known, NEW type \in Types
  PROVE  ByteFacts(Bytes(key, type), key, type)
<1> DEFINE B == Bytes(key, type)
<1>1. CASE key \in AllKeys
  <2>1. CASE PlainCode(B, key, type)
    <3>1. PICK b \in Nat : B = <<b>> /\ b # 224 /\ TypeOf(b) = type /\ FoundReg(b) = {key}
      BY <2>1 DEF PlainCode
    <3> HIDE DEF B
    <3>2. B \in Seq(Nat) /\ Len(B) = 1 /\ B[1] = b
      BY <3>1
    <3>3. \A a \in 1 .. Len(B) : a = 1
      BY <3>2
    <3> QED
      BY <1>1, <3>1, <3>2, <3>3 DEF B, ByteFacts
  <2>2. CASE ExtendedCode(B, key, type)
    <3>1. PICK b \in Nat : B = <<224, b>> /\ b # 224 /\ TypeOf(b) = type /\ FoundExt(b) = {key}
      BY <2>2 DEF ExtendedCode
    <3> HIDE DEF B
    <3>2. B \in Seq(Nat) /\ Len(B) = 2 /\ B[1] = 224 /\ B[2] = b
      BY <3>1
    <3>3. \A a \in 1 .. Len(B) : a = 1 \/ a = 2
      BY <3>2
    <3> QED
      BY <1>1, <3>1, <3>2, <3>3 DEF B, ByteFacts
  <2> QED
    BY <1>1, <2>1, <2>2, KnownBytes
<1>2. CASE key \notin AllKeys
  <2>1. PICK b, c : B = <<224, b, 224, c>> /\ Nameless(b) /\ Nameless(c)
    BY <1>2, PrintBytes DEF Known
  <2> HIDE DEF B
  <2>2. /\ B \in Seq(Nat) /\ Len(B) = 4
        /\ B[1] = 224 /\ B[2] = b /\ B[3] = 224 /\ B[4] = c
    BY <2>1 DEF Nameless
  <2>3. \A a \in 1 .. Len(B) : a = 1 \/ a = 2 \/ a = 3 \/ a = 4
    BY <2>2
  <2> QED
    BY <1>2, <2>1, <2>2, <2>3 DEF B, Nameless, ByteFacts
<1> QED
  BY <1>1, <1>2

\* Entries of the keymaps.
LEMMA Keymaps ==
  ASSUME NEW l, NEW key
  PROVE  LET ent == getkeymapentry(l, key)
         IN  ent.reg \in Chars /\ ent.shift \in Chars /\ ent.altgr \in Chars
<1>1. \A f, a, b, c : LET ent == Entry(f, a, b, c)
                      IN  ent.reg = a /\ ent.shift = b /\ ent.altgr = c
  BY DEF Entry
<1>2. \A f, a, b, c : a \in Chars /\ b \in Chars /\ c \in Chars =>
        LET ent == Entry(f, a, b, c)
        IN  ent.reg \in Chars /\ ent.shift \in Chars /\ ent.altgr \in Chars
  BY <1>1
<1>3. /\ "0" \in Chars /\ "a" \in Chars /\ "A" \in Chars /\ "q" \in Chars /\ "Q" \in Chars
      /\ "2" \in Chars /\ "@" \in Chars /\ "e" \in Chars /\ "~" \in Chars /\ "'" \in Chars
      /\ "quote" \in Chars /\ "%" \in Chars /\ "8" \in Chars /\ "nl" \in Chars
  BY DEF Chars
<1> DEFINE ok(ent) == ent.reg \in Chars /\ ent.shift \in Chars /\ ent.altgr \in Chars
<1>4. ok(US104_getkeymapentry(key))
  BY <1>2, <1>3 DEF US104_getkeymapentry, NoEntry
<1>5. ok(FR_getkeymapentry(key))
  BY <1>2, <1>3, <1>4 DEF FR_getkeymapentry
<1> QED
  BY <1>4, <1>5 DEF getkeymapentry

\* KBD_getchar returns one of the characters.
LEMMA GetcharIn == \A key : KBD_getchar(key) \in Chars
<1> SUFFICES ASSUME NEW key PROVE KBD_getchar(key) \in Chars
  OBVIOUS
<1> DEFINE ent == getkeymapentry(layout, key)
<1>1. ent.reg \in Chars /\ ent.shift \in Chars /\ ent.altgr \in Chars /\ "0" \in Chars
  BY Keymaps DEF Chars
<1> HIDE DEF ent
<1> QED
  BY <1>1 DEF KBD_getchar, ent

\* A key without a regular character has none at all in that layout; the others
\* lose theirs in KBD_getchar (keyboard.c:181).
HasRegular(key) ==
  \A l \in Layouts : getkeymapentry(l, key).reg = "0" => getkeymapentry(l, key) = NoEntry

\* KBD_getchar agrees with the flags when the modifiers do.
LEMMA GetcharIs ==
  ASSUME NEW key, HasRegular(key), NEW with, modifiers = with \cap Mods, layout \in Layouts
  PROVE  KBD_getchar(key) = Wanted(layout, key, with)
<1> DEFINE ent == getkeymapentry(layout, key)
           shift == with \cap Shifts # {}
           caps == "KEY_CAPS_LOCK" \in with
           altgr == "KEY_RIGHT_ALT" \in with
<1>1. /\ (modifiers \cap Shifts # {}) <=> shift
      /\ ("KEY_CAPS_LOCK" \in modifiers) <=> caps
      /\ ("KEY_RIGHT_ALT" \in modifiers) <=> altgr
  BY DEF Mods, HoldModifiers, Locks, Shifts
<1>2. ent.reg = "0" => ent.reg = "0" /\ ent.shift = "0" /\ ent.altgr = "0"
  BY DEF HasRegular, NoEntry, Entry
<1>3. KBD_getchar(key) =
        IF ent.reg = "0" THEN "0"
        ELSE IF ent.flag = "NO_MOD" THEN ent.reg
        ELSE IF altgr THEN ent.altgr
        ELSE IF caps /\ ent.flag = "CAPSLOCK" THEN IF shift THEN ent.reg ELSE ent.shift
        ELSE IF shift THEN ent.shift ELSE ent.reg
  BY <1>1 DEF KBD_getchar
<1>4. Wanted(layout, key, with) =
        IF ent.flag = "NO_MOD" THEN ent.reg
        ELSE IF altgr THEN ent.altgr
        ELSE IF shift # (caps /\ ent.flag = "CAPSLOCK") THEN ent.shift ELSE ent.reg
  BY DEF Wanted
<1>5. (shift # (caps /\ ent.flag = "CAPSLOCK")) <=> ~(shift <=> (caps /\ ent.flag = "CAPSLOCK"))
  OBVIOUS
<1> HIDE DEF ent
<1>6. CASE ent.reg = "0"
  BY <1>2, <1>3, <1>4, <1>6
<1>7. CASE ent.reg # "0" /\ ent.flag = "CAPSLOCK"
  BY <1>3, <1>4, <1>5, <1>7
<1>8. CASE ent.reg # "0" /\ ent.flag # "CAPSLOCK"
  BY <1>3, <1>4, <1>5, <1>8
<1> QED
  BY <1>6, <1>7, <1>8

-----------------------------------------------------------------------------
(***************************************************************************)
(* The position of the driver                                              *)
(***************************************************************************)

\* The bytes of a stroke that was sent.
LEMMA StrokeIs ==
  ASSUME KTypes, NEW i \in 1 .. Len(sent)
  PROVE  sent[i].key \in KEYS /\ sent[i].key \in Known /\ sent[i].type \in Types
<1>1. sent[i] \in Strokes
  BY DEF KTypes
<1>2. sent[i].key \in KEYS /\ sent[i].type \in Types
  BY <1>1 DEF Strokes
<1> QED
  BY <1>2, KeyboardAssumption DEF Known

\* The position lies on a stroke that was sent, or on the next one.
LEMMA PositionIs ==
  ASSUME KTypes, FifoInv
  PROVE  /\ HereStroke \in 1 .. (Len(sent) + 1) /\ HereAt \in Nat \ {0}
         /\ fifo = <<>> => HereStroke = Len(sent) + 1 /\ HereAt = 1
         /\ fifo # <<>> => /\ Head(fifo) \in Items /\ Head(fifo) = fifo[1]
                           /\ Head(fifo).stroke = HereStroke
                           /\ HereStroke \in 1 .. Len(sent)
                           /\ HereAt \in 1 .. Len(BytesOf(HereStroke))
                           /\ Head(fifo).byte = BytesOf(HereStroke)[HereAt]
<1>1. Len(sent) \in Nat /\ fifo \in Seq(Items)
  BY DEF KTypes
<1>2. CASE fifo = <<>>
  BY <1>1, <1>2 DEF HereStroke, HereAt
<1>3. CASE fifo # <<>>
  <2>1. Len(fifo) >= 1 /\ Head(fifo) = fifo[1] /\ fifo[1] \in Items /\ 1 \in 1 .. Len(fifo)
    BY <1>1, <1>3
  <2>2. ItemOK(fifo[1])
    BY <2>1 DEF FifoInv
  <2>3. HereStroke = fifo[1].stroke /\ HereAt = fifo[1].at
    BY <1>3, <2>1 DEF HereStroke, HereAt
  <2>4. /\ HereStroke \in 1 .. Len(sent) /\ HereAt \in 1 .. Len(BytesOf(HereStroke))
        /\ fifo[1].byte = BytesOf(HereStroke)[HereAt]
    BY <2>2, <2>3 DEF ItemOK
  <2>5. Len(BytesOf(HereStroke)) \in Nat
    <3>1. ByteFacts(BytesOf(HereStroke), sent[HereStroke].key, sent[HereStroke].type)
      BY <2>4, StrokeIs, BytesAre DEF BytesOf
    <3> QED
      BY <3>1 DEF ByteFacts
  <2> QED
    BY <1>1, <1>3, <2>1, <2>3, <2>4, <2>5
<1> QED
  BY <1>2, <1>3

\* A byte leaves the queue: the position is that of the next one.
LEMMA Moved ==
  ASSUME KTypes, FifoInv, fifo # <<>>, fifo' = Tail(fifo), sent' = sent
  PROVE  LET s == HereStroke
             a == HereAt
         IN  /\ fifo' \in Seq(Items) /\ FifoInv'
             /\ \/ a < Len(BytesOf(s)) /\ HereStroke' = s /\ HereAt' = a + 1
                \/ a = Len(BytesOf(s)) /\ HereStroke' = s + 1 /\ HereAt' = 1
<1> DEFINE s == HereStroke
           a == HereAt
           n == Len(fifo)
           t == Tail(fifo)
<1>1. fifo \in Seq(Items) /\ n \in Nat /\ n >= 1 /\ Len(sent) \in Nat
  BY DEF KTypes
<1>2. /\ t \in Seq(Items) /\ Len(t) = n - 1
      /\ \A k \in 1 .. (n - 1) : t[k] = fifo[k + 1]
  BY <1>1
<1>3. s = fifo[1].stroke /\ a = fifo[1].at
  BY <1>1 DEF HereStroke, HereAt
<1>4. /\ \A i : BytesOf(i)' = BytesOf(i)
      /\ \A e : ItemOK(e)' <=> ItemOK(e)
      /\ \A e, f : Follows(e, f)' <=> Follows(e, f)
  <2>1. \A i : BytesOf(i)' = BytesOf(i)
    BY DEF BytesOf
  <2>2. \A e : ItemOK(e)' <=> ItemOK(e)
    BY <2>1 DEF ItemOK
  <2>3. \A e, f : Follows(e, f)' <=> Follows(e, f)
    BY <2>1 DEF Follows
  <2> QED
    BY <2>1, <2>2, <2>3
<1>5. t = <<>> <=> n = 1
  <2>1. t = <<>> <=> Len(t) = 0
    BY <1>2, EmptySeq
  <2> QED
    BY <1>1, <1>2, <2>1
<1> HIDE DEF t, n
<1>6. FifoInv'
  <2>1. \A k \in 1 .. (n - 1) : k + 1 \in 1 .. n /\ (k < n - 1 => k + 1 < n)
    BY <1>1
  <2>2. \A k \in 1 .. (n - 1) : ItemOK(t[k])
    BY <1>2, <2>1 DEF FifoInv, n
  <2>3. \A k \in 1 .. (n - 1) : k < n - 1 => Follows(t[k], t[k + 1])
    <3>1. \A k \in 1 .. (n - 1) : k < n - 1 => k + 1 \in 1 .. (n - 1)
      BY <1>1
    <3> QED
      BY <1>2, <2>1, <3>1 DEF FifoInv, n
  <2>4. t # <<>> => t[n - 1] = fifo[n]
    BY <1>1, <1>2, <1>5
  <2>5. t # <<>> => t[n - 1].stroke = Len(sent) /\ t[n - 1].at = Len(BytesOf(Len(sent)))
    BY <2>4 DEF FifoInv, n
  <2>6. fifo' = t /\ Len(fifo') = n - 1
    BY <1>2 DEF t
  <2> QED
    BY <1>4, <2>2, <2>3, <2>5, <2>6 DEF FifoInv
<1>7. CASE n = 1
  <2>1. fifo[1].stroke = Len(sent) /\ fifo[1].at = Len(BytesOf(Len(sent)))
    BY <1>7 DEF FifoInv, n
  <2>2. fifo' = <<>>
    BY <1>5, <1>7 DEF t
  <2>3. HereStroke' = Len(sent) + 1 /\ HereAt' = 1
    BY <2>2 DEF HereStroke, HereAt
  <2>4. s = Len(sent) /\ a = Len(BytesOf(s))
    BY <1>3, <2>1
  <2> QED
    BY <1>2, <1>6, <2>3, <2>4 DEF t
<1>8. CASE n # 1
  <2>1. 1 \in 1 .. n /\ 1 < n /\ 1 \in 1 .. (n - 1)
    BY <1>1, <1>8
  <2>2. Follows(fifo[1], fifo[2])
    <3>1. 1 + 1 = 2
      OBVIOUS
    <3> QED
      BY <2>1, <3>1 DEF FifoInv, n
  <2>3. fifo' # <<>> /\ Head(fifo') = fifo[2]
    BY <1>2, <1>5, <1>8, <2>1 DEF t
  <2>4. HereStroke' = fifo[2].stroke /\ HereAt' = fifo[2].at
    BY <2>3 DEF HereStroke, HereAt
  <2> QED
    BY <1>2, <1>3, <1>6, <2>2, <2>4 DEF Follows, t
<1> QED
  BY <1>7, <1>8

\* A stroke is added to the history.
LEMMA Recorded ==
  ASSUME KTypes, NEW key \in KEYS, NEW type \in Types, Stroke(key, type)
  PROVE  /\ sent' \in Seq(Strokes) /\ Len(sent') = Len(sent) + 1
         /\ \A i \in 1 .. Len(sent) : sent'[i] = sent[i]
         /\ sent'[Len(sent) + 1].key = key /\ sent'[Len(sent) + 1].type = type
         /\ sent'[Len(sent) + 1].with = (held \ Locks) \cup locks
         /\ key \in Known
<1> DEFINE w == (held \ Locks) \cup locks
           rec == [key |-> key, type |-> type, with |-> w]
<1>1. key \in Known
  BY KeyboardAssumption DEF Known
<1>2. w \in SUBSET (Known \cup Locks)
  BY DEF KTypes
<1> HIDE DEF w
<1>3. rec \in Strokes /\ rec.key = key /\ rec.type = type /\ rec.with = w
  BY <1>1, <1>2 DEF Strokes
<1>4. sent \in Seq(Strokes) /\ sent' = Append(sent, rec)
  BY DEF KTypes, Stroke, w
<1> HIDE DEF rec
<1>5. /\ sent' \in Seq(Strokes) /\ Len(sent') = Len(sent) + 1
      /\ \A i \in 1 .. Len(sent) : sent'[i] = sent[i]
      /\ sent'[Len(sent) + 1] = rec
  BY <1>3, <1>4
<1> QED
  BY <1>1, <1>3, <1>5 DEF w

\* Its bytes go to the end of the queue; the position stays.
LEMMA Struck ==
  ASSUME KTypes, FifoInv, NEW key \in KEYS, NEW type \in Types, Stroke(key, type)
  PROVE  /\ fifo' \in Seq(Items) /\ FifoInv'
         /\ HereStroke' = HereStroke /\ HereAt' = HereAt
<1>0. PICK s : s = Len(sent) + 1
  OBVIOUS
<1> DEFINE B == Bytes(key, type)
           item(i) == [byte |-> B[i], stroke |-> s, at |-> i]
           add == [i \in 1 .. Len(B) |-> item(i)]
           n == Len(fifo)
           b == Len(B)
<1>1. /\ sent' \in Seq(Strokes) /\ Len(sent') = s /\ key \in Known
      /\ \A i \in 1 .. Len(sent) : sent'[i] = sent[i]
      /\ sent'[s].key = key /\ sent'[s].type = type
  BY <1>0, Recorded
<1>2. Len(sent) \in Nat /\ s \in Nat /\ fifo \in Seq(Items) /\ n \in Nat
  BY <1>0 DEF KTypes
<1>3. b \in Nat /\ b >= 1 /\ \A i \in 1 .. b : B[i] \in Nat
  <2>1. B \in Seq(Nat) /\ Len(B) \in {1, 2, 4} /\ \A i \in 1 .. Len(B) : B[i] \in Nat
    BY <1>1, BytesAre DEF ByteFacts
  <2>2. b \in {1, 2, 4}
    BY <2>1
  <2>3. b \in Nat /\ b >= 1
    BY <2>2
  <2> QED
    BY <2>1, <2>3
<1>4. fifo' = fifo \o add
  BY <1>0 DEF Stroke
<1>5. BytesOf(s)' = B
  BY <1>1 DEF BytesOf
<1>6. \A i \in 1 .. Len(sent) : BytesOf(i)' = BytesOf(i)
  BY <1>1 DEF BytesOf
<1> HIDE DEF B, b
<1>7. \A i \in 1 .. b : item(i) \in Items
  BY <1>2, <1>3 DEF Items
<1> DEFINE A == [i \in 1 .. b |-> item(i)]
<1>8. add = A
  BY DEF b
<1> HIDE DEF item, add
<1>9. A \in Seq(Items) /\ Len(A) = b /\ \A i \in 1 .. b : A[i] = item(i)
  <2>1. A \in [1 .. b -> Items]
    BY <1>7
  <2> QED
    BY <1>3, <2>1
<1> HIDE DEF A, n
<1>10. /\ fifo' \in Seq(Items) /\ Len(fifo') = n + b
       /\ \A k \in 1 .. n : fifo'[k] = fifo[k]
       /\ \A k \in 1 .. b : fifo'[n + k] = item(k)
  <2>1. fifo' = fifo \o A
    BY <1>4, <1>8
  <2>2. /\ fifo' \in Seq(Items) /\ Len(fifo') = n + b
        /\ \A k \in 1 .. (n + b) : fifo'[k] = IF k <= n THEN fifo[k] ELSE A[k - n]
    BY <1>2, <1>3, <1>9, <2>1, ConcatProperties DEF n
  <2>3. \A k \in 1 .. b : n + k \in 1 .. (n + b) /\ ~(n + k <= n) /\ (n + k) - n = k
    BY <1>2, <1>3
  <2>4. \A k \in 1 .. n : k \in 1 .. (n + b) /\ k <= n
    BY <1>2, <1>3
  <2> QED
    BY <1>9, <2>2, <2>3, <2>4
<1>11. \A k \in 1 .. b : item(k).byte = B[k] /\ item(k).stroke = s /\ item(k).at = k
  BY DEF item
<1>12. fifo' # <<>>
  BY <1>2, <1>3, <1>10, EmptySeq
<1>13. \A k \in 1 .. n : ItemOK(fifo[k]) /\ ItemOK(fifo[k])'
  <2> SUFFICES ASSUME NEW k \in 1 .. n
               PROVE  ItemOK(fifo[k]) /\ ItemOK(fifo[k])'
    OBVIOUS
  <2>1. ItemOK(fifo[k])
    BY DEF FifoInv, n
  <2>2. fifo'[k] = fifo[k]
    BY <1>10
  <2>3. fifo[k].stroke \in 1 .. Len(sent) /\ fifo[k].stroke \in 1 .. Len(sent')
    BY <1>0, <1>1, <1>2, <2>1 DEF ItemOK
  <2> QED
    BY <1>6, <2>1, <2>2, <2>3 DEF ItemOK
<1>14. \A k \in 1 .. (n + b) : ItemOK(fifo[k])'
  <2> SUFFICES ASSUME NEW k \in 1 .. (n + b)
               PROVE  ItemOK(fifo[k])'
    OBVIOUS
  <2>1. CASE k <= n
    <3>1. k \in 1 .. n
      BY <1>2, <2>1
    <3> QED
      BY <1>13, <3>1
  <2>2. CASE ~(k <= n)
    <3>1. PICK j \in 1 .. b : k = n + j
      <4>1. k - n \in 1 .. b /\ k = n + (k - n)
        BY <1>2, <1>3, <2>2
      <4> QED
        BY <4>1
    <3>2. fifo'[k] = item(j)
      BY <1>10, <3>1
    <3>3. fifo'[k].byte = B[j] /\ fifo'[k].stroke = s /\ fifo'[k].at = j
      BY <1>11, <3>2
    <3>4. s \in 1 .. Len(sent')
      BY <1>0, <1>1, <1>2
    <3> QED
      BY <1>5, <3>3, <3>4 DEF ItemOK, b
  <2> QED
    BY <2>1, <2>2
<1>15. n > 0 => fifo[n].stroke = Len(sent) /\ fifo[n].at = Len(BytesOf(Len(sent)))
  <2>1. n > 0 => fifo # <<>>
    BY EmptySeq DEF n
  <2> QED
    BY <2>1 DEF FifoInv, n
<1>16. \A k \in 1 .. (n + b) : k < n + b => Follows(fifo[k], fifo[k + 1])'
  <2> SUFFICES ASSUME NEW k \in 1 .. (n + b), k < n + b
               PROVE  Follows(fifo[k], fifo[k + 1])'
    OBVIOUS
  <2>1. CASE k < n
    <3>1. k \in 1 .. n /\ k + 1 \in 1 .. n /\ k < Len(fifo)
      BY <1>2, <2>1 DEF n
    <3>2. Follows(fifo[k], fifo[k + 1]) /\ ItemOK(fifo[k])
      BY <1>13, <3>1 DEF FifoInv, n
    <3>3. fifo'[k] = fifo[k] /\ fifo'[k + 1] = fifo[k + 1]
      BY <1>10, <3>1
    <3>4. fifo[k].stroke \in 1 .. Len(sent)
      BY <3>2 DEF ItemOK
    <3>5. PICK x : x = fifo[k].stroke
      OBVIOUS
    <3>6. BytesOf(x)' = BytesOf(x)
      BY <1>6, <3>4, <3>5
    <3> QED
      BY <3>2, <3>3, <3>5, <3>6 DEF Follows, BytesOf
  <2>2. CASE k = n
    <3>1. n > 0 /\ 1 \in 1 .. b /\ k \in 1 .. n
      BY <1>2, <1>3, <2>2
    <3>2. fifo'[k].stroke = Len(sent) /\ fifo'[k].at = Len(BytesOf(Len(sent)))
      BY <1>10, <1>15, <2>2, <3>1
    <3>3. fifo'[k + 1].stroke = s /\ fifo'[k + 1].at = 1
      BY <1>10, <1>11, <2>2, <3>1
    <3>4. Len(sent) \in 1 .. Len(sent)
      <4>1. ItemOK(fifo[n])
        BY <1>13, <2>2, <3>1
      <4> QED
        BY <1>2, <1>15, <3>1, <4>1 DEF ItemOK
    <3>5. PICK x : x = Len(sent)
      OBVIOUS
    <3>6. BytesOf(x)' = BytesOf(x)
      BY <1>6, <3>4, <3>5
    <3> QED
      BY <1>0, <3>2, <3>3, <3>5, <3>6 DEF Follows, BytesOf
  <2>3. CASE k > n
    <3>1. PICK j \in 1 .. b : k = n + j
      <4>1. k - n \in 1 .. b /\ k = n + (k - n)
        BY <1>2, <1>3, <2>3
      <4> QED
        BY <4>1
    <3>2. j + 1 \in 1 .. b /\ k + 1 = n + (j + 1) /\ j < b
      BY <1>2, <1>3, <3>1
    <3>3. fifo'[k] = item(j) /\ fifo'[k + 1] = item(j + 1)
      BY <1>10, <3>1, <3>2
    <3>4. fifo'[k].stroke = s /\ fifo'[k].at = j /\ fifo'[k + 1].stroke = s /\ fifo'[k + 1].at = j + 1
      BY <1>11, <3>2, <3>3
    <3>5. Len(BytesOf(s)') = b
      BY <1>5 DEF b
    <3> QED
      BY <3>2, <3>4, <3>5 DEF Follows, BytesOf
  <2> QED
    BY <1>2, <2>1, <2>2, <2>3
<1>17. FifoInv'
  <2>1. fifo'[n + b].stroke = s /\ fifo'[n + b].at = b
    <3>1. b \in 1 .. b
      BY <1>3
    <3> QED
      BY <1>10, <1>11, <3>1
  <2>2. Len(BytesOf(s)') = b
    BY <1>5 DEF b
  <2> QED
    BY <1>1, <1>10, <1>14, <1>16, <2>1, <2>2 DEF FifoInv, BytesOf
<1>18. HereStroke' = HereStroke /\ HereAt' = HereAt
  <2>1. Head(fifo') = fifo'[1]
    BY <1>10, <1>12
  <2>2. CASE fifo = <<>>
    <3>1. n = 0 /\ 1 \in 1 .. b /\ n + 1 = 1
      BY <1>3, <2>2 DEF n
    <3>2. fifo'[1] = item(1)
      BY <1>10, <3>1
    <3>3. fifo'[1].stroke = s /\ fifo'[1].at = 1
      BY <1>11, <3>1, <3>2
    <3> QED
      BY <1>0, <1>12, <2>1, <2>2, <3>3 DEF HereStroke, HereAt
  <2>3. CASE fifo # <<>>
    <3>1. 1 \in 1 .. n /\ Head(fifo) = fifo[1]
      BY <1>2, <2>3, EmptySeq DEF n
    <3> QED
      BY <1>10, <1>12, <2>1, <2>3, <3>1 DEF HereStroke, HereAt
  <2> QED
    BY <2>2, <2>3
<1> QED
  BY <1>10, <1>17, <1>18

-----------------------------------------------------------------------------
(***************************************************************************)
(* What a byte is decoded to                                               *)
(***************************************************************************)

\* What KeyCode finds for the byte at the head, and the event it makes of it.
Read == IF kbd_ext THEN FoundExt(Head(fifo).byte) ELSE FoundReg(Head(fifo).byte)
EventOf(key) ==
  [key |-> key, type |-> TypeOf(Head(fifo).byte), stroke |-> Head(fifo).stroke,
   char |-> IF TypeOf(Head(fifo).byte) = "KEY_PRESSED" THEN KBD_getchar(key) ELSE "0",
   layout |-> layout]

\* KeyCode in these terms.
LEMMA KeyCodeIs ==
  ASSUME KeyCode
  PROVE  /\ fifo # <<>> /\ Head(fifo).byte # 224 /\ fifo' = Tail(fifo) /\ kbd_ext' = FALSE
         /\ UNCHANGED <<held, locks, sent, lost, layout>>
         /\ \E key \in Read :
              /\ modifiers' = SetMods(modifiers, key, TypeOf(Head(fifo).byte))
              /\ \/ key = "UNKNOWN" /\ events' = events
                 \/ key # "UNKNOWN" /\ events' = Append(events, EventOf(key))
BY DEF KeyCode, KeyEvent, Read, FoundExt, FoundReg, Code, TypeOf, EventOf, SetMods,
       set_modifiers

\* The event of a key has its type.
LEMMA EventIs ==
  ASSUME KTypes, FifoInv, fifo # <<>>, NEW key \in AllKeys
  PROVE  /\ EventOf(key) \in EventRecs
         /\ EventOf(key).key = key /\ EventOf(key).stroke = HereStroke
         /\ EventOf(key).type = TypeOf(Head(fifo).byte)
         /\ EventOf(key).layout = layout
         /\ EventOf(key).type = "KEY_PRESSED" => EventOf(key).char = KBD_getchar(key)
<1> DEFINE ty == TypeOf(Head(fifo).byte)
           ch == IF ty = "KEY_PRESSED" THEN KBD_getchar(key) ELSE "0"
<1>1. ty \in Types
  BY DEF TypeOf, Types
<1>2. ch \in Chars
  <2>1. KBD_getchar(key) \in Chars /\ "0" \in Chars
    BY GetcharIn DEF Chars
  <2> QED
    BY <2>1
<1>3. Head(fifo).stroke \in Nat /\ Head(fifo).stroke = HereStroke
  BY PositionIs DEF Items
<1>4. layout \in Layouts
  BY DEF KTypes
<1>5. EventOf(key) = [key |-> key, type |-> ty, stroke |-> Head(fifo).stroke,
                      char |-> ch, layout |-> layout]
  BY DEF EventOf
<1>6. ty = "KEY_PRESSED" => ch = KBD_getchar(key)
  OBVIOUS
<1> HIDE DEF ty, ch
<1> QED
  BY <1>1, <1>2, <1>3, <1>4, <1>5, <1>6 DEF EventRecs, ty

\* The byte of a stroke that got through is decoded to its key, at the end of
\* its bytes, or to nothing.
LEMMA Decoded ==
  ASSUME KTypes, FifoInv, PrefixInv, fifo # <<>>, Head(fifo).byte # 224,
         Intact(HereStroke), NEW key \in Read
  PROVE  /\ sent[HereStroke].key \in AllKeys =>
              /\ key = sent[HereStroke].key
              /\ TypeOf(Head(fifo).byte) = sent[HereStroke].type
              /\ HereAt = Len(BytesOf(HereStroke))
         /\ sent[HereStroke].key \notin AllKeys => key = "UNKNOWN"
<1>1. PICK s, a : s = HereStroke /\ a = HereAt
  OBVIOUS
<1>2. /\ s \in 1 .. Len(sent) /\ a \in 1 .. Len(BytesOf(s))
      /\ Head(fifo).byte = BytesOf(s)[a]
  BY <1>1, PositionIs
<1>3. sent[s].key \in Known /\ sent[s].type \in Types
  BY <1>2, StrokeIs
<1>4. kbd_ext <=> a \in {2, 4}
  BY <1>1 DEF PrefixInv
<1> DEFINE sc == BytesOf(s)[a]
<1>5. /\ Len(BytesOf(s)) \in {1, 2, 4}
      /\ sc # 224 /\ a < Len(BytesOf(s)) => sent[s].key \notin AllKeys
      /\ sc # 224 /\ sent[s].key \in AllKeys =>
           /\ TypeOf(sc) = sent[s].type
           /\ a \in {2, 4} => FoundExt(sc) = {sent[s].key}
           /\ a \notin {2, 4} => FoundReg(sc) = {sent[s].key}
      /\ sc # 224 /\ sent[s].key \notin AllKeys =>
           a \in {2, 4} /\ FoundExt(sc) = {"UNKNOWN"}
  <2>1. ByteFacts(BytesOf(s), sent[s].key, sent[s].type)
    BY <1>3, BytesAre DEF BytesOf
  <2> QED
    BY <1>2, <2>1 DEF ByteFacts
<1>6. sc # 224 /\ Head(fifo).byte = sc
  BY <1>2
<1>7. key \in IF a \in {2, 4} THEN FoundExt(sc) ELSE FoundReg(sc)
  <2>1. CASE kbd_ext
    BY <1>4, <1>6, <2>1 DEF Read
  <2>2. CASE ~kbd_ext
    BY <1>4, <1>6, <2>2 DEF Read
  <2> QED
    BY <2>1, <2>2
<1> HIDE DEF sc
<1>8. sent[s].key \in AllKeys => a = Len(BytesOf(s))
  BY <1>2, <1>5, <1>6
<1> QED
  BY <1>1, <1>5, <1>6, <1>7, <1>8

-----------------------------------------------------------------------------
(***************************************************************************)
(* set_modifiers                                                           *)
(***************************************************************************)

\* Whether a held modifier is set depends on that modifier only.
LEMMA SetModsAt ==
  ASSUME NEW m \in HoldModifiers, NEW M, NEW N, NEW key, NEW type,
         key = m \/ (m \in M <=> m \in N)
  PROVE  m \in SetMods(M, key, type) <=> m \in SetMods(N, key, type)
<1>1. \A k \in HoldModifiers : k \notin Locks
  BY DEF HoldModifiers, Locks
<1>2. CASE key \in HoldModifiers
  <2>1. CASE type = "KEY_PRESSED"
    <3>1. SetMods(M, key, type) = M \cup {key} /\ SetMods(N, key, type) = N \cup {key}
      BY <1>1, <1>2, <2>1 DEF SetMods
    <3> QED
      BY <3>1
  <2>2. CASE type # "KEY_PRESSED"
    <3>1. SetMods(M, key, type) = M \ {key} /\ SetMods(N, key, type) = N \ {key}
      BY <1>1, <1>2, <2>2 DEF SetMods
    <3> QED
      BY <3>1
  <2> QED
    BY <2>1, <2>2
<1>3. CASE key \notin HoldModifiers /\ key \in Locks /\ type = "KEY_RELEASED"
  <2>1. key # m
    BY <1>3
  <2>2. SetMods(M, key, type) = Toggle(M, key) /\ SetMods(N, key, type) = Toggle(N, key)
    BY <1>3 DEF SetMods
  <2> QED
    BY <2>1, <2>2 DEF Toggle
<1>4. CASE key \notin HoldModifiers /\ ~(key \in Locks /\ type = "KEY_RELEASED")
  <2>1. SetMods(M, key, type) = M /\ SetMods(N, key, type) = N
    BY <1>4 DEF SetMods
  <2> QED
    BY <1>4, <2>1
<1> QED
  BY <1>2, <1>3, <1>4

\* Other keys change nothing.
LEMMA SetModsOther ==
  ASSUME NEW M, NEW key, key \notin Mods, NEW type
  PROVE  SetMods(M, key, type) = M
BY DEF SetMods, Mods

\* The modifiers are keys of the tables.
LEMMA ModsKnown == Mods \subseteq AllKeys /\ "UNKNOWN" \notin Mods
<1> DEFINE reg == kbd_reg_keycodes
           ext == kbd_ext_keycodes
<1>1. /\ 29 \in DOMAIN reg /\ reg[29] = "KEY_LEFT_CTRL"
      /\ 42 \in DOMAIN reg /\ reg[42] = "KEY_LEFT_SHIFT"
      /\ 54 \in DOMAIN reg /\ reg[54] = "KEY_RIGHT_SHIFT"
  BY DEF kbd_reg_keycodes
<1>2. /\ 56 \in DOMAIN reg /\ reg[56] = "KEY_LEFT_ALT"
      /\ 58 \in DOMAIN reg /\ reg[58] = "KEY_CAPS_LOCK"
      /\ 69 \in DOMAIN reg /\ reg[69] = "KEY_NUMLOCK"
  BY DEF kbd_reg_keycodes
<1>3. /\ 29 \in DOMAIN ext /\ ext[29] = "KEY_RIGHT_CTRL"
      /\ 56 \in DOMAIN ext /\ ext[56] = "KEY_RIGHT_ALT"
  BY DEF kbd_ext_keycodes
<1>4. /\ \A c \in DOMAIN reg : reg[c] \in AllKeys
      /\ \A c \in DOMAIN ext : ext[c] \in AllKeys
  BY DEF AllKeys
<1> HIDE DEF reg, ext
<1>5. /\ "KEY_LEFT_CTRL" \in AllKeys /\ "KEY_LEFT_SHIFT" \in AllKeys
      /\ "KEY_RIGHT_SHIFT" \in AllKeys /\ "KEY_LEFT_ALT" \in AllKeys
      /\ "KEY_CAPS_LOCK" \in AllKeys /\ "KEY_NUMLOCK" \in AllKeys
      /\ "KEY_RIGHT_CTRL" \in AllKeys /\ "KEY_RIGHT_ALT" \in AllKeys
  BY <1>1, <1>2, <1>3, <1>4
<1>6. Mods \subseteq AllKeys
  BY <1>5 DEF Mods, HoldModifiers, Locks
<1> QED
  BY <1>6, Tables

-----------------------------------------------------------------------------
(***************************************************************************)
(* The steps                                                               *)
(***************************************************************************)

\* A prefix is read: the position moves on within the stroke.
LEMMA PrefixStep ==
  ASSUME KInv, ExtendedPrefix
  PROVE  KInv'
<1> USE DEF KInv
<1>1. PICK s, a : s = HereStroke /\ a = HereAt
  OBVIOUS
<1>2. /\ fifo # <<>> /\ Head(fifo).byte = 224 /\ fifo' = Tail(fifo)
      /\ kbd_ext' = TRUE
      /\ UNCHANGED <<held, locks, sent, lost, modifiers, layout, events>>
  BY DEF ExtendedPrefix
<1>3. /\ s \in 1 .. Len(sent) /\ a \in 1 .. Len(BytesOf(s)) /\ BytesOf(s)[a] = 224
  BY <1>1, <1>2, PositionIs
<1>4. ByteFacts(BytesOf(s), sent[s].key, sent[s].type)
  BY <1>3, StrokeIs, BytesAre DEF BytesOf
<1>5. a < Len(BytesOf(s)) /\ a + 1 \in {2, 4}
  BY <1>3, <1>4 DEF ByteFacts
<1>6. a # Len(BytesOf(s))
  BY <1>5
<1>7. fifo' \in Seq(Items) /\ FifoInv' /\ HereStroke' = s /\ HereAt' = a + 1
  BY <1>1, <1>2, <1>6, Moved
<1>8. KTypes'
  BY <1>2, <1>7 DEF KTypes
<1>9. PrefixInv'
  BY <1>2, <1>5, <1>7 DEF PrefixInv, Intact
<1>10. HereStroke' = HereStroke
  BY <1>1, <1>7
<1>11. EventsInv'
  BY <1>2, <1>10 DEF EventsInv, Reported, RightKeys, RightOrder, NoneMissing, Intact
<1>12. HistoryInv'
  BY <1>2 DEF HistoryInv, Before
<1>13. ModInv'
  BY <1>2, <1>10 DEF ModInv, Before
<1> QED
  BY <1>7, <1>8, <1>9, <1>11, <1>12, <1>13

\* A byte gets lost: its stroke is no longer intact, nor is the next one.
LEMMA LoseStep ==
  ASSUME KInv, LoseByte
  PROVE  KInv'
<1> USE DEF KInv
<1>1. PICK s, a : s = HereStroke /\ a = HereAt
  OBVIOUS
<1>2. /\ fifo # <<>> /\ fifo' = Tail(fifo) /\ lost' = lost \cup {Head(fifo).stroke}
      /\ UNCHANGED <<held, locks, sent, kbd_ext, modifiers, layout, events>>
  BY DEF LoseByte, kbd_st
<1>3. /\ s \in 1 .. Len(sent) /\ a \in Nat \ {0} /\ Head(fifo).stroke = s
  BY <1>1, <1>2, PositionIs
<1>4. /\ fifo' \in Seq(Items) /\ FifoInv'
      /\ \/ HereStroke' = s /\ HereAt' = a + 1
         \/ HereStroke' = s + 1 /\ HereAt' = 1
  BY <1>1, <1>2, Moved
<1>5. lost' = lost \cup {s} /\ s \in lost'
  BY <1>2, <1>3
<1>6. Len(sent) \in Nat /\ s \in Int /\ lost \subseteq 1 .. Len(sent)
  BY <1>3 DEF KTypes
<1>7. KTypes'
  BY <1>2, <1>3, <1>4, <1>5 DEF KTypes
<1>8. ~Intact(s)' /\ ~Intact(s + 1)' /\ (s + 1) - 1 = s
  BY <1>5, <1>6 DEF Intact
<1>9. \A i : Intact(i)' => Intact(i)
  BY <1>5 DEF Intact
<1>10. PrefixInv'
  <2>1. CASE HereStroke' = s /\ HereAt' = a + 1
    <3>1. a + 1 # 1
      BY <1>3
    <3> QED
      BY <1>8, <2>1, <3>1 DEF PrefixInv, Intact
  <2>2. CASE HereStroke' = s + 1 /\ HereAt' = 1
    BY <1>5, <1>8, <2>2 DEF PrefixInv, Intact
  <2> QED
    BY <1>4, <2>1, <2>2
<1>11. PICK p : p = HereStroke'
  OBVIOUS
<1>12. p = s \/ p = s + 1
  BY <1>4, <1>11
<1>13. EventsInv'
  <2>1. Reported'
    <3> SUFFICES ASSUME NEW n \in 1 .. Len(events)
                 PROVE  /\ events[n].stroke \in 1 .. Len(sent)
                        /\ events[n].stroke <= p
                        /\ Intact(p)' => events[n].stroke < p
      BY <1>2, <1>11 DEF Reported, Intact
    <3>1. events[n].stroke \in 1 .. Len(sent) /\ events[n].stroke <= s
      BY <1>1 DEF EventsInv, Reported
    <3> QED
      BY <1>6, <1>8, <1>12, <3>1
  <2>2. RightKeys'
    BY <1>2, <1>9 DEF EventsInv, RightKeys, Intact
  <2>3. RightOrder'
    BY <1>2, <1>9 DEF EventsInv, RightOrder, Intact
  <2>4. NoneMissing'
    <3> SUFFICES ASSUME NEW i \in 1 .. Len(sent), Intact(i)', i < p, sent[i].key \in AllKeys
                 PROVE  \E n \in 1 .. Len(events) : events[n].stroke = i
      BY <1>2, <1>11 DEF NoneMissing, Intact
    <3>1. Intact(i) /\ i # s
      BY <1>8, <1>9
    <3>2. i < s
      BY <1>6, <1>12, <3>1
    <3> QED
      BY <1>1, <3>1, <3>2 DEF EventsInv, NoneMissing
  <2> QED
    BY <2>1, <2>2, <2>3, <2>4 DEF EventsInv
<1>14. HistoryInv'
  BY <1>2 DEF HistoryInv, Before
<1>15. ModInv'
  <2>1. lost' # {}
    BY <1>5
  <2>2. \A q \in 1 .. Len(sent) : q < p => ~(q > s + 1)
    BY <1>6, <1>12
  <2> QED
    BY <1>2, <1>5, <1>11, <2>1, <2>2 DEF ModInv
<1> QED
  BY <1>4, <1>7, <1>10, <1>13, <1>14, <1>15

\* The builtin keymap touches neither the queue nor the modifiers.
LEMMA KeymapStep ==
  ASSUME KInv, NEW l \in Layouts, keymap(l)
  PROVE  KInv'
<1> USE DEF KInv
<1>1. /\ layout' = l
      /\ UNCHANGED <<held, locks, sent, fifo, lost, kbd_ext, modifiers, events>>
  BY DEF keymap, keyboardvars
<1>2. HereStroke' = HereStroke /\ HereAt' = HereAt
  BY <1>1 DEF HereStroke, HereAt
<1>3. KTypes' /\ FifoInv'
  BY <1>1 DEF KTypes, FifoInv, ItemOK, Follows, BytesOf
<1>4. PrefixInv' /\ HistoryInv' /\ ModInv'
  BY <1>1, <1>2 DEF PrefixInv, HistoryInv, ModInv, Intact, Before
<1>5. EventsInv'
  BY <1>1, <1>2 DEF EventsInv, Reported, RightKeys, RightOrder, NoneMissing, Intact
<1> QED
  BY <1>3, <1>4, <1>5

\* A stroke changes what is held as set_modifiers changes the modifiers.
LEMMA StrokeMods ==
  ASSUME KTypes, NEW key, NEW type \in Types, Stroke(key, type)
  PROVE  ((held' \ Locks) \cup locks') \cap Mods
           = SetMods(((held \ Locks) \cup locks) \cap Mods, key, type)
<1> DEFINE w == (held \ Locks) \cup locks
<1>1. /\ held' = IF type = "KEY_PRESSED" THEN held \cup {key} ELSE held \ {key}
      /\ locks' = IF key \in Locks /\ type = "KEY_RELEASED" THEN Toggle(locks, key) ELSE locks
  BY DEF Stroke
<1>2. locks \subseteq Locks
  BY DEF KTypes
<1>3. \A k \in HoldModifiers : k \notin Locks
  BY DEF HoldModifiers, Locks
<1>4. CASE key \in HoldModifiers /\ type = "KEY_PRESSED"
  <2>1. SetMods(w \cap Mods, key, type) = (w \cap Mods) \cup {key}
    BY <1>3, <1>4 DEF SetMods
  <2>2. held' = held \cup {key} /\ locks' = locks /\ key \notin Locks /\ key \in Mods
    BY <1>1, <1>3, <1>4 DEF Mods
  <2> QED
    BY <2>1, <2>2
<1>5. CASE key \in HoldModifiers /\ type # "KEY_PRESSED"
  <2>1. SetMods(w \cap Mods, key, type) = (w \cap Mods) \ {key}
    BY <1>3, <1>5 DEF SetMods
  <2>2. held' = held \ {key} /\ locks' = locks /\ key \notin locks
    BY <1>1, <1>2, <1>3, <1>5
  <2> QED
    BY <2>1, <2>2
<1>6. CASE key \in Locks /\ type = "KEY_RELEASED"
  <2>1. SetMods(w \cap Mods, key, type) = Toggle(w \cap Mods, key)
    BY <1>3, <1>6 DEF SetMods
  <2>2. held' = held \ {key} /\ locks' = Toggle(locks, key) /\ key \in Mods
    BY <1>1, <1>6 DEF Mods
  <2>3. key \in w \cap Mods <=> key \in locks
    BY <1>6, <2>2
  <2>4. CASE key \in locks
    <3>1. Toggle(w \cap Mods, key) = (w \cap Mods) \ {key} /\ locks' = locks \ {key}
      BY <2>2, <2>3, <2>4 DEF Toggle
    <3> QED
      BY <1>6, <2>1, <2>2, <3>1
  <2>5. CASE key \notin locks
    <3>1. Toggle(w \cap Mods, key) = (w \cap Mods) \cup {key} /\ locks' = locks \cup {key}
      BY <2>2, <2>3, <2>5 DEF Toggle
    <3> QED
      BY <1>6, <2>1, <2>2, <3>1
  <2> QED
    BY <2>4, <2>5
<1>7. CASE key \notin HoldModifiers /\ ~(key \in Locks /\ type = "KEY_RELEASED")
  <2>1. SetMods(w \cap Mods, key, type) = w \cap Mods
    BY <1>7 DEF SetMods
  <2>2. locks' = locks /\ (held' = held \cup {key} \/ held' = held \ {key})
    BY <1>1, <1>7
  <2>3. key \in Locks \/ key \notin Mods
    BY <1>7 DEF Mods
  <2> QED
    BY <2>1, <2>2, <2>3
<1> QED
  BY <1>4, <1>5, <1>6, <1>7

\* A stroke: the position and what came before stay.
LEMMA StrokeStep ==
  ASSUME KInv, NEW key \in KEYS, NEW type \in Types, Stroke(key, type)
  PROVE  KInv'
<1> USE DEF KInv
<1>1. PICK n : n = Len(sent)
  OBVIOUS
<1>2. /\ sent' \in Seq(Strokes) /\ Len(sent') = n + 1 /\ key \in Known
      /\ \A i \in 1 .. n : sent'[i] = sent[i]
      /\ sent'[n + 1].key = key /\ sent'[n + 1].type = type
      /\ sent'[n + 1].with = (held \ Locks) \cup locks
  BY <1>1, Recorded
<1>3. /\ fifo' \in Seq(Items) /\ FifoInv'
      /\ HereStroke' = HereStroke /\ HereAt' = HereAt
  BY Struck
<1>4. /\ UNCHANGED <<lost, kbd_ext, modifiers, layout, events>>
      /\ held' = IF type = "KEY_PRESSED" THEN held \cup {key} ELSE held \ {key}
      /\ locks' = IF key \in Locks /\ type = "KEY_RELEASED" THEN Toggle(locks, key) ELSE locks
  BY DEF Stroke, kbd_st
<1>5. n \in Nat /\ HereStroke \in 1 .. (n + 1)
  BY <1>1, PositionIs DEF KTypes
<1>6. PICK s : s = HereStroke /\ s = HereStroke'
  BY <1>3
<1>7. KTypes'
  <2>1. held' \subseteq Known
    BY <1>2, <1>4 DEF KTypes
  <2>2. locks' \subseteq Locks
    BY <1>4 DEF KTypes, Toggle
  <2>3. lost' \subseteq 1 .. Len(sent')
    BY <1>1, <1>2, <1>4, <1>5 DEF KTypes
  <2> QED
    BY <1>2, <1>3, <1>4, <2>1, <2>2, <2>3 DEF KTypes
<1>8. PrefixInv'
  BY <1>3, <1>4 DEF PrefixInv, Intact
<1>9. EventsInv'
  <2>1. \A k \in 1 .. Len(events) : events[k].stroke \in 1 .. n
    BY <1>1 DEF EventsInv, Reported
  <2>2. Reported'
    BY <1>1, <1>2, <1>3, <1>4, <1>5, <2>1 DEF EventsInv, Reported, Intact
  <2>3. RightKeys'
    BY <1>2, <1>4, <2>1 DEF EventsInv, RightKeys, Intact
  <2>4. RightOrder'
    BY <1>4 DEF EventsInv, RightOrder, Intact
  <2>5. NoneMissing'
    <3> SUFFICES ASSUME NEW i \in 1 .. (n + 1), Intact(i), i < s, sent'[i].key \in AllKeys
                 PROVE  \E k \in 1 .. Len(events) : events[k].stroke = i
      BY <1>2, <1>4, <1>6 DEF NoneMissing, Intact
    <3>1. i \in 1 .. n
      BY <1>5, <1>6
    <3>2. sent'[i] = sent[i]
      BY <1>2, <3>1
    <3> QED
      BY <1>1, <1>6, <3>1, <3>2 DEF EventsInv, NoneMissing
  <2> QED
    BY <2>2, <2>3, <2>4, <2>5 DEF EventsInv
<1>10. \A i \in 1 .. (n + 1) : Before(i)' = Before(i)
  <2> SUFFICES ASSUME NEW i \in 1 .. (n + 1)
               PROVE  Before(i)' = Before(i)
    OBVIOUS
  <2>1. Before(i)' = sent'[i].with
    BY <1>2, <1>5 DEF Before
  <2>2. CASE i \in 1 .. n
    BY <1>1, <1>2, <1>5, <2>1, <2>2 DEF Before
  <2>3. CASE i = n + 1
    <3>1. ~(i <= Len(sent))
      BY <1>1, <1>5, <2>3
    <3> QED
      BY <1>2, <2>1, <2>3, <3>1 DEF Before
  <2> QED
    BY <1>5, <2>2, <2>3
<1>11. HistoryInv'
  <2> SUFFICES ASSUME NEW j \in 1 .. (n + 1)
               PROVE  Before(j + 1)' \cap Mods
                        = SetMods(Before(j)' \cap Mods, sent'[j].key, sent'[j].type)
    BY <1>2 DEF HistoryInv
  <2>1. CASE j \in 1 .. n
    <3>1. j + 1 \in 1 .. (n + 1)
      BY <1>5, <2>1
    <3>2. Before(j)' = Before(j) /\ Before(j + 1)' = Before(j + 1) /\ sent'[j] = sent[j]
      BY <1>2, <1>10, <2>1, <3>1
    <3>3. Before(j + 1) \cap Mods = SetMods(Before(j) \cap Mods, sent[j].key, sent[j].type)
      BY <1>1, <2>1 DEF HistoryInv
    <3> QED
      BY <3>2, <3>3
  <2>2. CASE j = n + 1
    <3>1. ~(j + 1 <= Len(sent'))
      BY <1>2, <1>5, <2>2
    <3>2. Before(j + 1)' = (held' \ Locks) \cup locks'
      BY <3>1 DEF Before
    <3>3. Before(j)' = (held \ Locks) \cup locks
      <4>1. j <= Len(sent')
        BY <1>2, <1>5, <2>2
      <4> QED
        BY <1>2, <2>2, <4>1 DEF Before
    <3> QED
      BY <1>2, <2>2, <3>2, <3>3, StrokeMods
  <2>3. j \in 1 .. n \/ j = n + 1
    BY <1>5
  <2> QED
    BY <2>1, <2>2, <2>3, Zenon
<1>12. ModInv'
  <2>1. Before(s)' = Before(s)
    BY <1>5, <1>6, <1>10
  <2>2. lost' = {} => modifiers' = Before(s)' \cap Mods
    BY <1>4, <1>6, <2>1 DEF ModInv
  <2>3. ASSUME NEW m \in HoldModifiers, NEW q \in 1 .. (n + 1),
               q < s, sent'[q].key = m, \A i \in lost : q > i + 1
        PROVE  m \in modifiers <=> m \in Before(s)
    <3>1. q \in 1 .. n
      BY <1>5, <1>6, <2>3
    <3>2. sent[q].key = m
      BY <1>2, <2>3, <3>1
    <3> QED
      BY <1>1, <1>6, <2>3, <3>1, <3>2 DEF ModInv
  <2> QED
    BY <1>2, <1>4, <1>6, <2>1, <2>2, <2>3 DEF ModInv
<1> QED
  BY <1>3, <1>7, <1>8, <1>9, <1>11, <1>12

\* A key is read.  For a stroke that got through it is the stroke's own key, or
\* nothing; for a garbled one it may be any.
LEMMA KeyStep ==
  ASSUME KInv, KeyCode
  PROVE  KInv'
<1> USE DEF KInv
<1>1. PICK s, a, b, ty : s = HereStroke /\ a = HereAt /\ b = Len(BytesOf(s))
                         /\ ty = TypeOf(Head(fifo).byte)
  OBVIOUS
<1>2. /\ fifo # <<>> /\ Head(fifo).byte # 224 /\ fifo' = Tail(fifo) /\ kbd_ext' = FALSE
      /\ UNCHANGED <<held, locks, sent, lost, layout>>
  BY KeyCodeIs
<1>3. PICK key \in Read :
             /\ modifiers' = SetMods(modifiers, key, ty)
             /\ \/ key = "UNKNOWN" /\ events' = events
                \/ key # "UNKNOWN" /\ events' = Append(events, EventOf(key))
  BY <1>1, KeyCodeIs
<1>4. /\ s \in 1 .. Len(sent) /\ a \in 1 .. b /\ Head(fifo).byte = BytesOf(s)[a]
      /\ Head(fifo) \in Items /\ Len(sent) \in Nat
  BY <1>1, <1>2, PositionIs DEF KTypes
<1>5. ByteFacts(BytesOf(s), sent[s].key, sent[s].type)
  BY <1>4, StrokeIs, BytesAre DEF BytesOf
<1>6. b \in Nat /\ (a < b => a = 2 /\ sent[s].key \notin AllKeys)
  BY <1>1, <1>2, <1>4, <1>5 DEF ByteFacts
<1>7. /\ fifo' \in Seq(Items) /\ FifoInv'
      /\ \/ a < b /\ HereStroke' = s /\ HereAt' = a + 1
         \/ a = b /\ HereStroke' = s + 1 /\ HereAt' = 1
  BY <1>1, <1>2, Moved
<1>8. PICK p : p = HereStroke'
  OBVIOUS
<1>9. (a < b /\ p = s) \/ (a = b /\ p = s + 1)
  BY <1>7, <1>8
<1>10. Intact(s) => /\ sent[s].key \in AllKeys => key = sent[s].key /\ ty = sent[s].type /\ a = b
                    /\ sent[s].key \notin AllKeys => key = "UNKNOWN"
  BY <1>1, <1>2, Decoded
<1>11. key \in AllKeys \/ key = "UNKNOWN"
  <2>1. Head(fifo).byte \in Nat
    BY <1>4 DEF Items
  <2> QED
    BY <2>1, FoundIs DEF Read
<1>12. key # "UNKNOWN" =>
         /\ EventOf(key) \in EventRecs /\ EventOf(key).key = key
         /\ EventOf(key).stroke = s /\ EventOf(key).type = ty
  BY <1>1, <1>2, <1>11, EventIs
<1>13. /\ events \in Seq(EventRecs) /\ Len(events) \in Nat
       /\ key = "UNKNOWN" => events' = events
       /\ key # "UNKNOWN" => /\ events' \in Seq(EventRecs) /\ Len(events') = Len(events) + 1
                             /\ \A k \in 1 .. Len(events) : events'[k] = events[k]
                             /\ events'[Len(events) + 1] = EventOf(key)
  <2>1. events \in Seq(EventRecs)
    BY DEF KTypes
  <2> QED
    BY <1>3, <1>12, <2>1
<1>14. KTypes'
  BY <1>2, <1>7, <1>13 DEF KTypes
<1>15. PrefixInv'
  <2>1. CASE a < b
    <3>1. HereAt' = 3
      BY <1>4, <1>6, <1>7, <2>1
    <3> QED
      BY <1>2, <3>1 DEF PrefixInv
  <2>2. CASE ~(a < b)
    <3>1. HereAt' = 1
      BY <1>7, <2>2
    <3> QED
      BY <1>2, <3>1 DEF PrefixInv
  <2> QED
    BY <2>1, <2>2
<1>16. \A i : Intact(i)' <=> Intact(i)
  BY <1>2 DEF Intact
<1>17. EventsInv'
  <2>1. PICK N : N = Len(events)
    OBVIOUS
  <2>2. PICK e : e = EventOf(key)
    OBVIOUS
  <2>3. \A k \in 1 .. N : /\ events[k].stroke \in 1 .. Len(sent) /\ events[k].stroke <= s
                          /\ Intact(s) => events[k].stroke < s
    BY <1>1, <2>1 DEF EventsInv, Reported
  <2>4. CASE key = "UNKNOWN"
    <3>1. events' = events
      BY <1>13, <2>4
    <3>2. Intact(s) => sent[s].key \notin AllKeys
      BY <1>10, <2>4, Tables
    <3>3. Reported'
      <4> SUFFICES ASSUME NEW k \in 1 .. N
                   PROVE  /\ events[k].stroke \in 1 .. Len(sent) /\ events[k].stroke <= p
                          /\ Intact(p) => events[k].stroke < p
        BY <1>2, <1>8, <1>16, <2>1, <3>1 DEF Reported, Intact
      <4> QED
        BY <1>4, <1>9, <2>3
    <3>4. RightKeys' /\ RightOrder'
      BY <1>2, <3>1 DEF EventsInv, RightKeys, RightOrder, Intact
    <3>5. NoneMissing'
      <4> SUFFICES ASSUME NEW i \in 1 .. Len(sent), Intact(i), i < p, sent[i].key \in AllKeys
                   PROVE  \E k \in 1 .. Len(events) : events[k].stroke = i
        BY <1>2, <1>8, <3>1 DEF NoneMissing, Intact
      <4>1. i # s
        BY <3>2
      <4>2. i < s
        BY <1>4, <1>9, <4>1
      <4> QED
        BY <1>1, <4>2 DEF EventsInv, NoneMissing
    <3> QED
      BY <3>3, <3>4, <3>5 DEF EventsInv
  <2>5. CASE key # "UNKNOWN"
    <3>1. /\ N \in Nat /\ Len(events') = N + 1 /\ events'[N + 1] = e
          /\ \A k \in 1 .. N : events'[k] = events[k]
          /\ e.key = key /\ e.stroke = s /\ e.type = ty
      BY <1>12, <1>13, <2>1, <2>2, <2>5
    <3>2. Intact(s) => sent[s].key \in AllKeys /\ key = sent[s].key /\ ty = sent[s].type /\ a = b
      BY <1>10, <2>5
    <3>3. Intact(s) => p = s + 1
      BY <1>4, <1>6, <1>9, <3>2
    <3>4. \A k \in 1 .. (N + 1) : k \in 1 .. N \/ k = N + 1
      BY <3>1
    <3>5. Reported'
      <4> SUFFICES ASSUME NEW k \in 1 .. (N + 1)
                   PROVE  /\ events'[k].stroke \in 1 .. Len(sent) /\ events'[k].stroke <= p
                          /\ Intact(p) => events'[k].stroke < p
        BY <1>2, <1>8, <1>16, <3>1 DEF Reported, Intact
      <4>1. events'[k].stroke \in 1 .. Len(sent) /\ events'[k].stroke <= s
        BY <1>4, <2>3, <3>1, <3>4
      <4>2. s <= p
        BY <1>4, <1>9
      <4>3. Intact(p) => p = s + 1
        BY <1>9, <3>3
      <4> QED
        BY <1>4, <1>9, <4>1, <4>2, <4>3
    <3>6. RightKeys'
      <4> SUFFICES ASSUME NEW k \in 1 .. (N + 1), Intact(events'[k].stroke)
                   PROVE  /\ events'[k].key = sent[events'[k].stroke].key
                          /\ events'[k].type = sent[events'[k].stroke].type
        BY <1>2, <3>1 DEF RightKeys, Intact
      <4>1. CASE k \in 1 .. N
        BY <2>1, <3>1, <4>1 DEF EventsInv, RightKeys
      <4>2. CASE k = N + 1
        BY <3>1, <3>2, <4>2
      <4> QED
        BY <3>4, <4>1, <4>2
    <3>7. RightOrder'
      <4> SUFFICES ASSUME NEW i \in 1 .. (N + 1), NEW j \in 1 .. (N + 1), i < j,
                          Intact(events'[j].stroke)
                   PROVE  events'[i].stroke < events'[j].stroke
        BY <1>2, <3>1 DEF RightOrder, Intact
      <4>1. i \in 1 .. N
        BY <3>1
      <4>2. CASE j \in 1 .. N
        BY <2>1, <3>1, <4>1, <4>2 DEF EventsInv, RightOrder
      <4>3. CASE j = N + 1
        BY <2>3, <3>1, <4>1, <4>3
      <4> QED
        BY <3>4, <4>2, <4>3
    <3>8. NoneMissing'
      <4> SUFFICES ASSUME NEW i \in 1 .. Len(sent), Intact(i), i < p, sent[i].key \in AllKeys
                   PROVE  \E k \in 1 .. (N + 1) : events'[k].stroke = i
        BY <1>2, <1>8, <3>1 DEF NoneMissing, Intact
      <4>1. CASE i = s
        <5>1. N + 1 \in 1 .. (N + 1)
          BY <3>1
        <5> QED
          BY <3>1, <4>1, <5>1
      <4>2. CASE i # s
        <5>1. i < s
          BY <1>4, <1>9, <4>2
        <5>2. PICK k \in 1 .. N : events[k].stroke = i
          BY <1>1, <2>1, <5>1 DEF EventsInv, NoneMissing
        <5>3. k \in 1 .. (N + 1) /\ events'[k].stroke = i
          BY <3>1, <5>2
        <5> QED
          BY <5>3
      <4> QED
        BY <4>1, <4>2
    <3> QED
      BY <3>5, <3>6, <3>7, <3>8 DEF EventsInv
  <2> QED
    BY <2>4, <2>5
<1>18. HistoryInv'
  BY <1>2 DEF HistoryInv, Before
<1>19. \A i : Before(i)' = Before(i)
  BY <1>2 DEF Before
<1>20. Intact(s) => \/ p = s /\ modifiers' = modifiers
                    \/ /\ p = s + 1
                       /\ modifiers' = SetMods(modifiers, sent[s].key, sent[s].type)
  <2> SUFFICES ASSUME Intact(s)
               PROVE  \/ p = s /\ modifiers' = modifiers
                      \/ /\ p = s + 1
                         /\ modifiers' = SetMods(modifiers, sent[s].key, sent[s].type)
    OBVIOUS
  <2>1. CASE sent[s].key \in AllKeys
    BY <1>3, <1>4, <1>6, <1>9, <1>10, <2>1
  <2>2. CASE sent[s].key \notin AllKeys
    <3>1. key = "UNKNOWN" /\ key \notin Mods /\ sent[s].key \notin Mods
      BY <1>10, <2>2, ModsKnown
    <3>2. modifiers' = modifiers /\ SetMods(modifiers, sent[s].key, sent[s].type) = modifiers
      BY <1>3, <3>1, SetModsOther
    <3> QED
      BY <1>9, <3>2
  <2> QED
    BY <2>1, <2>2
<1>21. Before(s + 1) \cap Mods = SetMods(Before(s) \cap Mods, sent[s].key, sent[s].type)
  BY <1>4 DEF HistoryInv
<1>22. ModInv'
  <2>1. lost = {} => modifiers' = Before(p) \cap Mods
    <3> SUFFICES ASSUME lost = {}
                 PROVE  modifiers' = Before(p) \cap Mods
      OBVIOUS
    <3>1. Intact(s) /\ modifiers = Before(s) \cap Mods
      BY <1>1 DEF Intact, ModInv
    <3> QED
      BY <1>20, <1>21, <3>1
  <2>2. ASSUME NEW m \in HoldModifiers, NEW q \in 1 .. Len(sent),
               q < p, sent[q].key = m, \A i \in lost : q > i + 1
        PROVE  m \in modifiers' <=> m \in Before(p)
    <3>1. q <= s
      BY <1>4, <1>9, <2>2
    <3>2. Intact(s)
      <4>1. \A i \in lost : i \in Int /\ i # s /\ i # s - 1
        BY <1>4, <2>2, <3>1 DEF KTypes
      <4> QED
        BY <1>4, <4>1 DEF Intact
    <3>3. q < s => (m \in modifiers <=> m \in Before(s))
      BY <1>1, <2>2 DEF ModInv
    <3>4. CASE p = s /\ modifiers' = modifiers
      BY <2>2, <3>3, <3>4
    <3>5. CASE p = s + 1 /\ modifiers' = SetMods(modifiers, sent[s].key, sent[s].type)
      <4>1. sent[s].key = m \/ (m \in modifiers <=> m \in Before(s) \cap Mods)
        <5>1. q = s \/ q < s
          BY <1>4, <3>1
        <5>2. m \in Mods
          BY DEF Mods
        <5> QED
          BY <2>2, <3>3, <5>1, <5>2
      <4>2. m \in SetMods(modifiers, sent[s].key, sent[s].type)
              <=> m \in SetMods(Before(s) \cap Mods, sent[s].key, sent[s].type)
        BY <4>1, SetModsAt
      <4>3. m \in Before(s + 1) \cap Mods <=> m \in Before(s + 1)
        BY DEF Mods
      <4> QED
        BY <1>21, <3>5, <4>2, <4>3
    <3> QED
      BY <1>20, <3>2, <3>4, <3>5
  <2> QED
    BY <1>2, <1>8, <1>19, <2>1, <2>2 DEF ModInv
<1> QED
  BY <1>7, <1>14, <1>15, <1>17, <1>18, <1>22

-----------------------------------------------------------------------------
(***************************************************************************)
(* The theorems                                                            *)
(***************************************************************************)

\* Nothing was struck yet.
LEMMA KInitInv == KInit => KInv
<1> SUFFICES ASSUME KInit PROVE KInv
  OBVIOUS
<1>1. /\ held = {} /\ locks = {} /\ sent = <<>> /\ fifo = <<>> /\ lost = {}
      /\ kbd_ext = FALSE /\ modifiers = {} /\ layout = "us" /\ events = <<>>
  BY DEF KInit
<1>2. Len(sent) = 0 /\ Len(fifo) = 0 /\ Len(events) = 0 /\ HereStroke = 1 /\ HereAt = 1
  BY <1>1 DEF HereStroke, HereAt
<1>3. KTypes
  BY <1>1, EmptySeq DEF KTypes, Layouts
<1>4. FifoInv
  BY <1>1, <1>2 DEF FifoInv
<1>5. PrefixInv
  BY <1>1, <1>2 DEF PrefixInv
<1>6. EventsInv
  BY <1>2 DEF EventsInv, Reported, RightKeys, RightOrder, NoneMissing
<1>7. HistoryInv
  BY <1>2 DEF HistoryInv
<1>8. ModInv
  <2>1. Before(1) = {}
    BY <1>1, <1>2 DEF Before
  <2> QED
    BY <1>1, <1>2, <2>1 DEF ModInv
<1> QED
  BY <1>3, <1>4, <1>5, <1>6, <1>7, <1>8 DEF KInv

\* A step in which nothing happens.
LEMMA KStutter ==
  ASSUME KInv, UNCHANGED kbdvars
  PROVE  KInv'
<1> USE DEF KInv
<1>1. UNCHANGED <<held, locks, sent, fifo, lost, kbd_ext, modifiers, layout, events>>
  BY DEF kbdvars, keyboardvars, kbd_st
<1>2. HereStroke' = HereStroke /\ HereAt' = HereAt
  BY <1>1 DEF HereStroke, HereAt
<1>3. KTypes' /\ FifoInv'
  BY <1>1 DEF KTypes, FifoInv, ItemOK, Follows, BytesOf
<1>4. PrefixInv' /\ HistoryInv' /\ ModInv'
  BY <1>1, <1>2 DEF PrefixInv, HistoryInv, ModInv, Intact, Before
<1>5. EventsInv'
  BY <1>1, <1>2 DEF EventsInv, Reported, RightKeys, RightOrder, NoneMissing, Intact
<1> QED
  BY <1>3, <1>4, <1>5

\* KInv is an invariant of the driver and the keyboard it polls.
LEMMA KInvariant == KSpec => []KInv
<1>1. KInv /\ [KNext]_kbdvars => KInv'
  <2> SUFFICES ASSUME KInv, [KNext]_kbdvars
               PROVE  KInv'
    OBVIOUS
  <2>1. ASSUME NEW key \in KEYS, NEW type \in {"KEY_PRESSED", "KEY_RELEASED"}, Stroke(key, type)
        PROVE  KInv'
    BY <2>1, StrokeStep DEF Types
  <2>2. ASSUME NEW l \in {"us", "fr"}, keymap(l)
        PROVE  KInv'
    BY <2>2, KeymapStep DEF Layouts
  <2> QED
    BY <2>1, <2>2, LoseStep, PrefixStep, KeyStep, KStutter DEF KNext
<1> QED
  BY <1>1, KInitInv, PTL DEF KSpec

\* KBD_getevent reports each stroke that got through once, in order and with its
\* key and direction, for any number of strokes and of lost bytes.
THEOREM EventsFollow == KSpec => []EventsFollowKeys
<1>1. KInv => EventsFollowKeys
  <2> SUFFICES ASSUME KInv
               PROVE  EventsFollowKeys
    OBVIOUS
  <2> USE DEF KInv
  <2>1. DOMAIN events = 1 .. Len(events) /\ DOMAIN sent = 1 .. Len(sent)
    BY DEF KTypes
  <2>2. \A e \in EventSet : \E n \in 1 .. Len(events) : e = events[n]
    BY <2>1 DEF EventSet
  <2>3. \A n \in 1 .. Len(events) : events[n] \in EventSet
    BY <2>1 DEF EventSet
  <2>4. \A i \in 1 .. Len(sent) : Consumed(i) => i < HereStroke
    <3> SUFFICES ASSUME NEW i \in 1 .. Len(sent), Consumed(i)
                 PROVE  i < HereStroke
      OBVIOUS
    <3>1. Len(sent) \in Nat
      BY DEF KTypes
    <3>2. CASE fifo = <<>>
      BY <3>1, <3>2 DEF HereStroke
    <3>3. CASE fifo # <<>>
      <4>1. Head(fifo).stroke > i /\ Head(fifo).stroke = HereStroke
        BY <3>3 DEF Consumed, HereStroke
      <4>2. HereStroke \in Int
        BY <3>1, PositionIs
      <4> QED
        BY <3>1, <4>1, <4>2
    <3> QED
      BY <3>2, <3>3
  <2>5. \A e \in EventSet : Intact(e.stroke) =>
          e.key = sent[e.stroke].key /\ e.type = sent[e.stroke].type
    BY <2>2 DEF EventsInv, RightKeys
  <2>6. \A i, j \in DOMAIN events :
          i < j /\ Intact(events[j].stroke) => events[i].stroke < events[j].stroke
    BY <2>1 DEF EventsInv, RightOrder
  <2>7. \A i \in DOMAIN sent :
          Intact(i) /\ Consumed(i) /\ sent[i].key \in AllKeys
            => \E e \in EventSet : e.stroke = i
    BY <2>1, <2>3, <2>4 DEF EventsInv, NoneMissing
  <2> QED
    BY <2>5, <2>6, <2>7 DEF EventsFollowKeys
<1> QED
  BY <1>1, KInvariant, PTL

\* The last stroke of a key is one of its strokes.
LEMMA LastStrokeIs ==
  ASSUME KTypes, NEW m
  PROVE  LastStroke(m) = 0 \/ (LastStroke(m) \in 1 .. Len(sent) /\ sent[LastStroke(m)].key = m)
<1> DEFINE S == {i \in DOMAIN sent : sent[i].key = m}
<1>1. Len(sent) \in Nat /\ DOMAIN sent = 1 .. Len(sent)
  BY DEF KTypes
<1>2. LastStroke(m) = IF S = {} THEN 0 ELSE CHOOSE i \in S : \A j \in S : j <= i
  BY DEF LastStroke
<1>3. ASSUME S # {}
      PROVE  LastStroke(m) \in S
  <2>1. S \in SUBSET (0 .. Len(sent))
    BY <1>1
  <2>2. \E x \in S : \A y \in S : y <= x
    <3> HIDE DEF S
    <3> QED
      BY <1>1, <1>3, <2>1, GreatestNat
  <2> HIDE DEF S
  <2> QED
    BY <1>2, <1>3, <2>2
<1> QED
  BY <1>1, <1>2, <1>3

\* With the queue empty a modifier is set exactly when its key is down, if it was
\* struck since the driver was last out of step; and so are the locks if nothing
\* was ever lost.
THEOREM ModifiersFollow == KSpec => []ModifiersFollowKeys
<1>1. KInv => ModifiersFollowKeys
  <2> SUFFICES ASSUME KInv, fifo = <<>>
               PROVE  /\ \A m \in HoldModifiers :
                           (\A i \in lost : LastStroke(m) > i + 1)
                             => (m \in modifiers <=> m \in held)
                      /\ lost = {} => modifiers \cap Locks = locks
    BY DEF ModifiersFollowKeys
  <2> USE DEF KInv
  <2>1. Len(sent) \in Nat /\ HereStroke = Len(sent) + 1 /\ locks \subseteq Locks
        /\ lost \subseteq 1 .. Len(sent)
    BY DEF HereStroke, KTypes
  <2>2. Before(HereStroke) = (held \ Locks) \cup locks
    <3>1. ~(HereStroke <= Len(sent))
      BY <2>1
    <3> QED
      BY <3>1 DEF Before
  <2>3. \A m \in HoldModifiers : m \in Mods /\ m \notin Locks
    BY DEF Mods, HoldModifiers, Locks
  <2>4. ASSUME NEW m \in HoldModifiers, \A i \in lost : LastStroke(m) > i + 1
        PROVE  m \in modifiers <=> m \in held
    <3>1. m \in Before(HereStroke) <=> m \in held
      BY <2>1, <2>2, <2>3
    <3>2. CASE LastStroke(m) = 0
      <4>1. \A i \in lost : i \in Nat /\ 0 > i + 1
        BY <2>1, <2>4, <3>2
      <4>2. lost = {}
        BY <4>1
      <4> QED
        BY <2>3, <3>1, <4>2 DEF ModInv
    <3>3. CASE LastStroke(m) \in 1 .. Len(sent) /\ sent[LastStroke(m)].key = m
      <4>1. LastStroke(m) < HereStroke
        BY <2>1, <3>3
      <4> QED
        BY <2>4, <3>1, <3>3, <4>1 DEF ModInv
    <3> QED
      BY <3>2, <3>3, LastStrokeIs
  <2>5. lost = {} => modifiers \cap Locks = locks
    <3>1. Locks \subseteq Mods
      BY DEF Mods
    <3> QED
      BY <2>1, <2>2, <3>1 DEF ModInv
  <2> QED
    BY <2>4, <2>5
<1> QED
  BY <1>1, KInvariant, PTL

\* As long as no byte was lost, KBD_getchar gives the character of the key with
\* the modifiers that were down when it was struck, for keys with a regular
\* character or none at all (keyboard.c:181 loses the others).
THEOREM CharactersRight ==
  ASSUME \A key \in KEYS : HasRegular(key)
  PROVE  KSpec => []CharactersAsTyped
<1> DEFINE CharInv == lost = {} => \A n \in 1 .. Len(events) :
                        events[n].type = "KEY_PRESSED" =>
                          events[n].char = Wanted(events[n].layout, events[n].key,
                                                  sent[events[n].stroke].with)
<1>1. KInit => CharInv
  <2> SUFFICES ASSUME KInit PROVE CharInv
    OBVIOUS
  <2>1. Len(events) = 0
    BY DEF KInit
  <2> QED
    BY <2>1
<1>2. KInv /\ CharInv /\ [KNext]_kbdvars => CharInv'
  <2> SUFFICES ASSUME KInv, CharInv, [KNext]_kbdvars, lost' = {},
                      NEW n \in 1 .. Len(events'), events'[n].type = "KEY_PRESSED"
               PROVE  events'[n].char = Wanted(events'[n].layout, events'[n].key,
                                               sent'[events'[n].stroke].with)
    OBVIOUS
  <2> USE DEF KInv
  <2>1. Len(sent) \in Nat /\ Len(events) \in Nat /\ layout \in Layouts
    BY DEF KTypes
  <2>2. \A k \in 1 .. Len(events) : events[k].stroke \in 1 .. Len(sent)
    BY DEF EventsInv, Reported
  <2>3. ASSUME lost = {}, n \in 1 .. Len(events), events'[n] = events[n],
               \A i \in 1 .. Len(sent) : sent'[i] = sent[i]
        PROVE  events'[n].char = Wanted(events'[n].layout, events'[n].key,
                                        sent'[events'[n].stroke].with)
    BY <2>2, <2>3
  <2>4. CASE events' = events /\ lost' = lost /\ sent' = sent
    BY <2>3, <2>4
  <2>5. CASE LoseByte
    BY <2>5 DEF LoseByte
  <2>6. ASSUME NEW key \in KEYS, NEW type \in Types, Stroke(key, type)
        PROVE  events'[n].char = Wanted(events'[n].layout, events'[n].key,
                                        sent'[events'[n].stroke].with)
    <3>1. \A i \in 1 .. Len(sent) : sent'[i] = sent[i]
      BY <2>6, Recorded
    <3>2. events' = events /\ lost' = lost
      BY <2>6 DEF Stroke
    <3> QED
      BY <2>3, <3>1, <3>2
  <2>7. CASE KeyCode
    <3>1. PICK s, N : s = HereStroke /\ N = Len(events)
      OBVIOUS
    <3>2. /\ fifo # <<>> /\ Head(fifo).byte # 224 /\ sent' = sent /\ lost' = lost
      BY <2>7, KeyCodeIs
    <3>3. PICK key \in Read : \/ events' = events
                              \/ key # "UNKNOWN" /\ events' = Append(events, EventOf(key))
      BY <2>7, KeyCodeIs
    <3>4. CASE events' = events
      BY <2>3, <3>2, <3>4
    <3>5. CASE key # "UNKNOWN" /\ events' = Append(events, EventOf(key))
      <4>1. s \in 1 .. Len(sent) /\ Intact(s) /\ lost = {}
        BY <3>1, <3>2, PositionIs DEF Intact
      <4>2. sent[s].key \in AllKeys /\ key = sent[s].key
        BY <3>1, <3>2, <3>5, <4>1, Decoded
      <4>3. sent[s].key \in KEYS
        BY <4>1, StrokeIs
      <4>4. /\ EventOf(key) \in EventRecs /\ EventOf(key).key = key
            /\ EventOf(key).stroke = s /\ EventOf(key).layout = layout
            /\ EventOf(key).type = "KEY_PRESSED" => EventOf(key).char = KBD_getchar(key)
        BY <3>1, <3>2, <4>2, EventIs
      <4>5. modifiers = sent[s].with \cap Mods
        <5>1. Before(s) = sent[s].with
          BY <4>1 DEF Before
        <5> QED
          BY <3>1, <4>1, <5>1 DEF ModInv
      <4>6. KBD_getchar(key) = Wanted(layout, key, sent[s].with)
        BY <2>1, <4>2, <4>3, <4>5, GetcharIs
      <4>7. events \in Seq(EventRecs)
        BY DEF KTypes
      <4>8. /\ Len(events') = N + 1 /\ events'[N + 1] = EventOf(key) /\ N \in Nat
            /\ \A k \in 1 .. N : events'[k] = events[k]
        BY <3>1, <3>5, <4>4, <4>7
      <4>9. CASE n = N + 1
        BY <3>2, <4>4, <4>6, <4>8, <4>9
      <4>10. CASE n # N + 1
        <5>1. n \in 1 .. N
          BY <4>8, <4>10
        <5> QED
          BY <2>3, <3>1, <3>2, <4>1, <4>8, <5>1
      <4> QED
        BY <4>9, <4>10
    <3> QED
      BY <3>3, <3>4, <3>5
  <2>8. CASE ExtendedPrefix
    BY <2>4, <2>8 DEF ExtendedPrefix
  <2>9. ASSUME NEW l, keymap(l)
        PROVE  events' = events /\ lost' = lost /\ sent' = sent
    BY <2>9 DEF keymap, keyboardvars
  <2>10. CASE UNCHANGED kbdvars
    BY <2>4, <2>10 DEF kbdvars, keyboardvars
  <2> QED
    BY <2>4, <2>5, <2>6, <2>7, <2>8, <2>9, <2>10 DEF KNext, Types
<1>3. KInv /\ CharInv => CharactersAsTyped
  <2> SUFFICES ASSUME KInv, CharInv
               PROVE  CharactersAsTyped
    OBVIOUS
  <2>1. DOMAIN events = 1 .. Len(events)
    BY DEF KInv, KTypes
  <2>2. \A e \in EventSet : \E n \in 1 .. Len(events) : e = events[n]
    BY <2>1 DEF EventSet
  <2> QED
    BY <2>2 DEF CharactersAsTyped, Pressed
<1> HIDE DEF CharInv
<1> QED
  BY <1>1, <1>2, <1>3, KInvariant, PTL DEF KSpec
=============================================================================
