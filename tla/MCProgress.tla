---------------------------- MODULE MCProgress -----------------------------
(***************************************************************************)
(* Three parts that must get on, in one state space: the interrupts, the   *)
(* spinlock and the builtins alloc and free.  They share no state; a       *)
(* behaviour is one of them alone, the others standing still.              *)
(*                                                                         *)
(* Interrupts: four requests on the lines of the timer, the keyboard and,  *)
(* masked, a serial port.  Spinlock: three CPUs and four updates of the    *)
(* guarded word.  Builtins: the machine of MCAllocBuiltin.                 *)
(***************************************************************************)
EXTENDS MCAllocBuiltin, Interrupts, Spinlock

VARIABLE part  \* the part that runs

MCInit ==
  /\ part \in {"interrupts", "spinlock", "builtins"}
  /\ IInit /\ LInit /\ BInit
  \* One initial state of a part that stands still.
  /\ part # "spinlock" => lock = 0
  /\ part # "builtins" => mmap = CHOOSE map \in MMAPS : TRUE

MCNext ==
  /\ UNCHANGED part
  /\ \/ part = "interrupts" /\ INext /\ UNCHANGED <<spinvars, vars>>
     \/ part = "spinlock" /\ LNext /\ UNCHANGED <<irqvars, vars>>
     \/ part = "builtins" /\ BNext /\ UNCHANGED <<irqvars, spinvars>>

\* The fairness of ISpec, of LSpec and of BSpec, each for its own part.
MCFairness ==
  /\ WF_irqvars(part = "interrupts" /\ init_descriptor_tables)
  /\ WF_irqvars(part = "interrupts" /\ handler)
  /\ \A l \in LINES : SF_irqvars(part = "interrupts" /\ Deliver(l))
  /\ \A c \in CPUS : WF_spinvars(part = "spinlock" /\ Proceed(c))
  /\ WF_vars(part = "builtins" /\ alloc_loop)

MCSpec == MCInit /\ [][MCNext]_<<irqvars, spinvars, vars, part>> /\ MCFairness
=============================================================================
