------------------------------ MODULE NdContext ------------------------------
(***************************************************************************)
(* The context switch of the three architectures (context.S, trap.S and    *)
(* port.c under arch): what is pushed on the stack of a thread that is     *)
(* left, and what is taken from that of the thread that goes on.           *)
(*                                                                         *)
(* On RV32 and the Cortex-A9 a thread is left either inside the call that  *)
(* switches (a voluntary frame, without the registers a call may change)   *)
(* or by an interrupt (a preempt frame), and the restore goes by the type  *)
(* found on the stack, so each way out can meet each way in.  On Cortex-M  *)
(* every switch is a PendSV.  Which thread is next is left open: NdSched.  *)
(*                                                                         *)
(* Registers are a mark of the thread that wrote them, in two groups: those *)
(* a C function preserves, and the scratch ones.                           *)
(***************************************************************************)
EXTENDS Naturals, Sequences, SequencesExt

CONSTANTS
  Task, Nobody,
  Archs,                 \* the architectures: a subset of AllArchs
  MaxDepth               \* bound: critical sections inside each other

AllArchs == {"rv32", "a9", "m"}
ASSUME ContextAssumption ==
  Nobody \notin Task /\ Archs \subseteq AllArchs /\ MaxDepth \in Nat \ {0}

VARIABLES
  arch,
  cur,                   \* nd_current_thread
  cpu,                   \* masked: interrupts are off; at: what code runs; kept, scratch:
                         \* the registers; fore: RV32, MEICONTEXT says foreground
  stk,                   \* the frames on each thread's stack, the top one last
  irqs,                  \* what nd_hw_irq_save returned in each critical section a thread is in
  pend,                  \* Cortex-M: the thread PendSV is to switch to, or Nobody
  mine                   \* what each thread would find in its registers if nobody else ran

ctxVars == <<arch, cur, cpu, stk, irqs, pend, mine>>

Junk == <<Nobody, 0>>
Unspoken == <<Nobody, 1>>     \* in mine: nothing is promised

Frame(type, masked, at, kept, scratch, fore) ==
  [type |-> type, masked |-> masked, at |-> at, kept |-> kept, scratch |-> scratch, fore |-> fore]

\* nd_hw_stack_init: RV32 enters through a voluntary frame with interrupts on, whose
\* return address is task_entry_trampoline; the others through an interrupt return.
nd_hw_stack_init(a, t) ==
  IF a = "rv32" THEN Frame("voluntary", FALSE, "thread", <<t, 0>>, Junk, TRUE)
  ELSE Frame("preempt", FALSE, "thread", <<t, 0>>, <<t, 0>>, TRUE)

CtxInit ==
  /\ arch \in Archs
  /\ cur = Nobody
  /\ cpu = [masked |-> TRUE, at |-> "boot", kept |-> Junk, scratch |-> Junk, fore |-> TRUE]
  /\ stk = [t \in Task |-> <<nd_hw_stack_init(arch, t)>>]
  /\ irqs = [t \in Task |-> <<>>]
  /\ pend = Nobody
  /\ mine = [t \in Task |-> [kept |-> Unspoken, scratch |-> IF arch = "rv32" THEN Unspoken ELSE <<t, 0>>]]

Push(t, f) == [stk EXCEPT ![t] = Append(@, f)]

-----------------------------------------------------------------------------
(* Restoring: what becomes of the processor and of the stacks s *)

\* Mutation of RvRestoreVoluntary: MEICONTEXT is left as the handler had it.
RvRestoreInHandler(s, t) ==
  /\ cpu' = [cpu EXCEPT !.masked = Last(s[t]).masked, !.at = "restoring",
                        !.kept = Junk, !.scratch = Junk]
  /\ stk' = s

\* RV32 writes MEICONTEXT and mstatus first.  The first frame of a thread turns
\* interrupts on there, while the registers are still to be loaded.
RvRestoreVoluntary(s, t) ==
  /\ cpu' = [masked |-> Last(s[t]).masked, at |-> "restoring",
             kept |-> Junk, scratch |-> Junk, fore |-> TRUE]
  /\ stk' = s

RvLoad ==
  /\ arch = "rv32" /\ cpu.at = "restoring"
  /\ cpu' = [cpu EXCEPT !.at = "thread", !.kept = Last(stk[cur]).kept]
  /\ stk' = [stk EXCEPT ![cur] = Front(@)]
  /\ UNCHANGED <<arch, cur, irqs, pend, mine>>

\* The Cortex-A9 writes the CPSR last.
A9RestoreVoluntary(s, t) ==
  LET f == Last(s[t])
  IN /\ cpu' = [masked |-> f.masked, at |-> "thread", kept |-> f.kept, scratch |-> Junk,
                fore |-> cpu.fore]
     /\ stk' = [s EXCEPT ![t] = Front(@)]

\* restore_irq and mret; restore_preempt and RFEIA; the return from PendSV.
RestorePreempted(s, t) ==
  LET f == Last(s[t])
  IN /\ cpu' = [masked |-> f.masked, at |-> f.at, kept |-> f.kept, scratch |-> f.scratch,
                fore |-> f.fore]
     /\ stk' = [s EXCEPT ![t] = Front(@)]

restore_dispatch(s, t) ==
  IF Last(s[t]).type = "preempt" THEN RestorePreempted(s, t)
  ELSE IF arch = "rv32" THEN RvRestoreVoluntary(s, t) ELSE A9RestoreVoluntary(s, t)

-----------------------------------------------------------------------------
(* Threads *)

\* The running thread changes its registers.
Work ==
  /\ cpu.at = "thread"
  /\ \E v \in {0, 1} :
       /\ cpu' = [cpu EXCEPT !.kept = <<cur, v>>, !.scratch = <<cur, v>>]
       /\ mine' = [mine EXCEPT ![cur] = [kept |-> <<cur, v>>, scratch |-> <<cur, v>>]]
  /\ UNCHANGED <<arch, cur, stk, irqs, pend>>

nd_hw_irq_save ==
  /\ cpu.at = "thread" /\ Len(irqs[cur]) < MaxDepth
  /\ irqs' = [irqs EXCEPT ![cur] = Append(@, cpu.masked)]
  /\ cpu' = [cpu EXCEPT !.masked = TRUE]
  /\ UNCHANGED <<arch, cur, stk, pend, mine>>

nd_hw_irq_restore ==
  /\ cpu.at = "thread" /\ irqs[cur] # <<>>
  /\ cpu' = [cpu EXCEPT !.masked = Last(irqs[cur])]
  /\ irqs' = [irqs EXCEPT ![cur] = Front(@)]
  /\ UNCHANGED <<arch, cur, stk, pend, mine>>

\* nd_hw_do_switch on RV32 and the Cortex-A9, in the critical section of the scheduler.
\* What scratch registers hold after a call is nobody's business.
SwitchNow(n) ==
  /\ arch # "m" /\ cpu.at = "thread" /\ irqs[cur] # <<>>
  /\ restore_dispatch(Push(cur, Frame("voluntary", cpu.masked, "thread", cpu.kept, Junk, TRUE)), n)
  /\ cur' = n
  /\ mine' = [mine EXCEPT ![cur].scratch = Unspoken]
  /\ UNCHANGED <<arch, irqs, pend>>

\* nd_hw_do_switch on Cortex-M, by a thread or by a handler.
SwitchLater(n) ==
  /\ arch = "m"
  /\ \/ cpu.at = "thread" /\ irqs[cur] # <<>> /\ mine' = [mine EXCEPT ![cur].scratch = Unspoken]
     \/ cpu.at = "handler" /\ UNCHANGED mine
  /\ pend' = n
  /\ UNCHANGED <<arch, cur, cpu, stk, irqs>>

-----------------------------------------------------------------------------
(* nd_hw_do_switch_first *)

StartNow(n) ==
  /\ arch # "m" /\ cpu.at = "boot"
  /\ restore_dispatch(stk, n)
  /\ cur' = n
  /\ UNCHANGED <<arch, irqs, pend, mine>>

\* The first PendSV skips r4-r11 of the frame: the thread starts without them.
StartByPendSV(n) ==
  /\ arch = "m" /\ cpu.at = "boot"
  /\ cpu' = [cpu EXCEPT !.masked = FALSE, !.at = "thread", !.scratch = stk[n][1].scratch]
  /\ stk' = [stk EXCEPT ![n] = <<>>]
  /\ cur' = n
  /\ UNCHANGED <<arch, irqs, pend, mine>>

-----------------------------------------------------------------------------
(* Interrupts *)

CanInterrupt == cpu.at \in {"thread", "restoring"} /\ ~cpu.masked

\* What the handler finds: its own registers, interrupts off on entry.
InHandlerNow == [masked |-> TRUE, at |-> "handler", kept |-> Junk, scratch |-> Junk, fore |-> FALSE]

PreemptFrame == Frame("preempt", FALSE, cpu.at, cpu.kept, cpu.scratch, cpu.fore)

riscv_trap_entry ==
  /\ arch = "rv32" /\ CanInterrupt
  /\ stk' = Push(cur, PreemptFrame)
  /\ cpu' = InHandlerNow
  /\ UNCHANGED <<arch, cur, irqs, pend, mine>>

vector_irq ==
  /\ arch = "a9" /\ CanInterrupt
  /\ stk' = Push(cur, PreemptFrame)
  /\ cpu' = [InHandlerNow EXCEPT !.fore = cpu.fore]
  /\ UNCHANGED <<arch, cur, irqs, pend, mine>>

\* After nd_schedule_irq_exit, which may have changed nd_current_thread.
TrapReturns(n) ==
  /\ arch # "m" /\ cpu.at = "handler"
  /\ restore_dispatch(stk, n)
  /\ cur' = n
  /\ UNCHANGED <<arch, irqs, pend, mine>>

\* Cortex-M: the hardware stacks the scratch registers; a handler is a C function and
\* keeps the others.
ExceptionEntry ==
  /\ arch = "m" /\ CanInterrupt
  /\ stk' = Push(cur, Frame("scratch", FALSE, "thread", Junk, cpu.scratch, TRUE))
  /\ cpu' = [cpu EXCEPT !.at = "handler", !.scratch = Junk]
  /\ UNCHANGED <<arch, cur, irqs, pend, mine>>

ExceptionReturn ==
  /\ arch = "m" /\ cpu.at = "handler"
  /\ cpu' = [cpu EXCEPT !.at = "thread", !.scratch = Last(stk[cur]).scratch]
  /\ stk' = [stk EXCEPT ![cur] = Front(@)]
  /\ UNCHANGED <<arch, cur, irqs, pend, mine>>

\* The lowest priority: only from a thread, once interrupts are on.
isr_pendsv_frames ==
  /\ arch = "m" /\ pend # Nobody /\ CanInterrupt
  /\ RestorePreempted(Push(cur, PreemptFrame), pend)
  /\ cur' = pend /\ pend' = Nobody
  /\ UNCHANGED <<arch, irqs, mine>>

CtxNext ==
  \/ Work \/ nd_hw_irq_save \/ nd_hw_irq_restore \/ RvLoad
  \/ \E n \in Task : StartNow(n) \/ StartByPendSV(n) \/ SwitchNow(n) \/ SwitchLater(n)
                       \/ TrapReturns(n)
  \/ riscv_trap_entry \/ vector_irq \/ ExceptionEntry \/ ExceptionReturn \/ isr_pendsv_frames

CtxSpec == CtxInit /\ [][CtxNext]_ctxVars

-----------------------------------------------------------------------------
(* Properties *)

Promised(reg, m) == m = Unspoken \/ reg = m

\* Whichever way a thread was left and whichever way it is entered again, it goes on with
\* its registers, with interrupts off exactly while it is in a critical section of its
\* own and, on RV32, at the foreground level of the interrupt controller, without which
\* no further interrupt would be taken; its stack is where it was.  This includes the
\* interrupt that comes while a new thread is being entered.
ContextKept ==
  /\ cpu.at = "thread" =>
       /\ Promised(cpu.kept, mine[cur].kept) /\ Promised(cpu.scratch, mine[cur].scratch)
       /\ cpu.masked <=> irqs[cur] # <<>>
       /\ cpu.fore
       /\ stk[cur] = <<>>
  /\ \A t \in Task \ {cur} : stk[t] # <<>>

=============================================================================
