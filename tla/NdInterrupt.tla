----------------------------- MODULE NdInterrupt -----------------------------
(***************************************************************************)
(* Interrupts as every component of the kernel meets them: entry and exit  *)
(* of handlers, the tick and the timers it expires, PendSV, and who may    *)
(* call the kernel when.  Still operators over a kernel record: the        *)
(* modules that own the variable turn each into an action.                 *)
(***************************************************************************)
EXTENDS NdKernel

CONSTANT MaxNest       \* bound: handlers active at once

\* The ports that switch on the spot keep interrupts masked inside a handler.
ASSUME NestAssumption == MaxNest \in Nat \ {0} /\ (~Deferred => MaxNest = 1)

-----------------------------------------------------------------------------
(* Who runs.  An API call is one critical section; the two loops of the    *)
(* kernel that run inside one (timer_expired, nd_thread_halt) are taken    *)
(* one iteration at a time, during which nothing else can happen.          *)

Masked(s) == s.expiring \/ s.halting # NoThread \/ s.fault
Booted(s) == s.cur # NoThread

\* PendSV is taken as soon as the lock is released, unless a handler comes first.
InThread(s) == Booted(s) /\ s.isr = <<>> /\ ~s.pendsv /\ ~Masked(s)
InHandler(s) == s.isr # <<>> /\ ~Last(s.isr).done /\ ~Masked(s)
InBoot(s) == ~Booted(s) /\ ~Masked(s)

-----------------------------------------------------------------------------
(* Handlers *)

CanEnter(s) == Booted(s) /\ ~Masked(s) /\ Len(s.isr) < MaxNest

\* The tick interrupt does not preempt itself.
CanTick(s) == CanEnter(s) /\ \A i \in DOMAIN s.isr : s.isr[i].src # "tick"

nd_enter_interrupt(s, src) ==
  [s EXCEPT !.isr = Append(@, [src |-> src, done |-> FALSE]), !.nest = @ + 1]

\* Mutation of TickInterrupt: the tick is counted, the timers are not processed.
TickOnly(s) == TickPasses(nd_enter_interrupt(s, "tick"))

\* isr_systick: enter, count the tick, then nd_timer_process takes the lock.  A handler that
\* comes in between acts as one that came before, inside an outer handler: it finds the nest
\* count above zero, and none of its calls reads the clock.
TickInterrupt(s) == [TickPasses(nd_enter_interrupt(s, "tick")) EXCEPT !.expiring = TRUE]

nd_exit_interrupt(s) ==
  [s EXCEPT !.isr = Append(Front(@), [Last(@) EXCEPT !.done = TRUE]), !.nest = @ - 1]

\* Mutation of HandlerTail: the request is served but not taken back.
TailKeepsRequest(s) ==
  LET s1 == [s EXCEPT !.isr = Front(@)]
  IN IF s.nest > 0 \/ ~s.try THEN s1 ELSE nd_schedule_core(s1)

\* The last call of a handler: nd_try_schedule_irqsave on Cortex-M, where an outer
\* handler may still be active; nd_schedule_irq_exit on the other ports.
AtTail(s) == s.isr # <<>> /\ Last(s.isr).done /\ ~Masked(s)
HandlerTail(s) ==
  LET s1 == [s EXCEPT !.isr = Front(@)]
  IN IF s.nest > 0 \/ ~s.try THEN s1 ELSE nd_schedule_core([s1 EXCEPT !.try = FALSE])

\* isr_pendsv: below every other interrupt.
CanPendSV(s) == s.pendsv /\ s.isr = <<>> /\ ~Masked(s)
isr_pendsv(s) == nd_context_switch_cb([s EXCEPT !.pendsv = FALSE], s.next)

-----------------------------------------------------------------------------
(* Timer callbacks *)

\* Mutation of nd_thread_slice_timeout: the reschedule is asked for without giving way.
SliceTimeoutStays(s, t) ==
  IF t # s.cur \/ s.ready[s.prio[t]] = <<>> THEN s
  ELSE nd_scheduler([s EXCEPT !.left[t] = 0, !.ran[t] = -1])

nd_thread_slice_timeout(s, t) ==
  IF t # s.cur \/ s.ready[s.prio[t]] = <<>> THEN s
  ELSE nd_scheduler([s EXCEPT !.yield[t] = TRUE, !.left[t] = 0, !.ran[t] = -1])

nd_thread_pend_timeout(s, t) ==
  LET s1 == [s EXCEPT !.stat[t] = "READY", !.error[t] = "ETIMEOUT"]
  IN nd_scheduler(nd_thread_ready_add_tail(WaitUnlink(s1, t), t))

thread_timer_callback(s, t) ==
  LET s1 == [s EXCEPT !.stat[t] = "READY",
                      !.left[t] = IF Slice[t] # 0 THEN Slice[t] ELSE @,
                      !.ran[t] = IF Slice[t] # 0 THEN -1 ELSE @]
  IN nd_scheduler(nd_thread_ready_add_tail(s1, t))

\* One turn of the loop of timer_expired: the earliest timer that is due leaves the
\* tree and its callback runs; with none due the loop ends.
ExpireOne(s) ==
  LET e  == Head(s.timers)
      s1 == [s EXCEPT !.timers = Tail(@)]
  IN IF s.timers = <<>> \/ (s.timers # <<>> /\ e.left > 0) THEN [s EXCEPT !.expiring = FALSE]
     ELSE CASE e.cb = "slice" -> nd_thread_slice_timeout(s1, e.who)
            [] e.cb = "pend"  -> nd_thread_pend_timeout(s1, e.who)
            [] e.cb = "delay" -> thread_timer_callback(s1, e.who)

-----------------------------------------------------------------------------
(* What holds of a kernel record between two steps *)

\* nd_interrupt_nest_count counts the handlers that have not called nd_exit_interrupt.
Open(s) == {i \in DOMAIN s.isr : ~s.isr[i].done}
NestCounts(s) == s.nest = Cardinality(Open(s))

\* A current thread that gave way is about to be switched away, by PendSV, at the end
\* of the handler or at the end of its abort.
Settled(s) ==
  /\ Booted(s) /\ s.stat[s.cur] # "RUNNING" => s.pendsv \/ s.try \/ s.halting = s.cur
  /\ s.try => s.isr # <<>>

\* Nobody waits for a thread that does not exist or no longer exists.
DeadUnwaited(s) ==
  \A t \in Thread :
    s.stat[t] \in {"INIT", "DEAD"} /\ s.halting # t => s.wait[t] = <<>>

\* No node was unlinked twice, and the thread a pending switch was prepared for is READY.
Steady(s) == ~s.fault /\ (s.pendsv => s.stat[s.next] = "READY")

=============================================================================
