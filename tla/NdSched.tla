------------------------------- MODULE NdSched -------------------------------
(***************************************************************************)
(* The NerdRTOS scheduler and thread lifecycle: threads that are created,  *)
(* delayed, suspended, resumed, joined, aborted and that yield, under      *)
(* interrupts that tick and that call the kernel.  Clients are the most    *)
(* general ones allowed by Calls and IsrCalls.                             *)
(***************************************************************************)
EXTENDS NdInterrupt

CONSTANTS
  PrioChoice,    \* the priorities each thread may be created with
  Calls,         \* what threads do: a subset of AllCalls
  IsrCalls       \* what handlers do to threads

AllCalls == {"create", "recreate", "abort", "return", "suspend", "resume",
             "delay", "yield", "join"}

ASSUME CallsAssumption ==
  Calls \subseteq AllCalls /\ IsrCalls \subseteq {"suspend", "resume", "abort"}
ASSUME PrioChoiceAssumption ==
  PrioChoice \in [Thread -> SUBSET Prio] /\ PrioChoice[Idle] = {MaxPrio}

VARIABLES
  k,             \* the kernel
  inside         \* the wait queue whose blocking call each thread is inside, or NoThread

vars == <<k, inside>>

\* After nd_scheduler_init: only the idle thread exists, nothing runs yet.
Init ==
  /\ k = [stat     |-> [t \in Thread |-> IF t = Idle THEN "READY" ELSE "INIT"],
          prio     |-> [t \in Thread |-> MaxPrio],
          yield    |-> [t \in Thread |-> FALSE],
          error    |-> [t \in Thread |-> "EOK"],
          left     |-> [t \in Thread |-> Slice[t]],
          ran      |-> [t \in Thread |-> -1],
          tick0    |-> TRUE,
          ready    |-> [p \in Prio |-> IF p = MaxPrio THEN <<Idle>> ELSE <<>>],
          bits     |-> {MaxPrio},
          wait     |-> [q \in WaitQueue |-> <<>>],
          timers   |-> <<>>,
          cur      |-> NoThread,
          next     |-> NoThread,
          pendsv   |-> FALSE,
          nest     |-> 0,
          try      |-> FALSE,
          isr      |-> <<>>,
          expiring |-> FALSE,
          halting  |-> NoThread,
          fault    |-> FALSE]
  /\ inside = [t \in Thread |-> NoThread]

-----------------------------------------------------------------------------
(* Who calls *)

\* The running thread, in its own code; the idle thread only spins.
InOwnCode == InThread(k) /\ k.cur # Idle /\ inside[k.cur] = NoThread
ThreadCalls(c) == InOwnCode /\ c \in Calls
HandlerCalls(c) == InHandler(k) /\ c \in IsrCalls

\* A handle a client can hold: that of a thread it created.  k_idle_thread is static.
Handle(t) == t # Idle /\ k.stat[t] # "INIT"

-----------------------------------------------------------------------------
(* nd_scheduler_start, nd_thread_create *)

nd_scheduler_start ==
  /\ InBoot(k)
  /\ k' = nd_context_switch_cb(k, nd_get_highest_priority_thread(k))
  /\ UNCHANGED inside

Fresh(t, p) ==   \* nd_thread_init, then the insertion in the ready queue
  LET s1 == [k EXCEPT !.prio[t] = p, !.left[t] = Slice[t], !.ran[t] = -1,
                      !.yield[t] = FALSE, !.wait[t] = <<>>, !.stat[t] = "READY"]
  IN nd_thread_ready_add_tail(s1, t)

\* By main before the start, or by the running thread; a control block can be used
\* again once its thread is dead.
nd_thread_create(t, p) ==
  /\ InBoot(k) \/ ThreadCalls("create")
  /\ t # Idle /\ (k.stat[t] = "INIT" \/ (k.stat[t] = "DEAD" /\ "recreate" \in Calls))
  /\ k' = nd_scheduler(Fresh(t, p))
  /\ inside' = [inside EXCEPT ![t] = NoThread]

-----------------------------------------------------------------------------
(* nd_thread_abort *)

\* nd_thread_halt up to the loop over the join list.
Halt(t) ==
  LET s1 == CASE k.stat[t] = "READY" -> nd_thread_ready_remove(k, t)
              [] k.stat[t] = "BLOCK" -> WaitRemove(k, t)
              [] OTHER -> k
      s2 == nd_timer_stop(nd_timer_stop(s1, t, FALSE), t, TRUE)
  IN [s2 EXCEPT !.stat[t] = "DEAD", !.halting = t]

\* By another thread, by a handler, or by the thread itself: nd_thread_entry aborts
\* a thread whose entry function has returned.  An ESSENTIAL or dead one is left alone.
nd_thread_abort(t) ==
  /\ \/ HandlerCalls("abort")
     \/ ThreadCalls("abort") /\ t # k.cur
     \/ ThreadCalls("return") /\ t = k.cur
  /\ Handle(t) /\ k.stat[t] # "DEAD"
  /\ k' = Halt(t)
  /\ inside' = [inside EXCEPT ![t] = NoThread]

\* The loop wakes every joiner; then a thread that halted itself is switched away.
HaltLoop ==
  LET t == k.halting
      s == [k EXCEPT !.halting = NoThread]
  IN /\ t # NoThread /\ ~k.fault
     /\ k' = IF k.wait[t] # <<>> THEN nd_thread_wakeup(k, t)
             ELSE IF t = k.cur THEN nd_scheduler(s) ELSE s
     /\ UNCHANGED inside

-----------------------------------------------------------------------------
(* nd_thread_suspend, nd_thread_resume *)

nd_thread_suspend(t) ==
  LET s == [k EXCEPT !.stat[t] = "SUSPEND"]
  IN /\ ThreadCalls("suspend") \/ HandlerCalls("suspend")
     /\ Handle(t)
     /\ \/ k.stat[t] = "READY"   /\ k' = nd_thread_ready_remove(s, t)
        \/ k.stat[t] = "RUNNING" /\ k' = nd_scheduler(s)
        \/ k.stat[t] = "BLOCK"   /\ k' = nd_scheduler(nd_timer_stop(WaitRemove(s, t), t, FALSE))
     /\ UNCHANGED inside

\* Mutation of nd_thread_resume: the scheduler is not called.
ResumeOnly(t) ==
  /\ ThreadCalls("resume") \/ HandlerCalls("resume")
  /\ Handle(t) /\ k.stat[t] = "SUSPEND"
  /\ k' = nd_thread_ready_add_tail([k EXCEPT !.stat[t] = "READY"], t)
  /\ UNCHANGED inside

nd_thread_resume(t) ==
  /\ ThreadCalls("resume") \/ HandlerCalls("resume")
  /\ Handle(t) /\ k.stat[t] = "SUSPEND"
  /\ k' = nd_scheduler(nd_thread_ready_add_tail([k EXCEPT !.stat[t] = "READY"], t))
  /\ UNCHANGED inside

-----------------------------------------------------------------------------
(* nd_thread_yield, nd_thread_delay, nd_thread_join *)

nd_thread_yield ==
  /\ ThreadCalls("yield")
  /\ k' = nd_scheduler([k EXCEPT !.yield[k.cur] = TRUE])
  /\ UNCHANGED inside

nd_thread_delay(d) ==
  LET c  == k.cur
      s1 == IF Slice[c] = 0 THEN k
            ELSE [nd_timer_stop(k, c, TRUE) EXCEPT !.left[c] = Slice[c], !.ran[c] = -1]
  IN /\ ThreadCalls("delay")
     /\ k' = nd_scheduler(nd_timer_start([s1 EXCEPT !.stat[c] = "BLOCK"], c, "delay", d))
     /\ UNCHANGED inside

\* The path that waits; the others return at once and change nothing.
nd_thread_join(t, timeout) ==
  /\ ThreadCalls("join")
  /\ Handle(t) /\ t # k.cur /\ k.stat[t] # "DEAD" /\ timeout # 0
  /\ k' = nd_scheduler(nd_thread_pend(k, t, timeout))
  /\ inside' = [inside EXCEPT ![k.cur] = t]

\* nd_thread_join returns error to its caller, which runs again.
JoinReturn ==
  /\ InThread(k) /\ inside[k.cur] \in Thread
  /\ inside' = [inside EXCEPT ![k.cur] = NoThread]
  /\ UNCHANGED k

-----------------------------------------------------------------------------
(* Interrupts *)

EnterTick   == CanTick(k) /\ k' = TickInterrupt(k) /\ UNCHANGED inside
EnterDevice == CanEnter(k) /\ k' = nd_enter_interrupt(k, "dev") /\ UNCHANGED inside
TimerLoop   == k.expiring /\ ~k.fault /\ k' = ExpireOne(k) /\ UNCHANGED inside
Exit        == InHandler(k) /\ k' = nd_exit_interrupt(k) /\ UNCHANGED inside
ExitTail    == AtTail(k) /\ k' = HandlerTail(k) /\ UNCHANGED inside
PendSV      == CanPendSV(k) /\ k' = isr_pendsv(k) /\ UNCHANGED inside

\* All but nd_thread_suspend, which asks first for the mutexes of the thread.
Others ==
  \/ nd_scheduler_start
  \/ \E t \in Thread :
       \/ \E p \in PrioChoice[t] : nd_thread_create(t, p)
       \/ nd_thread_abort(t)
       \/ nd_thread_resume(t)
       \/ \E timeout \in 1..MaxDelay \cup {Forever} : nd_thread_join(t, timeout)
  \/ HaltLoop
  \/ nd_thread_yield
  \/ \E d \in 0..MaxDelay : nd_thread_delay(d)
  \/ JoinReturn
  \/ EnterTick \/ EnterDevice \/ TimerLoop \/ Exit \/ ExitTail \/ PendSV

Next == Others \/ \E t \in Thread : nd_thread_suspend(t)

Spec == Init /\ [][Next]_vars

-----------------------------------------------------------------------------
(* Properties *)

\* Every field has its type (the structures of nd_thread.h and nd_scheduler.c).
TypeOK ==
  /\ k \in KernelState
  /\ inside \in [Thread -> WaitQueue \cup {NoThread}]

\* Ready lists, bitmap and thread states agree: what the calls of nd_thread_ready_*,
\* made from eight places in the kernel, have to keep in step.
ReadyQueuesAgree == ReadyAgree(k)

\* On Cortex-M a switch is prepared under the lock and made later by PendSV, and handlers
\* that make threads READY may come in between: when PendSV is about to use nd_next_thread,
\* it is the thread the scheduler would choose at that moment, the first of the most urgent
\* ready list, and so still linked where nd_context_switch_cb unlinks it.
PreparedIsFirst == CanPendSV(k) => k.next = nd_get_highest_priority_thread(k)

\* Only nd_current_thread is RUNNING; and when it executes its own code it is RUNNING,
\* so that a call of its own never finds it queued, blocked or dead.
OnlyCurrentRuns ==
  /\ \A t \in Thread : k.stat[t] = "RUNNING" => t = k.cur
  /\ InThread(k) => k.stat[k.cur] = "RUNNING"

\* A thread executes its own code only while no READY thread is more urgent:
\* preemption is immediate, whatever the order of calls, timers and interrupts.
MostUrgentRuns ==
  InThread(k) => \A t \in Thread : k.stat[t] = "READY" => k.prio[k.cur] <= k.prio[t]

ThreadTimer(t) == {i \in DOMAIN k.timers : SameTimer(k.timers[i], t, FALSE)}
SliceTimer(t)  == {i \in DOMAIN k.timers : SameTimer(k.timers[i], t, TRUE)}

\* Whoever is BLOCK can be woken: it waits in the join list of a thread that is not
\* yet dead (or whose abort is waking its joiners), or its delay timer is armed.
BlockedCanWake ==
  \A t \in Thread : k.stat[t] = "BLOCK" =>
    \/ \E u \in Thread : Contains(k.wait[u], t) /\ (k.stat[u] # "DEAD" \/ k.halting = u)
    \/ \E i \in ThreadTimer(t) : k.timers[i].cb = "delay"

\* A timer that can still fire has a thread that still waits for it: no callback makes
\* READY a thread that is already READY, running, suspended or dead, and a slice timer is
\* armed for the current thread only.
TimersServeWaiters == TimersAgree(k)

\* The wait lists hold exactly the threads blocked in the call that waits there, most
\* urgent first.
WaitListsAgree ==
  /\ WaitsAgree(k)
  /\ \A q \in WaitQueue :
       LET list == k.wait[q]
       IN /\ \A t \in Thread : Contains(list, t) => inside[t] = q
          /\ \A i, j \in DOMAIN list : i < j => k.prio[list[i]] <= k.prio[list[j]]

\* While its thread runs, the two accounts of a slice agree: what the slice timer has
\* left is what slice_left minus the time since slice_start comes to (where slice_start
\* says that the slice has started).
SliceAccountsAgree ==
  \A t \in Thread :
    /\ k.left[t] <= Slice[t]
    /\ \A i \in SliceTimer(t) : k.stat[t] = "RUNNING" =>
         IF k.ran[t] # -1 THEN k.timers[i].left = k.left[t] - k.ran[t]
                          ELSE k.timers[i].left <= k.left[t]

\* A reschedule requested inside a handler is never left behind when the last handler
\* returns, and a thread that may not go on always has its switch pending.
NoLostReschedule ==
  k.isr = <<>> /\ ~Masked(k) =>
    /\ ~k.try
    /\ Booted(k) /\ k.stat[k.cur] # "RUNNING" => k.pendsv

\* The inductive invariant of the proofs: between two steps the kernel's tables agree,
\* a switch that is owed is on its way, and, unless a handler on Cortex-M suspends or
\* aborts threads, the thread a pending switch was prepared for stays READY.
KernelInv ==
  /\ TypeOK
  /\ Agree(k) /\ NestCounts(k) /\ Settled(k) /\ DeadUnwaited(k)
  /\ ~Deferred \/ IsrCalls \subseteq {"resume"} => Steady(k)

\* Who becomes READY queues behind its peers, except that a running thread preempted by
\* a more urgent one goes in front; and threads that stay READY never change places.
Position(s, t) == CHOOSE i \in DOMAIN s.ready[s.prio[t]] : s.ready[s.prio[t]][i] = t
Runnable == {"READY", "RUNNING"}
ReadyOrder ==
  \A t, u \in Thread :
    (k'.stat[t] = "READY" /\ k.stat[u] = "READY" /\ k'.stat[u] = "READY" /\ t # u
       /\ k'.prio[t] = k'.prio[u]) =>
      (Position(k', t) < Position(k', u) <=>
         IF k.stat[t] = "READY" THEN Position(k, t) < Position(k, u)
         ELSE /\ k.stat[t] = "RUNNING"
              /\ \E v \in Thread : k'.stat[v] \in Runnable /\ k'.prio[v] < k'.prio[t])

\* Every step keeps ReadyOrder.
ReadyOrderKept == [][ReadyOrder]_vars

-----------------------------------------------------------------------------
(* Liveness *)

\* main starts the scheduler; the tick timer interrupts for ever; a handler makes
\* finitely many calls and returns; the loops under the lock go on; PendSV is taken when
\* no handler holds it off.
\* Nothing is assumed of threads: they may compute for ever without a call.
Fairness ==
  /\ WF_vars(nd_scheduler_start)
  /\ SF_vars(EnterTick) /\ SF_vars(Exit) /\ SF_vars(PendSV)
  /\ WF_vars(TimerLoop) /\ WF_vars(HaltLoop) /\ WF_vars(ExitTail)

FairSpec == Spec /\ Fairness

\* A delay or a bounded wait ends: an armed thread timer fires or is stopped.
WaitsEnd == \A t \in Thread : ThreadTimer(t) # {} ~> ThreadTimer(t) = {}

\* A thread that alone has the most urgent priority runs once it is READY, whatever
\* the others do.
Alone(t) == \A u \in Thread \ {t} : k.prio[t] < k.prio[u]
UrgentRuns ==
  \A t \in Thread : (k.stat[t] = "READY" /\ Alone(t)) ~> (k.stat[t] # "READY" \/ ~Alone(t))

\* A timed slice ends: with its slice timer armed and a peer ready, the current thread
\* gives way, unless its peers leave first.
SliceEnds ==
  \A t \in Thread :
    (k.stat[t] = "RUNNING" /\ SliceTimer(t) # {} /\ k.ready[k.prio[t]] # <<>>)
      ~> (k.stat[t] # "RUNNING" \/ k.ready[k.prio[t]] = <<>>)

-----------------------------------------------------------------------------
(* What the repository says of the code and the code does not do: see README *)

\* A suspended thread takes no part in scheduling until it is resumed: the thread PendSV
\* is about to switch to is not a suspended one.
SuspendedNotScheduled ==
  CanPendSV(k) /\ k.next # NoThread => k.stat[k.next] # "SUSPEND"

\* A thread preempted by a more urgent one keeps the rest of its slice: what its slice
\* timer had left is what slice_left says once it is switched out.
RestOfSliceKept ==
  [][\A t \in Thread, i \in DOMAIN k.timers :
       (/\ SameTimer(k.timers[i], t, TRUE) /\ k.cur = t /\ k'.cur # t
        /\ k'.stat[t] = "READY" /\ k'.prio[k'.cur] < k.prio[t])
         => k'.left[t] = k.timers[i].left]_vars

\* nd_thread_join reports ND_EOK only for a thread that is dead (for clients that do not
\* use a control block again).
JoinTellsTruth ==
  \A t \in Thread :
    (inside[t] \in Thread /\ k.stat[t] \in {"READY", "RUNNING"} /\ k.error[t] = "EOK")
      => k.stat[inside[t]] = "DEAD"

\* Round-robin time slicing shares the CPU among equal-priority threads: no sliced
\* thread stays READY for ever behind one sliced peer that keeps the CPU.
SlicesShareCPU ==
  \A t, u \in Thread \ {Idle} :
    t # u => ~<>[](/\ k.stat[t] = "READY" /\ k.cur = u
                   /\ k.prio[t] = k.prio[u] /\ Slice[t] # 0 /\ Slice[u] # 0)

=============================================================================
