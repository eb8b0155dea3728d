------------------------------ MODULE NdKernel ------------------------------
(***************************************************************************)
(* The kernel state of NerdRTOS and the internal functions that change it: *)
(* ready queues, wait lists, thread timers, the choice of the next thread  *)
(* and the context switch (nd_scheduler.c, nd_thread.c, nd_timer.c).       *)
(*                                                                         *)
(* The module declares no variable.  The kernel is a record s, and each    *)
(* internal function of the code is an operator from a record to a record, *)
(* so that an API call, which runs under the interrupt lock, is the        *)
(* composition of the calls its body makes.  The modules that own a kernel *)
(* variable extend this one.                                               *)
(***************************************************************************)
EXTENDS Integers, Sequences, FiniteSets, SequencesExt

CONSTANTS
  Thread,        \* thread control blocks, the idle thread included
  Idle,          \* k_idle_thread: ESSENTIAL, never blocks
  NoThread,      \* ND_NULL
  Object,        \* wait queues other than the join lists (IPC objects)
  MaxPrio,       \* ND_THREAD_PRIORITY_MAX - 1; 0 is the most urgent
  Slice,         \* slice.time_slice of each thread; 0 switches slicing off
  MaxDelay,      \* bound: the longest timeout a caller asks for, in ticks
  Deferred       \* TRUE: Cortex-M, nd_hw_do_switch only pends PendSV;
                 \* FALSE: Cortex-A9 and RISC-V, it switches on the spot

Prio == 0..MaxPrio
WaitQueue == Thread \cup Object      \* join_list of a thread, or an object's list
Forever == -1                        \* ND_TIMEOUT_FOREVER

ASSUME ThreadAssumption == Idle \in Thread /\ NoThread \notin WaitQueue
ASSUME ObjectAssumption == Object \cap Thread = {}
ASSUME PrioAssumption == MaxPrio \in Nat
ASSUME SliceAssumption == Slice \in [Thread -> Nat] /\ Slice[Idle] = 0
ASSUME DelayAssumption == MaxDelay \in Nat
ASSUME PortAssumption == Deferred \in BOOLEAN

Stat == {"INIT", "READY", "RUNNING", "BLOCK", "SUSPEND", "DEAD"}
Error == {"EOK", "ETIMEOUT"}

\* One armed timer.  cb is the callback: "slice" for the slice timer; "pend"
\* (nd_thread_pend_timeout) and "delay" (thread_timer_callback) share thread->timer.
\* left is expire_time minus the current tick.
Timer == [who : Thread, cb : {"slice", "pend", "delay"}, left : Nat]

\* An active interrupt handler; done once nd_exit_interrupt has been called.
Frame == [src : {"tick", "dev"}, done : BOOLEAN]

KernelState ==
  [ stat     : [Thread -> Stat],
    prio     : [Thread -> Prio],
    yield    : [Thread -> BOOLEAN],
    error    : [Thread -> Error],
    left     : [Thread -> Nat],            \* slice.slice_left
    ran      : [Thread -> Nat \cup {-1}],  \* now - slice.slice_start; -1 for slice_start = 0
    tick0    : BOOLEAN,                    \* the tick count is still 0
    ready    : [Prio -> Seq(Thread)],      \* k_thread_ready_list
    bits     : SUBSET Prio,                \* k_thread_ready_bit
    wait     : [WaitQueue -> Seq(Thread)],
    timers   : Seq(Timer),                 \* the timer tree, in order of expiry
    cur      : Thread \cup {NoThread},     \* nd_current_thread
    next     : Thread \cup {NoThread},     \* nd_next_thread
    pendsv   : BOOLEAN,                    \* PendSV is pending
    nest     : Nat,                        \* nd_interrupt_nest_count
    try      : BOOLEAN,                    \* nd_interrupt_try_switch
    isr      : Seq(Frame),                 \* the active handlers, innermost last
    expiring : BOOLEAN,                    \* inside the loop of timer_expired
    halting  : Thread \cup {NoThread},     \* inside the loop of nd_thread_halt
    fault    : BOOLEAN ]                   \* nd_list_remove of an unlinked node

-----------------------------------------------------------------------------
(* Ready queues *)

\* Links in the ready list (fair: among threads of one priority, arrival order).
nd_thread_ready_add_tail(s, t) ==
  LET p == s.prio[t]
  IN [s EXCEPT !.ready[p] = Append(@, t), !.bits = @ \cup {p}]

nd_thread_ready_add_head(s, t) ==
  LET p == s.prio[t]
  IN [s EXCEPT !.ready[p] = Cons(t, @), !.bits = @ \cup {p}]

\* Mutation of nd_thread_ready_remove: the bit of an emptied list stays set.
ReadyBitKept(s, t) ==
  LET p == s.prio[t]
  IN IF Contains(s.ready[p], t) THEN [s EXCEPT !.ready[p] = RemoveFirst(@, t)]
                                ELSE [s EXCEPT !.fault = TRUE]

\* nd_list_remove clears the node it unlinks and follows its pointers, so that
\* removing a thread that is on no list is a write through ND_NULL.
nd_thread_ready_remove(s, t) ==
  LET p    == s.prio[t]
      rest == RemoveFirst(s.ready[p], t)
  IN IF Contains(s.ready[p], t)
     THEN [s EXCEPT !.ready[p] = rest,
                    !.bits = IF rest = <<>> THEN @ \ {p} ELSE @]
     ELSE [s EXCEPT !.fault = TRUE]

\* nd_ffs of the bitmap, then the first node of that list.
nd_get_highest_priority_thread(s) ==
  IF s.bits = {} THEN NoThread ELSE Head(s.ready[Min(s.bits)])

-----------------------------------------------------------------------------
(* Thread timers *)

\* Mutation of SameTimer: one stop for both timers of a thread.
AnyTimer(e, t, slice) == e.who = t

SameTimer(e, t, slice) == e.who = t /\ ((e.cb = "slice") <=> slice)

\* timer_remove: nothing when the node is not in the tree.
nd_timer_stop(s, t, slice) ==
  [s EXCEPT !.timers = RemoveFirstMatch(@, LAMBDA e : SameTimer(e, t, slice))]

\* timer_node_insert goes right on equal expiry: after every timer due no later.
TimerInsert(timers, e) ==
  LET later == {i \in DOMAIN timers : timers[i].left > e.left}
  IN IF later = {} THEN Append(timers, e) ELSE InsertAt(timers, Min(later), e)

nd_timer_start(s, t, cb, timeout) ==
  LET s1 == nd_timer_stop(s, t, cb = "slice")
  IN [s1 EXCEPT !.timers = TimerInsert(@, [who |-> t, cb |-> cb, left |-> timeout])]

\* One tick passes for every armed timer and for every running slice; the count is kept
\* only as zero or not, which is what slice_start is compared with.
Aged(e) == [e EXCEPT !.left = IF e.left = 0 THEN 0 ELSE e.left - 1]

TickPasses(s) ==
  [s EXCEPT
     !.tick0 = FALSE,
     !.timers = [i \in DOMAIN s.timers |-> Aged(s.timers[i])],
     !.ran = [t \in Thread |-> IF s.ran[t] # -1 /\ s.ran[t] < Slice[t]
                               THEN s.ran[t] + 1 ELSE s.ran[t]]]

-----------------------------------------------------------------------------
(* Wait lists *)

\* Mutation of WaitInsert: waiters in order of arrival.
WaitArrivalOrder(s, q, t) == [s EXCEPT !.wait[q] = Append(@, t)]

\* nd_thread_wait_insert: before the first waiter of a lower priority.
WaitInsert(s, q, t) ==
  LET list  == s.wait[q]
      lower == {i \in DOMAIN list : s.prio[list[i]] > s.prio[t]}
  IN [s EXCEPT !.wait[q] = IF lower = {} THEN Append(@, t)
                                         ELSE InsertAt(@, Min(lower), t)]

\* nd_list_remove of the qnode of a blocked thread, whichever list holds it, if one does:
\* where nd_list_is_linked is asked first, or the node was just found on a list.
WaitRemove(s, t) ==
  [s EXCEPT !.wait = [q \in WaitQueue |-> RemoveFirst(@[q], t)]]

Linked(s, t) == \E q \in WaitQueue : Contains(s.wait[q], t)

\* The same where the code does not ask nd_list_is_linked first: a thread on no wait list
\* would be a write through ND_NULL.
WaitUnlink(s, t) == IF Linked(s, t) THEN WaitRemove(s, t) ELSE [s EXCEPT !.fault = TRUE]

nd_thread_pend(s, q, timeout) ==
  LET c  == s.cur
      s1 == [WaitInsert(s, q, c) EXCEPT !.error[c] = "EOK", !.stat[c] = "BLOCK"]
  IN IF timeout = Forever THEN s1 ELSE nd_timer_start(s1, c, "pend", timeout)

\* Mutation of nd_thread_wakeup: the timeout of the woken thread stays armed.
WakeupKeepsTimer(s, q) ==
  LET t  == Head(s.wait[q])
      s1 == [s EXCEPT !.error[t] = "EOK", !.stat[t] = "READY"]
  IN nd_thread_ready_add_tail(WaitRemove(s1, t), t)

nd_thread_wakeup(s, q) ==
  LET t  == Head(s.wait[q])
      s1 == [nd_timer_stop(s, t, FALSE) EXCEPT !.error[t] = "EOK", !.stat[t] = "READY"]
  IN nd_thread_ready_add_tail(WaitRemove(s1, t), t)

-----------------------------------------------------------------------------
(* Scheduling *)

Preempts(s, n) == s.prio[n] < s.prio[s.cur]
Rotates(s, n)  == s.prio[n] = s.prio[s.cur] /\ s.yield[s.cur]

\* Mutation of nd_should_switch: a current thread that gave way is not seen.
SwitchByPriority(s, n) ==
  /\ n # NoThread /\ s.cur # NoThread
  /\ Preempts(s, n) \/ Rotates(s, n)

nd_should_switch(s, n) ==
  /\ n # NoThread /\ s.cur # NoThread
  /\ Preempts(s, n) \/ Rotates(s, n) \/ s.stat[s.cur] # "RUNNING"

\* Mutation of Requeue: a preempted thread goes behind its peers.
PreemptedGoesLast(s, n) ==
  LET c  == s.cur
      s1 == [s EXCEPT !.yield[c] = @ /\ ~Rotates(s, n)]
  IN IF s.stat[c] # "RUNNING" THEN s1
     ELSE nd_thread_ready_add_tail([s1 EXCEPT !.stat[c] = "READY"], c)

\* What nd_schedule_pick_next does to the current thread once n is chosen.
Requeue(s, n) ==
  LET c  == s.cur
      s1 == [s EXCEPT !.yield[c] = @ /\ ~Rotates(s, n)]
      s2 == [s1 EXCEPT !.stat[c] = "READY"]
      s3 == IF Rotates(s, n) /\ Slice[c] # 0
            THEN [s2 EXCEPT !.left[c] = Slice[c], !.ran[c] = -1] ELSE s2
  IN IF s.stat[c] # "RUNNING" THEN s1
     ELSE IF Preempts(s, n) THEN nd_thread_ready_add_head(s3, c)
                            ELSE nd_thread_ready_add_tail(s3, c)

\* Mutation of SettleSlice: what is left of a slice may pass below zero.
ChargeUnclamped(s, c) ==
  LET used == [s EXCEPT !.left[c] = IF s.ran[c] = -1 \/ @ = 0 THEN @ ELSE @ - s.ran[c]]
  IN IF c = NoThread THEN s
     ELSE IF Slice[c] = 0 THEN s
     ELSE [nd_timer_stop(used, c, TRUE) EXCEPT !.ran[c] = -1]

\* The outgoing thread is charged for the part of its slice it used.
SettleSlice(s, c) ==
  LET used == [s EXCEPT !.left[c] = IF s.ran[c] = -1 \/ @ = 0 THEN @
                                    ELSE IF s.ran[c] >= @ THEN 0 ELSE @ - s.ran[c]]
  IN IF c = NoThread THEN s
     ELSE IF Slice[c] = 0 THEN s
     ELSE [nd_timer_stop(used, c, TRUE) EXCEPT !.ran[c] = -1]

\* Mutation of StartSlice: the timer gets a whole slice, the account what was left.
WholeSlice(s, n) ==
  LET budget == IF s.left[n] = 0 THEN Slice[n] ELSE s.left[n]
  IN IF Slice[n] = 0 THEN s
     ELSE IF s.ready[s.prio[n]] # <<>>
     THEN nd_timer_start([s EXCEPT !.left[n] = budget, !.ran[n] = 0], n, "slice", Slice[n])
     ELSE [nd_timer_stop(s, n, TRUE) EXCEPT !.left[n] = Slice[n], !.ran[n] = -1]

\* The incoming thread is timed only when it has ready peers at this moment.  A slice
\* started at tick 0 looks like one that was never started.
StartSlice(s, n) ==
  LET budget == IF s.left[n] = 0 \/ s.left[n] > Slice[n] THEN Slice[n] ELSE s.left[n]
  IN IF Slice[n] = 0 THEN s
     ELSE IF s.ready[s.prio[n]] # <<>>
     THEN nd_timer_start([s EXCEPT !.left[n] = budget, !.ran[n] = IF s.tick0 THEN -1 ELSE 0],
                         n, "slice", budget)
     ELSE [nd_timer_stop(s, n, TRUE) EXCEPT !.left[n] = Slice[n], !.ran[n] = -1]

nd_context_switch_cb(s, n) ==
  LET s1 == SettleSlice(nd_thread_ready_remove(s, n), s.cur)
      s2 == [s1 EXCEPT !.next = NoThread, !.cur = n, !.stat[n] = "RUNNING"]
  IN IF n = NoThread THEN s ELSE StartSlice(s2, n)

\* The switch itself: on the spot, or left to PendSV.
nd_hw_do_switch(s, n) ==
  IF Deferred THEN [s EXCEPT !.next = n, !.pendsv = TRUE]
              ELSE nd_context_switch_cb(s, n)

\* Mutation of nd_schedule_core: with a switch on its way it chooses no other thread.
FirstChoiceStays(s) ==
  LET n == nd_get_highest_priority_thread(s)
  IN IF ~s.pendsv /\ nd_should_switch(s, n) THEN nd_hw_do_switch(Requeue(s, n), n) ELSE s

nd_schedule_core(s) ==
  LET n == nd_get_highest_priority_thread(s)
  IN IF nd_should_switch(s, n) THEN nd_hw_do_switch(Requeue(s, n), n) ELSE s

nd_scheduler(s) ==
  IF s.nest > 0 THEN [s EXCEPT !.try = TRUE] ELSE nd_schedule_core(s)

-----------------------------------------------------------------------------
(* What a kernel record keeps in step *)

\* The ready lists hold exactly the READY threads, each once, on the list of its
\* priority, and the bitmap marks exactly the lists that are not empty.
ReadyAgree(s) ==
  /\ \A p \in Prio : IsInjective(s.ready[p])
  /\ \A p \in Prio, t \in Thread :
       Contains(s.ready[p], t) <=> s.stat[t] = "READY" /\ s.prio[t] = p
  /\ \A p \in Prio : p \in s.bits <=> s.ready[p] # <<>>

\* Only BLOCK threads are on wait lists, and on each at most once.
WaitsAgree(s) ==
  /\ \A q \in WaitQueue : IsInjective(s.wait[q])
  /\ \A t \in Thread : Linked(s, t) => s.stat[t] = "BLOCK"

\* Each timer object is in the tree at most once.  thread->timer is armed for a BLOCK
\* thread only, with the callback that unlinks it exactly when it is linked; a slice
\* timer for the current thread only.
TimerAgrees(s, e) ==
  IF e.cb = "slice" THEN e.who = s.cur /\ Slice[e.who] # 0
  ELSE s.stat[e.who] = "BLOCK" /\ ((e.cb = "pend") <=> Linked(s, e.who))

OnceEach(timers) ==
  \A i, j \in DOMAIN timers :
    SameTimer(timers[j], timers[i].who, timers[i].cb = "slice") => i = j

TimersAgree(s) ==
  OnceEach(s.timers) /\ \A i \in DOMAIN s.timers : TimerAgrees(s, s.timers[i])

\* The tree is in order of expiry, as timer_node_insert leaves it.
InTime(timers) == \A i, j \in DOMAIN timers : i < j => timers[i].left <= timers[j].left

\* A slice timer is due only where the loop of timer_expired meets it; while its thread
\* runs, what it has left is what slice_left minus the time since slice_start comes to
\* (where slice_start says that the slice has started).
SliceAgrees(s, e) ==
  e.cb = "slice" =>
    /\ e.left = 0 => s.expiring
    /\ s.stat[e.who] = "RUNNING" =>
         IF s.ran[e.who] # -1 THEN e.left = s.left[e.who] - s.ran[e.who]
                              ELSE e.left <= s.left[e.who]

\* No account is above its slice, and each agrees with the slice timer.
SlicesAgree(s) ==
  /\ \A t \in Thread : s.left[t] <= Slice[t]
  /\ InTime(s.timers)
  /\ \A i \in DOMAIN s.timers : SliceAgrees(s, s.timers[i])

\* Nobody is RUNNING but nd_current_thread, and the idle thread can always run.
CurrentAgrees(s) ==
  /\ \A t \in Thread : s.stat[t] = "RUNNING" => t = s.cur
  /\ s.stat[Idle] \in {"READY", "RUNNING"}

\* A pending PendSV has a thread to switch to, and one to switch from that gave way.
SwitchAgrees(s) ==
  s.pendsv => /\ Deferred /\ s.next # NoThread /\ s.cur # NoThread
              /\ s.stat[s.cur] # "RUNNING" /\ s.stat[s.next] \notin {"INIT", "BLOCK"}

Agree(s) ==
  /\ ReadyAgree(s) /\ WaitsAgree(s) /\ TimersAgree(s) /\ SlicesAgree(s)
  /\ CurrentAgrees(s) /\ SwitchAgrees(s)

=============================================================================
