---------------------------- MODULE NdSchedProofs ----------------------------
(***************************************************************************)
(* The scheduler and the thread lifecycle keep KernelInv, for every set of *)
(* threads, every priority range, every slice length and both kinds of     *)
(* port; and what follows from it.                                         *)
(*                                                                         *)
(* First, what each internal function of the kernel preserves: the ready   *)
(* queues, the thread timers, the wait lists, the choice of the next       *)
(* thread and the switch; and the calls a thread, a handler or a timer     *)
(* makes, up to the scheduler call that ends each of them.  These lemmas   *)
(* are about one kernel record and hold whoever owns the kernel variable.  *)
(***************************************************************************)
EXTENDS NdSched, SeqLemmas, FiniteSetTheorems

-----------------------------------------------------------------------------
(* Ready queues *)

\* r is s, but for the fields of the ready lists.
OnlyReady(s, r) == r = [s EXCEPT !.ready = r.ready, !.bits = r.bits]
OnlyReadyOrFault(s, r) ==
  r = [s EXCEPT !.ready = r.ready, !.bits = r.bits, !.fault = r.fault]

\* The other fields are those of s.
LEMMA OnlyReadyFrame ==
  ASSUME NEW s \in KernelState, NEW r, OnlyReady(s, r)
  PROVE  /\ r.stat = s.stat /\ r.prio = s.prio /\ r.yield = s.yield /\ r.error = s.error
         /\ r.left = s.left /\ r.ran = s.ran /\ r.wait = s.wait /\ r.timers = s.timers
         /\ r.cur = s.cur /\ r.next = s.next /\ r.pendsv = s.pendsv /\ r.nest = s.nest
         /\ r.try = s.try /\ r.isr = s.isr /\ r.expiring = s.expiring /\ r.halting = s.halting
         /\ r.fault = s.fault
  BY DEF OnlyReady, KernelState

\* The other fields are those of s.
LEMMA OnlyReadyOrFaultFrame ==
  ASSUME NEW s \in KernelState, NEW r, OnlyReadyOrFault(s, r)
  PROVE  /\ r.stat = s.stat /\ r.prio = s.prio /\ r.yield = s.yield /\ r.error = s.error
         /\ r.left = s.left /\ r.ran = s.ran /\ r.wait = s.wait /\ r.timers = s.timers
         /\ r.cur = s.cur /\ r.next = s.next /\ r.pendsv = s.pendsv /\ r.nest = s.nest
         /\ r.try = s.try /\ r.isr = s.isr /\ r.expiring = s.expiring /\ r.halting = s.halting
  BY DEF OnlyReadyOrFault, KernelState

\* Between the two halves of a transition a thread is READY and not yet linked, or
\* linked and no longer READY: the ready queues agree but for t.
ReadyBut(s, t) ==        \* t is on no ready list
  /\ \A p \in Prio : IsInjective(s.ready[p])
  /\ \A p \in Prio, u \in Thread :
       Contains(s.ready[p], u) <=> u # t /\ s.stat[u] = "READY" /\ s.prio[u] = p
  /\ \A p \in Prio : p \in s.bits <=> s.ready[p] # <<>>

ReadyMaybe(s, t) ==      \* t is on the list of its priority or on none
  /\ \A p \in Prio : IsInjective(s.ready[p])
  /\ \A p \in Prio, u \in Thread : u # t =>
       (Contains(s.ready[p], u) <=> s.stat[u] = "READY" /\ s.prio[u] = p)
  /\ \A p \in Prio : Contains(s.ready[p], t) => p = s.prio[t]
  /\ \A p \in Prio : p \in s.bits <=> s.ready[p] # <<>>

\* Linking a READY thread on the list of its priority completes the transition,
\* whichever end it is linked at.
LEMMA LinkLemma ==
  ASSUME NEW s \in KernelState, NEW t \in Thread, ReadyBut(s, t), s.stat[t] = "READY",
         NEW l \in Seq(Thread), l # <<>>, IsInjective(l),
         \A u : Contains(l, u) <=> Contains(s.ready[s.prio[t]], u) \/ u = t,
         NEW r,
         r = [s EXCEPT !.ready = [s.ready EXCEPT ![s.prio[t]] = l],
                       !.bits = s.bits \cup {s.prio[t]}]
  PROVE  /\ r \in KernelState
         /\ OnlyReady(s, r)
         /\ ReadyAgree(r)
<1> DEFINE p == s.prio[t]
           x == [s.ready EXCEPT ![p] = l]
           y == s.bits \cup {p}
<1>1. /\ p \in Prio /\ s.ready \in [Prio -> Seq(Thread)]
      /\ s.bits \in SUBSET Prio
  BY DEF KernelState, OnlyReady, OnlyReadyOrFault
<1>2. r = [s EXCEPT !.ready = x, !.bits = y]
  OBVIOUS
<1>3. x \in [Prio -> Seq(Thread)] /\ y \in SUBSET Prio
  BY <1>1
<1>4. \A q \in Prio : x[q] = IF q = p THEN l ELSE s.ready[q]
  BY <1>1
<1> HIDE DEF x, y
<1>5. /\ r \in KernelState
      /\ OnlyReady(s, r)
      /\ r.ready = x /\ r.bits = y /\ r.stat = s.stat /\ r.prio = s.prio
  BY <1>2, <1>3 DEF KernelState, OnlyReady, OnlyReadyOrFault
<1>6. ReadyAgree(r)
  <2>1. \A q \in Prio : IsInjective(x[q])
    BY <1>4 DEF ReadyBut
  <2>2. \A q \in Prio, u \in Thread : Contains(x[q], u) <=> s.stat[u] = "READY" /\ s.prio[u] = q
    BY <1>4 DEF ReadyBut
  <2>3. \A q \in Prio : q \in y <=> x[q] # <<>>
    BY <1>1, <1>4 DEF ReadyBut, y
  <2> QED
    BY <1>5, <2>1, <2>2, <2>3 DEF ReadyAgree
<1> QED
  BY <1>5, <1>6

\* nd_thread_ready_add_tail: a READY thread that is not linked is linked, last.
LEMMA AddTailLemma ==
  ASSUME NEW s \in KernelState, NEW t \in Thread, ReadyBut(s, t), s.stat[t] = "READY",
         NEW r, r = nd_thread_ready_add_tail(s, t)
  PROVE  /\ r \in KernelState
         /\ OnlyReady(s, r)
         /\ ReadyAgree(r)
<1> DEFINE l == Append(s.ready[s.prio[t]], t)
<1>1. s.prio[t] \in Prio /\ s.ready[s.prio[t]] \in Seq(Thread)
  BY DEF KernelState, OnlyReady, OnlyReadyOrFault
<1>2. ~Contains(s.ready[s.prio[t]], t) /\ IsInjective(s.ready[s.prio[t]])
  BY <1>1 DEF ReadyBut
<1>3. /\ l \in Seq(Thread) /\ l # <<>> /\ IsInjective(l)
      /\ \A u : Contains(l, u) <=> Contains(s.ready[s.prio[t]], u) \/ u = t
  BY <1>1, <1>2, AppendLemma
<1>4. r = [s EXCEPT !.ready = [s.ready EXCEPT ![s.prio[t]] = l],
                    !.bits = s.bits \cup {s.prio[t]}]
  BY DEF nd_thread_ready_add_tail, KernelState, OnlyReady, OnlyReadyOrFault
<1> HIDE DEF l
<1> QED
  BY <1>3, <1>4, LinkLemma

\* nd_thread_ready_add_head: a READY thread that is not linked is linked, first.
LEMMA AddHeadLemma ==
  ASSUME NEW s \in KernelState, NEW t \in Thread, ReadyBut(s, t), s.stat[t] = "READY",
         NEW r, r = nd_thread_ready_add_head(s, t)
  PROVE  /\ r \in KernelState
         /\ OnlyReady(s, r)
         /\ ReadyAgree(r)
<1> DEFINE l == Cons(t, s.ready[s.prio[t]])
<1>1. s.prio[t] \in Prio /\ s.ready[s.prio[t]] \in Seq(Thread)
  BY DEF KernelState, OnlyReady, OnlyReadyOrFault
<1>2. ~Contains(s.ready[s.prio[t]], t) /\ IsInjective(s.ready[s.prio[t]])
  BY <1>1 DEF ReadyBut
<1>3. /\ l \in Seq(Thread) /\ l # <<>> /\ IsInjective(l)
      /\ \A u : Contains(l, u) <=> Contains(s.ready[s.prio[t]], u) \/ u = t
  <2> DEFINE q == s.ready[s.prio[t]]
  <2>1. q \in Seq(Thread) /\ ~Contains(q, t) /\ IsInjective(q)
    BY <1>1, <1>2
  <2> HIDE DEF q
  <2>2. /\ Cons(t, q) \in Seq(Thread) /\ Cons(t, q) # <<>>
        /\ \A u : Contains(Cons(t, q), u) <=> Contains(q, u) \/ u = t
        /\ IsInjective(Cons(t, q))
    BY <2>1, ConsLemma
  <2> QED
    BY <2>2 DEF q
<1>4. r = [s EXCEPT !.ready = [s.ready EXCEPT ![s.prio[t]] = l],
                    !.bits = s.bits \cup {s.prio[t]}]
  BY DEF nd_thread_ready_add_head, KernelState, OnlyReady, OnlyReadyOrFault
<1> HIDE DEF l
<1> QED
  BY <1>3, <1>4, LinkLemma

\* nd_thread_ready_remove: afterwards the lists hold every READY thread but t, and only an
\* unlinked node is a fault.
LEMMA ReadyRemoveLemma ==
  ASSUME NEW s \in KernelState, NEW t \in Thread, ReadyMaybe(s, t),
         NEW r, r = nd_thread_ready_remove(s, t)
  PROVE  /\ r \in KernelState
         /\ OnlyReadyOrFault(s, r)
         /\ ReadyBut(r, t)
         /\ r.fault <=> s.fault \/ ~Contains(s.ready[s.prio[t]], t)
<1> DEFINE p == s.prio[t]
           l == RemoveFirst(s.ready[p], t)
           x == [s.ready EXCEPT ![p] = l]
           y == IF l = <<>> THEN s.bits \ {p} ELSE s.bits
<1>1. /\ p \in Prio /\ s.ready \in [Prio -> Seq(Thread)] /\ s.ready[p] \in Seq(Thread)
      /\ s.bits \in SUBSET Prio /\ s.fault \in BOOLEAN
  BY DEF KernelState, OnlyReady, OnlyReadyOrFault
<1>2. CASE ~Contains(s.ready[p], t)
  <2>1. r = [s EXCEPT !.fault = TRUE]
    BY <1>2 DEF nd_thread_ready_remove
  <2>2. /\ r \in KernelState
        /\ OnlyReadyOrFault(s, r)
        /\ r.ready = s.ready /\ r.bits = s.bits /\ r.stat = s.stat /\ r.prio = s.prio /\ r.fault
    BY <2>1 DEF KernelState, OnlyReady, OnlyReadyOrFault
  <2>3. \A q \in Prio : ~Contains(s.ready[q], t)
    BY <1>2 DEF ReadyMaybe
  <2>4. ReadyBut(r, t)
    BY <2>2, <2>3 DEF ReadyMaybe, ReadyBut
  <2> QED
    BY <1>2, <2>2, <2>4
<1>3. CASE Contains(s.ready[p], t)
  <2>1. r = [s EXCEPT !.ready = x, !.bits = y]
    BY <1>3 DEF nd_thread_ready_remove, KernelState, OnlyReady, OnlyReadyOrFault
  <2>2. IsInjective(s.ready[p])
    BY <1>1 DEF ReadyMaybe
  <2>3. /\ l \in Seq(Thread) /\ IsInjective(l)
        /\ \A u : Contains(l, u) <=> Contains(s.ready[p], u) /\ u # t
    BY <1>1, <2>2, RemoveFirstLemma
  <2> HIDE DEF l
  <2>4. x \in [Prio -> Seq(Thread)] /\ y \in SUBSET Prio
    BY <1>1, <2>3
  <2>5. \A q \in Prio : x[q] = IF q = p THEN l ELSE s.ready[q]
    BY <1>1
  <2> HIDE DEF x, y
  <2>6. /\ r \in KernelState
        /\ OnlyReadyOrFault(s, r)
        /\ r.ready = x /\ r.bits = y /\ r.stat = s.stat /\ r.prio = s.prio
        /\ r.fault = s.fault
    BY <2>1, <2>4 DEF KernelState, OnlyReady, OnlyReadyOrFault
  <2>7. ReadyBut(r, t)
    <3>1. \A q \in Prio : IsInjective(x[q])
      BY <2>3, <2>5 DEF ReadyMaybe
    <3>2. \A q \in Prio, u \in Thread :
            Contains(x[q], u) <=> u # t /\ s.stat[u] = "READY" /\ s.prio[u] = q
      BY <2>3, <2>5 DEF ReadyMaybe
    <3>3. /\ \A q \in Prio : q \in s.bits <=> s.ready[q] # <<>>
          /\ s.ready[p] # <<>>
      BY <1>1, <1>3 DEF ReadyMaybe, Contains
    <3>4. \A q \in Prio : q \in y <=> x[q] # <<>>
      BY <1>1, <2>5, <3>3 DEF y
    <3> QED
      BY <2>6, <3>1, <3>2, <3>4 DEF ReadyBut
  <2> QED
    BY <1>3, <2>6, <2>7
<1> QED
  BY <1>2, <1>3

-----------------------------------------------------------------------------
(* Who goes where in the ready queues *)

\* Threads that stay on a list of s keep their order in r, and newcomers, who neither
\* waited to run nor ran, stand behind them; nobody starts to run.
Behind(s, r) ==
  /\ \A p \in Prio, a, b \in Thread :
       a # b /\ Contains(s.ready[p], b) /\ Contains(r.ready[p], b) /\ Contains(r.ready[p], a) =>
         (Ahead(r.ready[p], a, b) <=> Ahead(s.ready[p], a, b))
  /\ \A p \in Prio, a \in Thread :
       Contains(r.ready[p], a) => Contains(s.ready[p], a) \/ s.stat[a] \notin Runnable
  /\ \A a \in Thread : r.stat[a] = "RUNNING" => s.stat[a] = "RUNNING"

\* Somebody who can run is more urgent than a.
Urged(r, a) == \E v \in Thread : r.stat[v] \in Runnable /\ r.prio[v] < r.prio[a]

\* Threads that stay keep their order, and newcomers stand behind them, but for the
\* thread that ran and had to give way to a more urgent one: it stands before them.
Ranked(s, r) ==
  \A p \in Prio, a, b \in Thread :
    a # b /\ Contains(s.ready[p], b) /\ Contains(r.ready[p], b) /\ Contains(r.ready[p], a) =>
      (Ahead(r.ready[p], a, b) <=>
         IF Contains(s.ready[p], a) THEN Ahead(s.ready[p], a, b)
         ELSE s.stat[a] = "RUNNING" /\ Urged(r, a))

\* The only newcomer is the thread that ran.
GaveWay(s, r) ==
  \A p \in Prio, a \in Thread :
    Contains(r.ready[p], a) => Contains(s.ready[p], a) \/ s.stat[a] = "RUNNING"

\* Where no list changes.
LEMMA BehindSame ==
  ASSUME NEW s, NEW r, r.ready = s.ready,
         \A a \in Thread : r.stat[a] = "RUNNING" => s.stat[a] = "RUNNING"
  PROVE  Behind(s, r)
  BY DEF Behind

\* nd_thread_ready_add_tail.
LEMMA BehindAdded ==
  ASSUME NEW s, NEW x \in KernelState, NEW t \in Thread, x.ready = s.ready,
         s.stat[t] \notin Runnable,
         \A a \in Thread : x.stat[a] = "RUNNING" => s.stat[a] = "RUNNING",
         ~Contains(x.ready[x.prio[t]], t),
         NEW r, r = nd_thread_ready_add_tail(x, t)
  PROVE  Behind(s, r)
<1> DEFINE q == x.prio[t]
           l == Append(x.ready[q], t)
<1>1. q \in Prio /\ x.ready \in [Prio -> Seq(Thread)] /\ x.ready[q] \in Seq(Thread)
  BY DEF KernelState
<1>2. r.ready = [x.ready EXCEPT ![q] = l] /\ r.stat = x.stat
  BY DEF nd_thread_ready_add_tail, KernelState
<1>3. /\ \A a : Contains(l, a) <=> Contains(x.ready[q], a) \/ a = t
      /\ \A a, b : b # t => (Ahead(l, a, b) <=> Ahead(x.ready[q], a, b))
  BY <1>1, AppendLemma, AppendAhead
<1> HIDE DEF l
<1>4. \A p \in Prio : r.ready[p] = IF p = q THEN l ELSE s.ready[p]
  BY <1>1, <1>2
<1> HIDE DEF q
<1> QED
  BY <1>2, <1>3, <1>4 DEF Behind, q

\* Threads leave the lists, and the others keep their order.
Thinned(s, r) ==
  \A p \in Prio, a \in Thread : Contains(r.ready[p], a) =>
    /\ Contains(s.ready[p], a)
    /\ \A b \in Thread \ {a} : Contains(r.ready[p], b) =>
         (Ahead(r.ready[p], a, b) <=> Ahead(s.ready[p], a, b))

\* nd_thread_ready_remove.
LEMMA ThinnedRemoved ==
  ASSUME NEW x \in KernelState, NEW t \in Thread, \A p \in Prio : IsInjective(x.ready[p]),
         NEW s, s.ready = x.ready, NEW r, r.ready = nd_thread_ready_remove(x, t).ready
  PROVE  Thinned(s, r)
<1> DEFINE q == x.prio[t]
           l == RemoveFirst(x.ready[q], t)
<1>1. /\ q \in Prio /\ x.ready \in [Prio -> Seq(Thread)] /\ x.ready[q] \in Seq(Thread)
      /\ IsInjective(x.ready[q])
  BY DEF KernelState
<1>2. CASE ~Contains(x.ready[q], t)
  <2>1. r.ready = s.ready
    BY <1>2 DEF nd_thread_ready_remove, KernelState
  <2> QED
    BY <2>1 DEF Thinned
<1>3. CASE Contains(x.ready[q], t)
  <2>1. r.ready = [x.ready EXCEPT ![q] = l]
    BY <1>3 DEF nd_thread_ready_remove, KernelState
  <2>2. /\ \A a : Contains(l, a) <=> Contains(x.ready[q], a) /\ a # t
        /\ \A a, b : a # t /\ b # t => (Ahead(l, a, b) <=> Ahead(x.ready[q], a, b))
    BY <1>1, RemoveFirstLemma, RemoveAhead
  <2> HIDE DEF l
  <2>3. \A p \in Prio : r.ready[p] = IF p = q THEN l ELSE s.ready[p]
    BY <1>1, <2>1
  <2> HIDE DEF q
  <2> QED
    BY <2>2, <2>3 DEF Thinned, q
<1> QED
  BY <1>2, <1>3

\* So nobody who leaves disturbs the order.
LEMMA RankedThinned ==
  ASSUME NEW s, NEW r, Thinned(s, r)
  PROVE  /\ Ranked(s, r) /\ GaveWay(s, r)
         /\ (\A a \in Thread : r.stat[a] = "RUNNING" => s.stat[a] = "RUNNING") => Behind(s, r)
  BY DEF Thinned, Ranked, GaveWay, Behind

\* After a call that leaves every newcomer behind, the scheduler.
LEMMA RankedThen ==
  ASSUME NEW s, ReadyAgree(s), NEW x, Behind(s, x), NEW r, Ranked(x, r), GaveWay(x, r)
  PROVE  Ranked(s, r)
<1> SUFFICES ASSUME NEW p \in Prio, NEW a \in Thread, NEW b \in Thread, a # b,
                    Contains(s.ready[p], b), Contains(r.ready[p], b), Contains(r.ready[p], a)
             PROVE  Ahead(r.ready[p], a, b) <=>
                      IF Contains(s.ready[p], a) THEN Ahead(s.ready[p], a, b)
                      ELSE s.stat[a] = "RUNNING" /\ Urged(r, a)
  BY DEF Ranked
<1>1. Contains(x.ready[p], b)
  <2>1. s.stat[b] = "READY"
    BY DEF ReadyAgree
  <2> QED
    BY <2>1 DEF GaveWay, Behind
<1>2. CASE Contains(x.ready[p], a)
  <2>1. Ahead(r.ready[p], a, b) <=> Ahead(s.ready[p], a, b)
    BY <1>1, <1>2 DEF Ranked, Behind
  <2>2. ~Contains(s.ready[p], a) => s.stat[a] # "RUNNING" /\ ~Ahead(s.ready[p], a, b)
    BY <1>2 DEF Behind, Runnable, Ahead, Contains
  <2> QED
    BY <2>1, <2>2
<1>3. CASE ~Contains(x.ready[p], a)
  <2>1. x.stat[a] = "RUNNING" /\ s.stat[a] = "RUNNING"
    BY <1>3 DEF GaveWay, Behind
  <2>2. ~Contains(s.ready[p], a)
    BY <2>1 DEF ReadyAgree
  <2>3. Ahead(r.ready[p], a, b) <=> Urged(r, a)
    BY <1>1, <1>3, <2>1 DEF Ranked
  <2> QED
    BY <2>1, <2>2, <2>3
<1> QED
  BY <1>2, <1>3

\* What comes before and has nothing to do with the lists.
LEMMA RankedSame ==
  ASSUME NEW s, NEW x, x.ready = s.ready, x.stat = s.stat, NEW r, Ranked(x, r)
  PROVE  Ranked(s, r)
  BY DEF Ranked

\* A call without the scheduler.
LEMMA RankedBehind ==
  ASSUME NEW s, NEW r, Behind(s, r)
  PROVE  Ranked(s, r)
<1> SUFFICES ASSUME NEW p \in Prio, NEW a \in Thread, NEW b \in Thread, a # b,
                    Contains(s.ready[p], b), Contains(r.ready[p], b), Contains(r.ready[p], a)
             PROVE  Ahead(r.ready[p], a, b) <=>
                      IF Contains(s.ready[p], a) THEN Ahead(s.ready[p], a, b)
                      ELSE s.stat[a] = "RUNNING" /\ Urged(r, a)
  BY DEF Ranked
<1>1. Ahead(r.ready[p], a, b) <=> Ahead(s.ready[p], a, b)
  BY DEF Behind
<1>2. ~Contains(s.ready[p], a) => s.stat[a] # "RUNNING" /\ ~Ahead(s.ready[p], a, b)
  BY DEF Behind, Runnable, Ahead, Contains
<1> QED
  BY <1>1, <1>2

-----------------------------------------------------------------------------
(* Timers and wait lists: what arming and stopping a timer, and linking    *)
(* and unlinking a waiter, leave behind.                                   *)

\* r is s, but for the timer tree; but for the wait lists.
OnlyTimers(s, r) == r = [s EXCEPT !.timers = r.timers]
OnlyWait(s, r) == r = [s EXCEPT !.wait = r.wait]

\* The other fields are those of s.
LEMMA OnlyTimersFrame ==
  ASSUME NEW s \in KernelState, NEW r, OnlyTimers(s, r)
  PROVE  /\ r.stat = s.stat /\ r.prio = s.prio /\ r.yield = s.yield /\ r.error = s.error
         /\ r.left = s.left /\ r.ran = s.ran /\ r.ready = s.ready /\ r.bits = s.bits
         /\ r.wait = s.wait /\ r.cur = s.cur /\ r.next = s.next /\ r.pendsv = s.pendsv
         /\ r.nest = s.nest /\ r.try = s.try /\ r.isr = s.isr /\ r.expiring = s.expiring
         /\ r.halting = s.halting /\ r.fault = s.fault
  BY DEF OnlyTimers, KernelState

\* The other fields are those of s.
LEMMA OnlyWaitFrame ==
  ASSUME NEW s \in KernelState, NEW r, OnlyWait(s, r)
  PROVE  /\ r.stat = s.stat /\ r.prio = s.prio /\ r.yield = s.yield /\ r.error = s.error
         /\ r.left = s.left /\ r.ran = s.ran /\ r.ready = s.ready /\ r.bits = s.bits
         /\ r.timers = s.timers /\ r.cur = s.cur /\ r.next = s.next /\ r.pendsv = s.pendsv
         /\ r.nest = s.nest /\ r.try = s.try /\ r.isr = s.isr /\ r.expiring = s.expiring
         /\ r.halting = s.halting /\ r.fault = s.fault
  BY DEF OnlyWait, KernelState

\* The timer that the pair of a thread and a kind names, at most once in the tree.
LEMMA RemoveTimerLemma ==
  ASSUME NEW ts \in Seq(Timer), OnceEach(ts), NEW n \in 1..Len(ts),
         NEW u, u = RemoveAt(ts, n)
  PROVE  /\ u \in Seq(Timer) /\ OnceEach(u) /\ (InTime(ts) => InTime(u))
         /\ \A e : Contains(u, e) <=> Contains(ts, e) /\ e # ts[n]
<1>1. /\ u \in Seq(Timer) /\ Len(u) = Len(ts) - 1 /\ Len(ts) \in Nat /\ n \in Int
      /\ \A i \in 1..(Len(ts) - 1) : u[i] = IF i < n THEN ts[i] ELSE ts[i + 1]
  BY RemoveAtLemma
<1>2. /\ \A i \in 1..Len(u) : \E j \in 1..Len(ts) : j # n /\ u[i] = ts[j]
      /\ \A j \in 1..Len(ts) : j # n => \E i \in 1..Len(u) : u[i] = ts[j]
  BY RemoveAtElements
<1>3. \A i, j \in 1..Len(ts) : ts[i] = ts[j] => i = j
  BY DEF OnceEach, SameTimer
<1>4. OnceEach(u)
  <2> DEFINE f(i) == IF i < n THEN i ELSE i + 1
  <2>1. \A i \in 1..Len(u) : f(i) \in 1..Len(ts) /\ u[i] = ts[f(i)]
    BY <1>1
  <2>2. \A i, j \in 1..Len(u) : f(i) = f(j) => i = j
    BY <1>1
  <2>3. DOMAIN u = 1..Len(u) /\ DOMAIN ts = 1..Len(ts)
    BY <1>1
  <2> HIDE DEF f
  <2> QED
    BY <2>1, <2>2, <2>3 DEF OnceEach
<1>4a. ASSUME InTime(ts) PROVE InTime(u)
  <2> DEFINE f(i) == IF i < n THEN i ELSE i + 1
  <2>1. \A i \in 1..Len(u) : f(i) \in 1..Len(ts) /\ u[i] = ts[f(i)]
    BY <1>1
  <2>2. \A i, j \in 1..Len(u) : i < j => f(i) < f(j)
    BY <1>1
  <2>3. DOMAIN u = 1..Len(u) /\ DOMAIN ts = 1..Len(ts)
    BY <1>1
  <2> HIDE DEF f
  <2> QED
    BY <1>4a, <2>1, <2>2, <2>3 DEF InTime
<1>5. ASSUME NEW e PROVE Contains(u, e) <=> Contains(ts, e) /\ e # ts[n]
  <2>1. ASSUME Contains(u, e) PROVE Contains(ts, e) /\ e # ts[n]
    <3>1. PICK i \in 1..Len(u) : u[i] = e
      BY <2>1 DEF Contains
    <3>2. PICK j \in 1..Len(ts) : j # n /\ u[i] = ts[j]
      BY <1>2
    <3> QED
      BY <1>3, <3>1, <3>2 DEF Contains
  <2>2. ASSUME Contains(ts, e), e # ts[n] PROVE Contains(u, e)
    <3>1. PICK j \in 1..Len(ts) : ts[j] = e
      BY <2>2 DEF Contains
    <3>2. PICK i \in 1..Len(u) : u[i] = ts[j]
      BY <1>2, <2>2, <3>1
    <3> QED
      BY <3>1, <3>2 DEF Contains
  <2> QED
    BY <2>1, <2>2
<1> QED
  BY <1>1, <1>4, <1>4a, <1>5

\* nd_timer_stop takes the timer of t of that kind off the tree, and no other.
LEMMA TimerStopLemma ==
  ASSUME NEW s \in KernelState, OnceEach(s.timers),
         NEW t \in Thread, NEW slice \in BOOLEAN,
         NEW r, r = nd_timer_stop(s, t, slice)
  PROVE  /\ r \in KernelState
         /\ OnlyTimers(s, r)
         /\ OnceEach(r.timers) /\ (InTime(s.timers) => InTime(r.timers))
         /\ \A e : Contains(r.timers, e) <=> Contains(s.timers, e) /\ ~SameTimer(e, t, slice)
<1> DEFINE ts == s.timers
           u == RemoveFirstMatch(ts, LAMBDA e : SameTimer(e, t, slice))
<1>1. ts \in Seq(Timer) /\ DOMAIN ts = 1..Len(ts) /\ Len(ts) \in Nat
  BY DEF KernelState, OnlyTimers, OnlyWait
<1>2. /\ u \in Seq(Timer) /\ OnceEach(u) /\ (InTime(ts) => InTime(u))
      /\ \A e : Contains(u, e) <=> Contains(ts, e) /\ ~SameTimer(e, t, slice)
  <2>1. CASE ~\E i \in 1..Len(ts) : SameTimer(ts[i], t, slice)
    BY <1>1, <2>1 DEF RemoveFirstMatch, Contains
  <2>2. CASE \E i \in 1..Len(ts) : SameTimer(ts[i], t, slice)
    <3> DEFINE I == {i \in 1..Len(ts) : SameTimer(ts[i], t, slice)}
               n == Min(I)
    <3>1. I \subseteq Nat /\ I # {}
      BY <2>2
    <3>2. n \in I
      BY <3>1, MinIsLeast
    <3>3. u = RemoveAt(ts, n)
      BY <2>2, <3>1 DEF RemoveFirstMatch, SelectInSeq
    <3>4. n \in 1..Len(ts) /\ SameTimer(ts[n], t, slice)
      BY <3>2
    <3> HIDE DEF n, u
    <3>5. /\ u \in Seq(Timer) /\ OnceEach(u) /\ (InTime(ts) => InTime(u))
          /\ \A e : Contains(u, e) <=> Contains(ts, e) /\ e # ts[n]
      BY <1>1, <3>3, <3>4, RemoveTimerLemma
    <3>6. \A e : Contains(ts, e) => (e # ts[n] <=> ~SameTimer(e, t, slice))
      BY <1>1, <3>4 DEF OnceEach, SameTimer, Contains
    <3> QED
      BY <3>5, <3>6
  <2> QED
    BY <2>1, <2>2
<1>3. r = [s EXCEPT !.timers = u]
  BY DEF nd_timer_stop, KernelState, OnlyTimers, OnlyWait
<1> HIDE DEF u
<1> QED
  BY <1>2, <1>3 DEF KernelState, OnlyTimers, OnlyWait

\* Inserting a timer whose kind is not in the tree.
LEMMA TimerInsertLemma ==
  ASSUME NEW ts \in Seq(Timer), OnceEach(ts), NEW e \in Timer,
         \A x : Contains(ts, x) => ~SameTimer(x, e.who, e.cb = "slice"),
         NEW u, u = TimerInsert(ts, e)
  PROVE  /\ u \in Seq(Timer) /\ OnceEach(u) /\ (InTime(ts) => InTime(u))
         /\ \A x : Contains(u, x) <=> Contains(ts, x) \/ x = e
<1> DEFINE later == {i \in DOMAIN ts : ts[i].left > e.left}
<1>1. DOMAIN ts = 1..Len(ts) /\ Len(ts) \in Nat
  OBVIOUS
<1> DEFINE At(n) == \A i \in 1..(Len(ts) + 1) :
             u[i] = IF i < n THEN ts[i] ELSE IF i = n THEN e ELSE ts[i - 1]
           Due(n) == /\ \A i \in 1..Len(ts) : i < n => ts[i].left <= e.left
                     /\ n \in 1..Len(ts) => e.left < ts[n].left
<1>0. \A i \in 1..Len(ts) : ts[i].left \in Nat
  <2>1. \A i \in 1..Len(ts) : ts[i] \in Timer
    OBVIOUS
  <2> QED
    BY <2>1 DEF Timer
<1>0a. e.left \in Nat
  BY DEF Timer
<1>2. /\ u \in Seq(Timer) /\ Len(u) = Len(ts) + 1
      /\ \A x : Contains(u, x) <=> Contains(ts, x) \/ x = e
      /\ \E n \in 1..(Len(ts) + 1) : At(n) /\ Due(n)
  <2>1. CASE later = {}
    <3>1. u = Append(ts, e)
      BY <2>1 DEF TimerInsert
    <3>2. \A x : Contains(u, x) <=> Contains(ts, x) \/ x = e
      BY <3>1, AppendLemma
    <3>3. /\ u \in Seq(Timer) /\ Len(u) = Len(ts) + 1
          /\ \A i \in 1..(Len(ts) + 1) : u[i] = IF i < Len(ts) + 1 THEN ts[i] ELSE e
      BY <3>1
    <3>4. At(Len(ts) + 1)
      BY <1>1, <3>3
    <3>5. Len(ts) + 1 \in 1..(Len(ts) + 1)
      BY <1>1
    <3>6. Due(Len(ts) + 1)
      BY <1>0, <1>0a, <1>1, <2>1
    <3> HIDE DEF At, Due
    <3> QED
      BY <3>2, <3>3, <3>4, <3>5, <3>6
  <2>2. CASE later # {}
    <3> DEFINE m == Min(later)
    <3>1. later \subseteq Nat
      BY <1>1
    <3>2. m \in later
      BY <2>2, <3>1, MinIsLeast
    <3>3. u = InsertAt(ts, m, e)
      BY <2>2 DEF TimerInsert
    <3>4. m \in 1..Len(ts) /\ m \in 1..(Len(ts) + 1)
      BY <1>1, <3>2
    <3>4a. \A y \in later : m <= y
      BY <2>2, <3>1, MinIsLeast
    <3>4b. Due(m)
      <4> HIDE DEF m
      <4>1. ts[m].left > e.left
        BY <3>2
      <4>2. ASSUME NEW i \in 1..Len(ts), i < m PROVE ts[i].left <= e.left
        BY <1>0, <1>0a, <1>1, <3>4, <3>4a, <4>2
      <4> QED
        BY <1>0, <1>0a, <3>4, <4>1, <4>2
    <3> HIDE DEF m, At, Due
    <3>5. /\ u \in Seq(Timer) /\ Len(u) = Len(ts) + 1
          /\ \A x : Contains(u, x) <=> Contains(ts, x) \/ x = e
      BY <3>3, <3>4, InsertAtLemma
    <3>6. At(m)
      BY <3>3, <3>4, InsertAtLemma DEF At
    <3> QED
      BY <3>4, <3>4b, <3>5, <3>6
  <2> QED
    BY <2>1, <2>2
<1>2a. PICK n \in 1..(Len(ts) + 1) : At(n) /\ Due(n)
  BY <1>2
<1>3. OnceEach(u)
  <2> SUFFICES ASSUME NEW i \in 1..Len(u), NEW j \in 1..Len(u),
                      SameTimer(u[j], u[i].who, u[i].cb = "slice")
               PROVE  i = j
    BY <1>2 DEF OnceEach
  <2>0. \A m \in 1..Len(ts) : ~SameTimer(ts[m], e.who, e.cb = "slice")
                              /\ ~SameTimer(e, ts[m].who, ts[m].cb = "slice")
    BY DEF Contains, SameTimer
  <2> DEFINE f(m) == IF m < n THEN m ELSE m - 1
  <2>1. \A m \in 1..Len(u) : m # n => f(m) \in 1..Len(ts) /\ u[m] = ts[f(m)]
    BY <1>1, <1>2, <1>2a
  <2>2. u[n] = e
    BY <1>1, <1>2, <1>2a
  <2>3. CASE i = n \/ j = n
    BY <2>0, <2>1, <2>2, <2>3
  <2>4. CASE i # n /\ j # n
    <3>1. f(i) = f(j)
      <4> HIDE DEF f
      <4> QED
        BY <1>1, <2>1, <2>4 DEF OnceEach
    <3> QED
      BY <1>1, <1>2, <2>4, <3>1
  <2> QED
    BY <2>3, <2>4
<1>4. ASSUME InTime(ts) PROVE InTime(u)
  <2>1. \A i, j \in 1..Len(ts) : i < j => ts[i].left <= ts[j].left
    BY <1>1, <1>4 DEF InTime
  <2>2. \A i \in 1..Len(ts) : i >= n => e.left <= ts[i].left
    <3> SUFFICES ASSUME NEW i \in 1..Len(ts), i >= n PROVE e.left <= ts[i].left
      OBVIOUS
    <3>1. n \in 1..Len(ts) /\ e.left < ts[n].left
      BY <1>1, <1>2a
    <3>2. i = n \/ n < i
      BY <1>1
    <3> QED
      BY <1>0, <1>0a, <2>1, <3>1, <3>2
  <2>3. \A i \in 1..Len(ts) : i < n => ts[i].left <= e.left
    BY <1>2a
  <2>4. DOMAIN u = 1..(Len(ts) + 1)
    BY <1>2
  <2> SUFFICES ASSUME NEW i \in 1..(Len(ts) + 1), NEW j \in 1..(Len(ts) + 1), i < j
               PROVE  u[i].left <= u[j].left
    BY <2>4 DEF InTime
  <2>5. /\ u[i] = IF i < n THEN ts[i] ELSE IF i = n THEN e ELSE ts[i - 1]
        /\ u[j] = IF j < n THEN ts[j] ELSE IF j = n THEN e ELSE ts[j - 1]
    BY <1>2a
  <2>6. CASE j < n
    BY <1>1, <2>1, <2>5, <2>6
  <2>7. CASE j = n
    BY <1>1, <2>3, <2>5, <2>7
  <2>8. CASE j > n
    <3>1. j - 1 \in 1..Len(ts) /\ j - 1 >= n /\ u[j] = ts[j - 1]
      BY <1>1, <2>5, <2>8
    <3>2. CASE i < n
      BY <1>1, <2>1, <2>5, <3>1, <3>2
    <3>3. CASE i = n
      BY <1>1, <2>2, <2>5, <3>1, <3>3
    <3>4. CASE i > n
      <4>1. i - 1 \in 1..Len(ts) /\ i - 1 < j - 1 /\ u[i] = ts[i - 1]
        BY <1>1, <2>5, <3>4
      <4> QED
        BY <2>1, <3>1, <4>1
    <3> QED
      BY <3>2, <3>3, <3>4
  <2> QED
    BY <2>6, <2>7, <2>8
<1> QED
  BY <1>2, <1>3, <1>4

\* nd_timer_start leaves exactly one timer of that kind for t, due in timeout ticks.
LEMMA TimerStartLemma ==
  ASSUME NEW s \in KernelState, OnceEach(s.timers),
         NEW t \in Thread, NEW cb \in {"slice", "pend", "delay"}, NEW timeout \in Nat,
         NEW r, r = nd_timer_start(s, t, cb, timeout)
  PROVE  /\ r \in KernelState
         /\ OnlyTimers(s, r)
         /\ OnceEach(r.timers) /\ (InTime(s.timers) => InTime(r.timers))
         /\ \A e : Contains(r.timers, e) <=>
              \/ Contains(s.timers, e) /\ ~SameTimer(e, t, cb = "slice")
              \/ e = [who |-> t, cb |-> cb, left |-> timeout]
<1> DEFINE s1 == nd_timer_stop(s, t, cb = "slice")
           e1 == [who |-> t, cb |-> cb, left |-> timeout]
           u == TimerInsert(s1.timers, e1)
<1>1. (cb = "slice") \in BOOLEAN
  OBVIOUS
<1>2. /\ s1 \in KernelState
      /\ OnlyTimers(s, s1)
      /\ OnceEach(s1.timers) /\ (InTime(s.timers) => InTime(s1.timers))
      /\ \A e : Contains(s1.timers, e) <=> Contains(s.timers, e) /\ ~SameTimer(e, t, cb = "slice")
  <2> DEFINE sl == cb = "slice"
  <2>1. sl \in BOOLEAN
    OBVIOUS
  <2> HIDE DEF sl
  <2>2. /\ nd_timer_stop(s, t, sl) \in KernelState
        /\ OnlyTimers(s, nd_timer_stop(s, t, sl))
        /\ OnceEach(nd_timer_stop(s, t, sl).timers)
        /\ InTime(s.timers) => InTime(nd_timer_stop(s, t, sl).timers)
        /\ \A e : Contains(nd_timer_stop(s, t, sl).timers, e) <=> Contains(s.timers, e) /\ ~SameTimer(e, t, sl)
    BY <2>1, TimerStopLemma
  <2> QED
    BY <2>2 DEF sl
<1>3. r = [s1 EXCEPT !.timers = u]
  BY <1>2 DEF nd_timer_start, KernelState, OnlyTimers, OnlyWait
<1>4. e1 \in Timer /\ e1.who = t /\ e1.cb = cb
  BY DEF Timer
<1> HIDE DEF s1, e1
<1>5. s1.timers \in Seq(Timer)
  BY <1>2 DEF KernelState, OnlyTimers, OnlyWait
<1>6. \A x : Contains(s1.timers, x) => ~SameTimer(x, e1.who, e1.cb = "slice")
  BY <1>2, <1>4
<1>7. /\ u \in Seq(Timer) /\ OnceEach(u) /\ (InTime(s1.timers) => InTime(u))
      /\ \A x : Contains(u, x) <=> Contains(s1.timers, x) \/ x = e1
  BY <1>2, <1>4, <1>5, <1>6, TimerInsertLemma
<1> HIDE DEF u
<1>8. r = [s EXCEPT !.timers = u]
  BY <1>2, <1>3 DEF KernelState, OnlyTimers, OnlyWait
<1>9. r \in KernelState /\ r.timers = u /\ OnlyTimers(s, r)
  BY <1>7, <1>8 DEF KernelState, OnlyTimers, OnlyWait
<1> QED
  BY <1>2, <1>7, <1>9 DEF e1

-----------------------------------------------------------------------------
\* A list without elements is empty, and the head of another is one of its elements.
LEMMA EmptyLemma ==
  ASSUME NEW S, NEW s \in Seq(S)
  PROVE  /\ (\A x : ~Contains(s, x)) => s = <<>>
         /\ s # <<>> => Head(s) \in S /\ Contains(s, Head(s))
<1>1. CASE s = <<>>
  BY <1>1
<1>2. CASE s # <<>>
  <2>1. Len(s) \in Nat /\ 1 \in 1..Len(s) /\ Head(s) = s[1] /\ s[1] \in S
    BY <1>2
  <2> QED
    BY <2>1 DEF Contains
<1> QED
  BY <1>1, <1>2

\* The waiters of q are in order of priority.
InOrder(s, q) ==
  \A i, j \in DOMAIN s.wait[q] : i < j => s.prio[s.wait[q][i]] <= s.prio[s.wait[q][j]]

Sorted(s) == \A q \in WaitQueue : InOrder(s, q)

\* Every list that is in order stays in order.
OrderKept(s, r) == \A q \in WaitQueue : InOrder(s, q) => InOrder(r, q)

\* The wait lists of r are those of s without t.
Unlinked(s, r, t) ==
  /\ \A q \in WaitQueue : IsInjective(r.wait[q])
  /\ \A q \in WaitQueue : \A u : Contains(r.wait[q], u) <=> Contains(s.wait[q], u) /\ u # t
  /\ \A q \in WaitQueue : s.wait[q] = <<>> => r.wait[q] = <<>>

\* nd_list_remove of a qnode: t leaves whichever list it was on.
LEMMA WaitRemoveLemma ==
  ASSUME NEW s \in KernelState, NEW t \in Thread,
         \A q \in WaitQueue : IsInjective(s.wait[q]),
         NEW r, r = WaitRemove(s, t)
  PROVE  /\ r \in KernelState
         /\ OnlyWait(s, r) /\ Unlinked(s, r, t)
         /\ OrderKept(s, r)
<1> DEFINE w == [q \in WaitQueue |-> RemoveFirst(s.wait[q], t)]
<1>1. r = [s EXCEPT !.wait = w]
  BY DEF WaitRemove
<1>2. \A q \in WaitQueue : s.wait[q] \in Seq(Thread)
  BY DEF KernelState, OnlyTimers, OnlyWait
<1>3. \A q \in WaitQueue :
        /\ w[q] \in Seq(Thread) /\ IsInjective(w[q])
        /\ \A u : Contains(w[q], u) <=> Contains(s.wait[q], u) /\ u # t
  BY <1>2, RemoveFirstLemma
<1>4. \A q \in WaitQueue : s.wait[q] = <<>> => w[q] = <<>>
  <2> SUFFICES ASSUME NEW q \in WaitQueue, s.wait[q] = <<>> PROVE w[q] = <<>>
    OBVIOUS
  <2>1. \A u : ~Contains(s.wait[q], u)
    BY DEF Contains
  <2>2. w[q] \in Seq(Thread) /\ \A u : ~Contains(w[q], u)
    BY <1>3, <2>1
  <2> HIDE DEF w
  <2> QED
    BY <2>2, EmptyLemma
<1>5. w \in [WaitQueue -> Seq(Thread)]
  BY <1>3
<1>5a. ASSUME NEW q \in WaitQueue, InOrder(s, q),
              NEW i \in DOMAIN w[q], NEW j \in DOMAIN w[q], i < j
       PROVE  s.prio[w[q][i]] <= s.prio[w[q][j]]
  <2>1. w[q] = RemoveFirst(s.wait[q], t) /\ s.wait[q] \in Seq(Thread) /\ IsInjective(s.wait[q])
    BY <1>2
  <2>2. \E a, b \in DOMAIN s.wait[q] : a < b /\ w[q][i] = s.wait[q][a] /\ w[q][j] = s.wait[q][b]
    BY <1>5a, <2>1, RemoveFirstOrder
  <2> QED
    BY <1>5a, <2>2 DEF OrderKept, InOrder
<1> HIDE DEF w
<1>6. r \in KernelState /\ r.wait = w /\ OnlyWait(s, r)
  BY <1>1, <1>5 DEF KernelState, OnlyTimers, OnlyWait
<1>7. OrderKept(s, r)
  BY <1>5a, <1>6, OnlyWaitFrame DEF OrderKept, InOrder
<1> QED
  BY <1>3, <1>4, <1>6, <1>7 DEF Unlinked

\* The wait lists of r are those of s with t on the list of q.
Joined(s, r, q, t) ==
  /\ \A p \in WaitQueue : IsInjective(r.wait[p])
  /\ \A p \in WaitQueue : \A u :
       Contains(r.wait[p], u) <=> Contains(s.wait[p], u) \/ (p = q /\ u = t)
  /\ \A p \in WaitQueue : p # q => r.wait[p] = s.wait[p]

\* nd_thread_wait_insert: t joins the list of q, every other waiter stays where it waits.
LEMMA WaitInsertLemma ==
  ASSUME NEW s \in KernelState, NEW q \in WaitQueue, NEW t \in Thread,
         \A p \in WaitQueue : IsInjective(s.wait[p]),
         ~Contains(s.wait[q], t),
         NEW r, r = WaitInsert(s, q, t)
  PROVE  /\ r \in KernelState
         /\ OnlyWait(s, r) /\ Joined(s, r, q, t)
         /\ OrderKept(s, r)
<1> DEFINE list == s.wait[q]
           lower == {i \in DOMAIN list : s.prio[list[i]] > s.prio[t]}
           l == IF lower = {} THEN Append(list, t) ELSE InsertAt(list, Min(lower), t)
           w == [s.wait EXCEPT ![q] = l]
<1>1. list \in Seq(Thread) /\ DOMAIN list = 1..Len(list) /\ s.wait \in [WaitQueue -> Seq(Thread)]
  BY DEF KernelState, OnlyTimers, OnlyWait
<1>2. r = [s EXCEPT !.wait = w]
  BY DEF WaitInsert, KernelState, OnlyTimers, OnlyWait
<1>3. /\ l \in Seq(Thread) /\ IsInjective(l)
      /\ \A u : Contains(l, u) <=> Contains(list, u) \/ u = t
  <2>1. CASE lower = {}
    BY <1>1, <2>1, AppendLemma
  <2>2. CASE lower # {}
    <3> DEFINE n == Min(lower)
    <3>1. lower \subseteq Nat
      BY <1>1
    <3>2. n \in lower
      BY <2>2, <3>1, MinIsLeast
    <3>3. n \in 1..Len(list)
      BY <1>1, <3>2
    <3>4. IsInjective(list) /\ ~Contains(list, t) /\ l = InsertAt(list, n, t)
      BY <2>2
    <3> HIDE DEF n, list, l
    <3> QED
      BY <1>1, <3>3, <3>4, InsertAtLemma
  <2> QED
    BY <2>1, <2>2
<1>3a. /\ \A u \in Thread : s.prio[u] \in Int
       /\ \A i \in DOMAIN list : list[i] \in Thread /\ s.prio[list[i]] \in Int
       /\ s.prio[t] \in Int
  <2>1. s.prio \in [Thread -> Prio]
    BY DEF KernelState
  <2>2. Prio \subseteq Int
    BY PrioAssumption DEF Prio
  <2>3. \A u \in Thread : s.prio[u] \in Int
    BY <2>1, <2>2
  <2>4. \A i \in DOMAIN list : list[i] \in Thread
    BY <1>1
  <2> QED
    BY <2>3, <2>4
<1>3b. ASSUME InOrder(s, q), NEW i \in DOMAIN l, NEW j \in DOMAIN l, i < j
       PROVE  s.prio[l[i]] <= s.prio[l[j]]
  <2>0. \A a, b \in DOMAIN list : a < b => s.prio[list[a]] <= s.prio[list[b]]
    BY <1>3b DEF OrderKept, InOrder
  <2>1. Len(list) \in Nat /\ DOMAIN l = 1..Len(l) /\ Len(l) \in Nat
    BY <1>1, <1>3
  <2>2. CASE lower = {}
    <3>1. /\ Len(l) = Len(list) + 1 /\ l[Len(list) + 1] = t
          /\ \A a \in 1..Len(list) : l[a] = list[a] /\ ~(s.prio[list[a]] > s.prio[t])
      BY <1>1, <2>2
    <3> HIDE DEF l, lower, list
    <3> QED
      BY <1>1, <1>3a, <1>3b, <2>0, <2>1, <3>1
  <2>3. CASE lower # {}
    <3> DEFINE n == Min(lower)
    <3>1. lower \subseteq Nat
      BY <1>1
    <3>2. n \in lower /\ \A a \in lower : n <= a
      BY <2>3, <3>1, MinIsLeast
    <3>3. l = InsertAt(list, n, t)
      BY <2>3
    <3>4. n \in 1..Len(list) /\ n \in DOMAIN list /\ s.prio[list[n]] > s.prio[t]
      BY <1>1, <3>2
    <3>5. \A a \in 1..Len(list) : a < n => ~(s.prio[list[a]] > s.prio[t])
      <4> SUFFICES ASSUME NEW a \in 1..Len(list), a < n PROVE a \notin lower
        BY <1>1
      <4>1. a \in Int /\ n \in Int
        BY <3>4
      <4> HIDE DEF n, lower
      <4> QED
        BY <3>2, <4>1
    <3>5a. list \in Seq(Thread) /\ n \in 1..Len(list)
      BY <1>1, <3>4
    <3> HIDE DEF n, lower, l, list
    <3>6. /\ Len(l) = Len(list) + 1
          /\ \A a \in 1..(Len(list) + 1) :
               l[a] = IF a < n THEN list[a] ELSE IF a = n THEN t ELSE list[a - 1]
      BY ONLY <3>3, <3>5a, t \in Thread, InsertAtLemma
    <3>7. \A a \in 1..Len(list) : a > n => s.prio[list[n]] <= s.prio[list[a]]
      BY <1>1, <2>0, <3>4
    <3>8. i \in 1..(Len(list) + 1) /\ j \in 1..(Len(list) + 1) /\ n \in Int
      BY <2>1, <3>4, <3>6
    <3>9. CASE i < n /\ j < n
      <4>1. i \in DOMAIN list /\ j \in DOMAIN list /\ l[i] = list[i] /\ l[j] = list[j]
        BY <1>1, <2>1, <3>4, <3>6, <3>8, <3>9
      <4> QED
        BY <1>3b, <2>0, <4>1
    <3>10. CASE i < n /\ j = n
      <4>1. i \in 1..Len(list) /\ i \in DOMAIN list /\ l[i] = list[i] /\ l[j] = t
        BY <1>1, <2>1, <3>4, <3>6, <3>8, <3>10
      <4> QED
        BY <1>3a, <3>5, <3>10, <4>1
    <3>11. CASE i < n /\ j > n
      <4>2. i \in DOMAIN list /\ (j - 1) \in DOMAIN list /\ l[i] = list[i] /\ l[j] = list[j - 1] /\ i < j - 1
        BY <1>1, <2>1, <3>4, <3>6, <3>8, <3>11
      <4> QED
        BY <2>0, <4>2
    <3>12. CASE i = n /\ j > n
      <4>1. (j - 1) \in 1..Len(list) /\ j - 1 >= n /\ l[i] = t /\ l[j] = list[j - 1]
        BY <1>3b, <2>1, <3>6, <3>8, <3>12
      <4>2. s.prio[list[n]] <= s.prio[list[j - 1]] \/ j - 1 = n
        BY <2>1, <3>7, <3>8, <4>1
      <4>3. s.prio[list[j - 1]] \in Int /\ s.prio[list[n]] \in Int
        BY <1>1, <1>3a, <3>4, <4>1
      <4>4. s.prio[t] <= s.prio[list[j - 1]]
        BY <1>3a, <3>4, <4>2, <4>3
      <4> QED
        BY <4>1, <4>4
    <3>13. CASE i > n
      <4>1. /\ (i - 1) \in DOMAIN list /\ (j - 1) \in DOMAIN list /\ i - 1 < j - 1
            /\ l[i] = list[i - 1] /\ l[j] = list[j - 1]
        BY <1>1, <1>3b, <2>1, <3>4, <3>6, <3>8, <3>13
      <4> QED
        BY <2>0, <4>1
    <3> QED
      BY <1>3b, <3>8, <3>9, <3>10, <3>11, <3>12, <3>13
  <2> QED
    BY <2>2, <2>3
<1> HIDE DEF l
<1>4. /\ w \in [WaitQueue -> Seq(Thread)]
      /\ \A p \in WaitQueue : w[p] = IF p = q THEN l ELSE s.wait[p]
  BY <1>1, <1>3
<1> HIDE DEF w
<1>5. r \in KernelState /\ r.wait = w /\ OnlyWait(s, r)
  BY <1>2, <1>4 DEF KernelState, OnlyTimers, OnlyWait
<1>6. OrderKept(s, r)
  <2> SUFFICES ASSUME NEW p \in WaitQueue, InOrder(s, p) PROVE InOrder(r, p)
    BY DEF OrderKept
  <2>1. r.prio = s.prio /\ r.wait[p] = IF p = q THEN l ELSE s.wait[p]
    BY <1>4, <1>5, OnlyWaitFrame
  <2>2. CASE p = q
    BY <1>3b, <2>1, <2>2 DEF InOrder
  <2>3. CASE p # q
    BY <2>1, <2>3 DEF InOrder
  <2> QED
    BY <2>2, <2>3
<1> QED
  BY <1>3, <1>4, <1>5, <1>6 DEF Joined

-----------------------------------------------------------------------------
(* Scheduling keeps the tables in agreement, and switches away a current   *)
(* thread that may not go on.                                              *)

\* r is s, but for the slice accounts and the timer tree.
OnlySlice(s, r) ==
  r = [s EXCEPT !.left = r.left, !.ran = r.ran, !.timers = r.timers]

\* The other fields are those of s.
LEMMA OnlySliceFrame ==
  ASSUME NEW s \in KernelState, NEW r, OnlySlice(s, r)
  PROVE  /\ r.stat = s.stat /\ r.prio = s.prio /\ r.yield = s.yield /\ r.error = s.error
         /\ r.ready = s.ready /\ r.bits = s.bits /\ r.wait = s.wait /\ r.cur = s.cur
         /\ r.next = s.next /\ r.pendsv = s.pendsv /\ r.nest = s.nest /\ r.try = s.try
         /\ r.isr = s.isr /\ r.expiring = s.expiring /\ r.halting = s.halting /\ r.fault = s.fault
  BY DEF OnlySlice, KernelState

\* TimersAgree, over the elements of the tree rather than over their positions.
LEMMA TimersForm ==
  ASSUME NEW s \in KernelState
  PROVE  /\ TimersAgree(s) <=> OnceEach(s.timers)
                               /\ \A e : Contains(s.timers, e) => TimerAgrees(s, e)
         /\ \A e : Contains(s.timers, e) => e \in Timer
<1>1. s.timers \in Seq(Timer) /\ DOMAIN s.timers = 1..Len(s.timers)
  BY DEF KernelState, OnlyReady, OnlyReadyOrFault, OnlyTimers, OnlySlice
<1> QED
  BY <1>1 DEF TimersAgree, Contains

\* The armed timers of the threads, their slice timers aside, are the same.
ThreadTimersKept(s, r) ==
  \A e : e.cb # "slice" => (Contains(r.timers, e) <=> Contains(s.timers, e))

\* In particular when no timer is armed or stopped.
LEMMA TimersKeptLemma ==
  ASSUME NEW s, NEW x, NEW r, x.timers = s.timers, ThreadTimersKept(x, r)
  PROVE  ThreadTimersKept(s, s) /\ ThreadTimersKept(s, x) /\ ThreadTimersKept(s, r)
  BY DEF ThreadTimersKept

\* A step that leaves every BLOCK thread BLOCK, and the wait lists and timers alone, keeps
\* them in agreement.
LEMMA KeptLemma ==
  ASSUME NEW s \in KernelState, NEW r \in KernelState, WaitsAgree(s), TimersAgree(s),
         r.wait = s.wait, r.timers = s.timers, r.cur = s.cur,
         \A t \in Thread : s.stat[t] = "BLOCK" => r.stat[t] = "BLOCK"
  PROVE  WaitsAgree(r) /\ TimersAgree(r)
<1>1. WaitsAgree(r)
  BY DEF WaitsAgree, Linked
<1>2. OnceEach(r.timers)
  BY TimersForm
<1>3. ASSUME NEW e, Contains(r.timers, e) PROVE TimerAgrees(r, e)
  <2>1. TimerAgrees(s, e) /\ e \in Timer
    BY <1>3, TimersForm
  <2>2. e.who \in Thread
    BY <2>1 DEF Timer
  <2> QED
    BY <2>1, <2>2 DEF TimerAgrees, Linked
<1> QED
  BY <1>1, <1>2, <1>3, TimersForm

\* SlicesAgree, over the elements of the tree rather than over their positions.
LEMMA SlicesForm ==
  ASSUME NEW s \in KernelState
  PROVE  SlicesAgree(s) <=> /\ \A t \in Thread : s.left[t] <= Slice[t]
                            /\ InTime(s.timers)
                            /\ \A e : Contains(s.timers, e) => SliceAgrees(s, e)
<1>1. s.timers \in Seq(Timer) /\ DOMAIN s.timers = 1..Len(s.timers)
  BY DEF KernelState
<1> QED
  BY <1>1 DEF SlicesAgree, Contains

\* A step that arms no slice timer, and leaves the account of a running thread alone,
\* keeps the accounts in agreement.
LEMMA SlicesFewerLemma ==
  ASSUME NEW s \in KernelState, NEW r \in KernelState, SlicesAgree(s),
         \A t \in Thread : r.left[t] <= Slice[t],
         InTime(r.timers), s.expiring => r.expiring,
         \A e : Contains(r.timers, e) /\ e.cb = "slice" => Contains(s.timers, e),
         \A t \in Thread : r.stat[t] = "RUNNING" =>
           s.stat[t] = "RUNNING" /\ r.left[t] = s.left[t] /\ r.ran[t] = s.ran[t]
  PROVE  SlicesAgree(r)
<1>1. ASSUME NEW e, Contains(r.timers, e), e.cb = "slice" PROVE SliceAgrees(r, e)
  <2>1. SliceAgrees(s, e) /\ e \in Timer
    BY <1>1, SlicesForm, TimersForm
  <2>2. e.who \in Thread
    BY <2>1 DEF Timer
  <2> QED
    BY <1>1, <2>1, <2>2 DEF SliceAgrees
<1>2. \A e : Contains(r.timers, e) => SliceAgrees(r, e)
  BY <1>1 DEF SliceAgrees
<1> QED
  BY <1>2, SlicesForm

\* In particular one that leaves the timers and every account alone.
LEMMA SlicesKeptLemma ==
  ASSUME NEW s \in KernelState, NEW r \in KernelState, SlicesAgree(s),
         r.timers = s.timers, r.left = s.left, r.ran = s.ran, s.expiring => r.expiring,
         \A t \in Thread : r.stat[t] = "RUNNING" => s.stat[t] = "RUNNING"
  PROVE  SlicesAgree(r)
<1>1. (\A t \in Thread : r.left[t] <= Slice[t]) /\ InTime(r.timers)
  BY DEF SlicesAgree
<1> QED
  BY <1>1, SlicesFewerLemma

\* Making READY a thread that is neither READY nor RUNNING, once nothing else holds it.
LEMMA MakeReadyLemma ==
  ASSUME NEW s \in KernelState, Agree(s), NEW t \in Thread,
         s.stat[t] \notin {"READY", "RUNNING"},
         NEW x \in KernelState, WaitsAgree(x), TimersAgree(x), SlicesAgree(x),
         x.ready = s.ready, x.bits = s.bits, x.stat = [s.stat EXCEPT ![t] = "READY"],
         \A u \in Thread \ {t} : x.prio[u] = s.prio[u],
         x.cur = s.cur, x.next = s.next, x.pendsv = s.pendsv,
         NEW r, r = nd_thread_ready_add_tail(x, t)
  PROVE  /\ r \in KernelState /\ Agree(r)
         /\ OnlyReady(x, r)
<1>1. /\ s.stat \in [Thread -> Stat] /\ s.cur \in Thread \cup {NoThread}
      /\ s.next \in Thread \cup {NoThread} /\ NoThread \notin Thread
  BY ThreadAssumption DEF KernelState, OnlyReady, OnlyReadyOrFault, OnlyTimers, OnlySlice, WaitQueue
<1>2. ReadyBut(x, t) /\ x.stat[t] = "READY"
  BY <1>1 DEF Agree, ReadyAgree, ReadyBut
<1>3. /\ r \in KernelState /\ ReadyAgree(r)
      /\ OnlyReady(x, r)
  BY ONLY <1>2, x \in KernelState, t \in Thread, r = nd_thread_ready_add_tail(x, t),
          AddTailLemma
<1>4. /\ r.stat = x.stat /\ r.wait = x.wait /\ r.timers = x.timers /\ r.cur = x.cur
      /\ r.next = x.next /\ r.pendsv = x.pendsv
  BY <1>3 DEF KernelState, OnlyReady, OnlyReadyOrFault, OnlyTimers, OnlySlice
<1>5. WaitsAgree(r) /\ TimersAgree(r)
  BY <1>4 DEF WaitsAgree, TimersAgree, TimerAgrees, Linked
<1>6. CurrentAgrees(r) /\ SwitchAgrees(r)
  BY <1>1, <1>4 DEF Agree, CurrentAgrees, SwitchAgrees
<1>7. SlicesAgree(r)
  BY <1>3, <1>4, SlicesKeptLemma, OnlyReadyFrame
<1> QED
  BY <1>3, <1>5, <1>6, <1>7 DEF Agree

-----------------------------------------------------------------------------
(* Slices *)

\* After the outgoing thread is charged no slice timer is armed.
LEMMA SettleLemma ==
  ASSUME NEW s \in KernelState, OnceEach(s.timers), NEW c \in Thread \cup {NoThread},
         \A e : Contains(s.timers, e) /\ e.cb = "slice" => e.who = c /\ Slice[e.who] # 0,
         NEW r, r = SettleSlice(s, c)
  PROVE  /\ r \in KernelState
         /\ OnlySlice(s, r)
         /\ OnceEach(r.timers) /\ (InTime(s.timers) => InTime(r.timers))
         /\ \A e : Contains(r.timers, e) <=> Contains(s.timers, e) /\ e.cb # "slice"
         /\ \A t \in Thread : r.left[t] <= s.left[t]
<1>0. NoThread \notin Thread /\ \A e : Contains(s.timers, e) => e \in Timer
  BY ThreadAssumption, TimersForm DEF WaitQueue
<1>1. CASE c = NoThread \/ Slice[c] = 0
  <2>1. r = s
    BY <1>1 DEF SettleSlice
  <2>2. \A e : Contains(s.timers, e) => e.cb # "slice"
    BY <1>0, <1>1 DEF Timer
  <2>3. \A t \in Thread : r.left[t] <= s.left[t]
    <3>1. s.left \in [Thread -> Nat]
      BY DEF KernelState
    <3> QED
      BY <2>1, <3>1
  <2> QED
    BY <2>1, <2>2, <2>3 DEF KernelState, OnlyReady, OnlyReadyOrFault, OnlyTimers, OnlySlice
<1>2. CASE c # NoThread /\ Slice[c] # 0
  <2> DEFINE v == IF s.ran[c] = -1 \/ s.left[c] = 0 THEN s.left[c]
                  ELSE IF s.ran[c] >= s.left[c] THEN 0 ELSE s.left[c] - s.ran[c]
             x == [s.left EXCEPT ![c] = v]
             used == [s EXCEPT !.left = x]
             s1 == nd_timer_stop(used, c, TRUE)
             y == [s.ran EXCEPT ![c] = -1]
  <2>1. s.left \in [Thread -> Nat] /\ s.ran \in [Thread -> Nat \cup {-1}] /\ c \in Thread
    BY <1>2 DEF KernelState, OnlyReady, OnlyReadyOrFault, OnlyTimers, OnlySlice
  <2>2. v \in Nat /\ v <= s.left[c]
    <3>1. s.left[c] \in Nat /\ s.ran[c] \in Nat \cup {-1}
      BY <2>1
    <3> QED
      BY <3>1
  <2> HIDE DEF v
  <2>3. x \in [Thread -> Nat] /\ y \in [Thread -> Nat \cup {-1}]
    BY <2>1, <2>2
  <2>3a. \A t \in Thread : x[t] <= s.left[t]
    BY <2>1, <2>2
  <2>4. r = [s1 EXCEPT !.ran[c] = -1]
    BY <1>2 DEF SettleSlice, v, KernelState, OnlyReady, OnlyReadyOrFault, OnlyTimers, OnlySlice
  <2> HIDE DEF x, y
  <2>5. used \in KernelState /\ used.timers = s.timers
    BY <2>3 DEF KernelState, OnlyReady, OnlyReadyOrFault, OnlyTimers, OnlySlice
  <2>6. /\ s1 \in KernelState
        /\ OnlyTimers(used, s1)
        /\ OnceEach(s1.timers) /\ (InTime(s.timers) => InTime(s1.timers))
        /\ \A e : Contains(s1.timers, e) <=> Contains(s.timers, e) /\ ~SameTimer(e, c, TRUE)
    <3> HIDE DEF used
    <3> QED
      BY <2>1, <2>5, TimerStopLemma
  <2>7. s1.ran = s.ran /\ s1 = [s EXCEPT !.left = x, !.timers = s1.timers]
    BY <2>6 DEF KernelState, OnlyReady, OnlyReadyOrFault, OnlyTimers, OnlySlice
  <2> HIDE DEF s1, used
  <2>8. r = [s EXCEPT !.left = x, !.timers = s1.timers, !.ran = y]
    BY <2>4, <2>6, <2>7 DEF KernelState, OnlyReady, OnlyReadyOrFault, OnlyTimers, OnlySlice, y
  <2>9. s1.timers \in Seq(Timer)
    BY <2>6 DEF KernelState, OnlyReady, OnlyReadyOrFault, OnlyTimers, OnlySlice
  <2>10. /\ r \in KernelState /\ r.timers = s1.timers /\ r.left = x
         /\ OnlySlice(s, r)
    BY <2>3, <2>8, <2>9 DEF KernelState, OnlyReady, OnlyReadyOrFault, OnlyTimers, OnlySlice
  <2>11. \A e : Contains(s.timers, e) => (SameTimer(e, c, TRUE) <=> e.cb = "slice")
    BY DEF SameTimer
  <2> QED
    BY <2>3a, <2>6, <2>10, <2>11
<1> QED
  BY <1>1, <1>2

\* No account is above its slice.
Within(s) == \A t \in Thread : s.left[t] <= Slice[t]

\* The timers of r are timers of s and a slice timer of n, due when its account is used up.
SliceStarted(s, r, n) ==
  /\ \A e : Contains(r.timers, e) =>
       \/ Contains(s.timers, e)
       \/ /\ e.cb = "slice" /\ e.who = n /\ Slice[n] # 0
          /\ e.left = r.left[n] /\ e.left # 0 /\ r.ran[n] \in {-1, 0}
  /\ \A e : Contains(s.timers, e) /\ e.cb # "slice" => Contains(r.timers, e)

\* The incoming thread is the only one whose slice may be timed.
LEMMA StartSliceLemma ==
  ASSUME NEW s \in KernelState, OnceEach(s.timers), NEW n \in Thread,
         NEW r, r = StartSlice(s, n)
  PROVE  /\ r \in KernelState
         /\ OnlySlice(s, r)
         /\ OnceEach(r.timers) /\ (InTime(s.timers) => InTime(r.timers))
         /\ SliceStarted(s, r, n) /\ (Within(s) => Within(r))
<1>0. /\ s.left \in [Thread -> Nat] /\ s.ran \in [Thread -> Nat \cup {-1}]
      /\ Slice[n] \in Nat /\ s.left[n] \in Nat
  BY SliceAssumption DEF KernelState, OnlyReady, OnlyReadyOrFault, OnlyTimers, OnlySlice
<1>1. CASE Slice[n] = 0
  <2>1. r = s
    BY <1>1 DEF StartSlice
  <2> QED
    BY <2>1 DEF KernelState, OnlySlice, SliceStarted
<1>2. CASE Slice[n] # 0 /\ s.ready[s.prio[n]] # <<>>
  <2> DEFINE budget == IF s.left[n] = 0 \/ s.left[n] > Slice[n] THEN Slice[n] ELSE s.left[n]
             x == [s.left EXCEPT ![n] = budget]
             y == [s.ran EXCEPT ![n] = IF s.tick0 THEN -1 ELSE 0]
             s1 == [s EXCEPT !.left = x, !.ran = y]
  <2>1. budget \in Nat /\ budget # 0 /\ budget <= Slice[n]
    BY <1>0, <1>2
  <2>2. r = nd_timer_start(s1, n, "slice", budget)
    BY <1>2 DEF StartSlice, KernelState, OnlyReady, OnlyReadyOrFault, OnlyTimers, OnlySlice
  <2> HIDE DEF budget
  <2>3. /\ x \in [Thread -> Nat] /\ y \in [Thread -> Nat \cup {-1}]
        /\ x[n] = budget /\ y[n] \in {-1, 0} /\ \A t \in Thread : t # n => x[t] = s.left[t]
    BY <1>0, <2>1
  <2> HIDE DEF x, y
  <2>4. s1 \in KernelState /\ s1.timers = s.timers /\ s1.left = x /\ s1.ran = y
    BY <2>3 DEF KernelState, OnlyReady, OnlyReadyOrFault, OnlyTimers, OnlySlice
  <2>5. /\ r \in KernelState
        /\ OnlyTimers(s1, r)
        /\ OnceEach(r.timers) /\ (InTime(s.timers) => InTime(r.timers))
        /\ \A e : Contains(r.timers, e) <=>
             \/ Contains(s.timers, e) /\ ~SameTimer(e, n, "slice" = "slice")
             \/ e = [who |-> n, cb |-> "slice", left |-> budget]
    <3> HIDE DEF s1
    <3> QED
      BY <2>1, <2>2, <2>4, TimerStartLemma
  <2>6. OnlySlice(s, r)
    BY <2>5 DEF KernelState, OnlyReady, OnlyReadyOrFault, OnlyTimers, OnlySlice
  <2>7. r.left = x /\ r.ran = y
    BY <2>4, <2>5, OnlyTimersFrame
  <2>8. Within(s) => Within(r)
    BY <2>1, <2>3, <2>7 DEF Within
  <2>9. \A e : Contains(r.timers, e) =>
          \/ Contains(s.timers, e)
          \/ /\ e.cb = "slice" /\ e.who = n /\ Slice[n] # 0
             /\ e.left = r.left[n] /\ e.left # 0 /\ r.ran[n] \in {-1, 0}
    BY <1>2, <2>1, <2>3, <2>5, <2>7
  <2>10. \A e : Contains(s.timers, e) /\ e.cb # "slice" => Contains(r.timers, e)
    BY <2>5 DEF SameTimer
  <2> QED
    BY <2>5, <2>6, <2>8, <2>9, <2>10 DEF SliceStarted
<1>3. CASE Slice[n] # 0 /\ ~(s.ready[s.prio[n]] # <<>>)
  <2> DEFINE s1 == nd_timer_stop(s, n, TRUE)
             x == [s.left EXCEPT ![n] = Slice[n]]
             y == [s.ran EXCEPT ![n] = -1]
  <2>1. /\ s1 \in KernelState
        /\ OnlyTimers(s, s1)
        /\ OnceEach(s1.timers) /\ (InTime(s.timers) => InTime(s1.timers))
        /\ \A e : Contains(s1.timers, e) <=> Contains(s.timers, e) /\ ~SameTimer(e, n, TRUE)
    BY TimerStopLemma
  <2>2. r = [s1 EXCEPT !.left[n] = Slice[n], !.ran[n] = -1]
    BY <1>3 DEF StartSlice
  <2> HIDE DEF s1
  <2>3. s1.left = s.left /\ s1.ran = s.ran /\ s1.timers \in Seq(Timer)
    BY <2>1 DEF KernelState, OnlyReady, OnlyReadyOrFault, OnlyTimers, OnlySlice
  <2>4. r = [s1 EXCEPT !.left = x, !.ran = y]
    BY <2>1, <2>2, <2>3 DEF KernelState, OnlyReady, OnlyReadyOrFault, OnlyTimers, OnlySlice
  <2>5. /\ x \in [Thread -> Nat] /\ y \in [Thread -> Nat \cup {-1}]
        /\ x[n] = Slice[n] /\ \A t \in Thread : t # n => x[t] = s.left[t]
    BY <1>0
  <2> HIDE DEF x, y
  <2>6. r = [s EXCEPT !.timers = s1.timers, !.left = x, !.ran = y]
    BY <2>1, <2>4 DEF KernelState, OnlyReady, OnlyReadyOrFault, OnlyTimers, OnlySlice
  <2>7. /\ r \in KernelState /\ r.timers = s1.timers /\ r.left = x
        /\ OnlySlice(s, r)
    BY <2>3, <2>5, <2>6 DEF KernelState, OnlyReady, OnlyReadyOrFault, OnlyTimers, OnlySlice
  <2>8. Within(s) => Within(r)
    BY <1>0, <2>5, <2>7 DEF Within
  <2> QED
    BY <2>1, <2>7, <2>8 DEF SameTimer, SliceStarted
<1> QED
  BY <1>1, <1>2, <1>3

-----------------------------------------------------------------------------
(* The switch *)

\* nd_context_switch_cb: once the outgoing thread has given way, the incoming one is
\* RUNNING and current, wherever it comes from.
LEMMA ContextSwitchLemma ==
  ASSUME NEW s \in KernelState, Agree(s), NEW n \in Thread,
         ~s.pendsv, \A t \in Thread : s.stat[t] # "RUNNING", s.stat[n] # "BLOCK",
         NEW r, r = nd_context_switch_cb(s, n)
  PROVE  /\ r \in KernelState /\ Agree(r)
         /\ r.cur = n /\ r.stat = [s.stat EXCEPT ![n] = "RUNNING"]
         /\ r.prio = s.prio /\ r.wait = s.wait /\ r.pendsv = s.pendsv /\ r.nest = s.nest
         /\ r.try = s.try /\ r.isr = s.isr /\ r.expiring = s.expiring
         /\ r.halting = s.halting /\ r.error = s.error
         /\ s.stat[n] = "READY" => r.fault = s.fault
         /\ ThreadTimersKept(s, r)
<1> DEFINE s0 == nd_thread_ready_remove(s, n)
           s1 == SettleSlice(s0, s.cur)
           x == [s1.stat EXCEPT ![n] = "RUNNING"]
           s2 == [s1 EXCEPT !.next = NoThread, !.cur = n, !.stat = x]
<1>0. /\ s.stat \in [Thread -> Stat] /\ s.prio \in [Thread -> Prio]
      /\ s.cur \in Thread \cup {NoThread} /\ NoThread \notin Thread
      /\ s.timers \in Seq(Timer)
  BY ThreadAssumption DEF KernelState, OnlyReady, OnlyReadyOrFault, OnlyTimers, OnlySlice, WaitQueue
<1>1. ReadyMaybe(s, n)
  BY <1>0 DEF Agree, ReadyAgree, ReadyMaybe
<1>2. /\ s0 \in KernelState
      /\ OnlyReadyOrFault(s, s0)
      /\ ReadyBut(s0, n)
      /\ s0.fault <=> s.fault \/ ~Contains(s.ready[s.prio[n]], n)
  BY ONLY <1>1, s \in KernelState, n \in Thread, ReadyRemoveLemma
<1>3. s.stat[n] = "READY" => (s0.fault <=> s.fault)
  BY <1>0, <1>2 DEF Agree, ReadyAgree
<1> HIDE DEF s0
<1>4. /\ s0.timers = s.timers /\ s0.stat = s.stat /\ s0.prio = s.prio /\ s0.wait = s.wait
      /\ s0.pendsv = s.pendsv /\ s0.nest = s.nest /\ s0.try = s.try /\ s0.isr = s.isr
      /\ s0.expiring = s.expiring /\ s0.halting = s.halting /\ s0.cur = s.cur
      /\ s0.error = s.error /\ s0.left = s.left
      /\ s0.fault \in BOOLEAN /\ s.fault \in BOOLEAN
  BY <1>2 DEF KernelState, OnlyReady, OnlyReadyOrFault, OnlyTimers, OnlySlice
<1>5. /\ OnceEach(s.timers)
      /\ \A e : Contains(s.timers, e) => TimerAgrees(s, e) /\ e \in Timer
  BY TimersForm DEF Agree
<1>6. \A e : Contains(s0.timers, e) /\ e.cb = "slice" => e.who = s.cur /\ Slice[e.who] # 0
  BY <1>4, <1>5 DEF TimerAgrees
<1>7. /\ s1 \in KernelState
      /\ OnlySlice(s0, s1)
      /\ OnceEach(s1.timers) /\ (InTime(s0.timers) => InTime(s1.timers))
      /\ \A e : Contains(s1.timers, e) <=> Contains(s0.timers, e) /\ e.cb # "slice"
      /\ \A t \in Thread : s1.left[t] <= s0.left[t]
  <2>1. OnceEach(s0.timers)
    BY <1>4, <1>5
  <2> DEFINE z == s1
  <2>2. z = SettleSlice(s0, s.cur)
    OBVIOUS
  <2> HIDE DEF z
  <2> SUFFICES /\ z \in KernelState
               /\ OnlySlice(s0, z)
               /\ OnceEach(z.timers) /\ (InTime(s0.timers) => InTime(z.timers))
               /\ \A e : Contains(z.timers, e) <=> Contains(s0.timers, e) /\ e.cb # "slice"
               /\ \A t \in Thread : z.left[t] <= s0.left[t]
    BY DEF z
  <2> QED
    BY ONLY <1>0, <1>2, <1>6, <2>1, <2>2, SettleLemma
<1>8. /\ s1.ready = s0.ready /\ s1.bits = s0.bits /\ s1.stat = s.stat /\ s1.prio = s.prio
      /\ s1.wait = s.wait /\ s1.pendsv = s.pendsv /\ s1.nest = s.nest /\ s1.try = s.try
      /\ s1.isr = s.isr /\ s1.expiring = s.expiring /\ s1.halting = s.halting
      /\ s1.fault = s0.fault /\ s1.error = s.error
  BY <1>4, <1>7 DEF KernelState, OnlyReady, OnlyReadyOrFault, OnlyTimers, OnlySlice
<1>9. r = StartSlice(s2, n)
  <2>1. n # NoThread
    BY <1>0
  <2> QED
    BY <1>4, <1>7, <2>1 DEF nd_context_switch_cb, s0, KernelState, OnlyReady, OnlyReadyOrFault, OnlyTimers, OnlySlice
<1> HIDE DEF s1
<1>10. x \in [Thread -> Stat] /\ x = [s.stat EXCEPT ![n] = "RUNNING"]
  BY <1>0, <1>8 DEF Stat
<1> HIDE DEF x
<1>11. /\ s2 \in KernelState
       /\ s2.next = NoThread /\ s2.cur = n /\ s2.stat = x /\ s2.timers = s1.timers
       /\ s2.left = s1.left
       /\ s2.ready = s0.ready /\ s2.bits = s0.bits /\ s2.prio = s.prio
       /\ s2.wait = s.wait /\ s2.pendsv = s.pendsv /\ s2.nest = s.nest /\ s2.try = s.try
       /\ s2.isr = s.isr /\ s2.expiring = s.expiring /\ s2.halting = s.halting
       /\ s2.fault = s0.fault /\ s2.error = s.error
  BY <1>7, <1>8, <1>10 DEF KernelState, OnlyReady, OnlyReadyOrFault, OnlyTimers, OnlySlice
<1> HIDE DEF s2
<1>12. /\ r \in KernelState
       /\ OnlySlice(s2, r)
       /\ OnceEach(r.timers) /\ (InTime(s1.timers) => InTime(r.timers))
       /\ SliceStarted(s1, r, n) /\ (Within(s1) => Within(r))
  <2>1. /\ OnceEach(s2.timers) /\ s2.left = s1.left /\ s2.timers = s1.timers
        /\ s2 \in KernelState
    BY <1>7, <1>11
  <2>2. /\ r \in KernelState
        /\ OnlySlice(s2, r)
        /\ OnceEach(r.timers) /\ (InTime(s2.timers) => InTime(r.timers))
        /\ SliceStarted(s2, r, n) /\ (Within(s2) => Within(r))
    BY ONLY <1>9, <2>1, n \in Thread, StartSliceLemma
  <2> QED
    BY <2>1, <2>2 DEF SliceStarted, Within
<1>13. /\ r.next = NoThread /\ r.cur = n /\ r.stat = x
       /\ r.ready = s0.ready /\ r.bits = s0.bits /\ r.prio = s.prio
       /\ r.wait = s.wait /\ r.pendsv = s.pendsv /\ r.nest = s.nest /\ r.try = s.try
       /\ r.isr = s.isr /\ r.expiring = s.expiring /\ r.halting = s.halting
       /\ r.fault = s0.fault /\ r.error = s.error
  BY <1>11, <1>12, OnlySliceFrame
<1>14. ReadyAgree(r)
  BY <1>0, <1>2, <1>4, <1>10, <1>13 DEF ReadyBut, ReadyAgree
<1>15. WaitsAgree(r)
  BY <1>0, <1>10, <1>13 DEF Agree, WaitsAgree, Linked
<1>16. TimersAgree(r)
  <2> SUFFICES ASSUME NEW e, Contains(r.timers, e) PROVE TimerAgrees(r, e)
    BY <1>12, TimersForm
  <2>1. CASE e.cb = "slice"
    BY <1>7, <1>12, <1>13, <2>1 DEF TimerAgrees, SliceStarted
  <2>2. CASE e.cb # "slice"
    <3>1. Contains(s.timers, e) /\ TimerAgrees(s, e) /\ e.who \in Thread
      BY <1>4, <1>5, <1>7, <1>12, <2>2 DEF Timer, SliceStarted
    <3> QED
      BY <1>0, <1>10, <1>13, <2>2, <3>1 DEF TimerAgrees, Linked
  <2> QED
    BY <2>1, <2>2
<1>17. CurrentAgrees(r) /\ SwitchAgrees(r)
  BY <1>0, <1>10, <1>13, ThreadAssumption DEF Agree, CurrentAgrees, SwitchAgrees
<1>18. ThreadTimersKept(s, r)
  BY <1>4, <1>7, <1>12 DEF ThreadTimersKept, SliceStarted
<1>19. SlicesAgree(r)
  <2>1. (\A t \in Thread : s.left[t] <= Slice[t]) /\ InTime(s.timers)
    BY DEF Agree, SlicesAgree
  <2>2. Within(s1)
    <3>1. s1.left \in [Thread -> Nat] /\ s.left \in [Thread -> Nat]
      BY <1>7 DEF KernelState
    <3> QED
      BY <1>4, <1>7, <2>1, <3>1, SliceAssumption DEF Within
  <2>3. ASSUME NEW e, Contains(r.timers, e), e.cb = "slice" PROVE SliceAgrees(r, e)
    <3>1. e.who = n /\ e.left = r.left[n] /\ e.left # 0 /\ r.ran[n] \in {-1, 0}
      BY <1>7, <1>12, <2>3 DEF SliceStarted
    <3>2. r.left[n] \in Nat
      BY <1>12 DEF KernelState
    <3> QED
      BY <3>1, <3>2 DEF SliceAgrees
  <2>4. \A e : Contains(r.timers, e) => SliceAgrees(r, e)
    BY <2>3 DEF SliceAgrees
  <2> QED
    BY <1>4, <1>7, <1>12, <2>1, <2>2, <2>4, SlicesForm DEF Within
<1> QED
  BY <1>3, <1>4, <1>10, <1>12, <1>13, <1>14, <1>15, <1>16, <1>17, <1>18, <1>19 DEF Agree

\* nd_context_switch_cb takes the incoming thread off its list, and that is all.
LEMMA SwitchRemoves ==
  ASSUME NEW s \in KernelState, NEW n \in Thread, NEW r, r = nd_context_switch_cb(s, n)
  PROVE  r.ready = nd_thread_ready_remove(s, n).ready
<1> DEFINE s0 == nd_thread_ready_remove(s, n)
           s1 == SettleSlice(s0, s.cur)
           s2 == [s1 EXCEPT !.next = NoThread, !.cur = n, !.stat[n] = "RUNNING"]
<1>1. n # NoThread
  BY ThreadAssumption DEF WaitQueue
<1>2. r = StartSlice(s2, n)
  BY <1>1 DEF nd_context_switch_cb
<1>3. {"ready", "timers", "left", "ran", "next", "cur", "stat"} \subseteq DOMAIN s0
  BY DEF nd_thread_ready_remove, KernelState
<1> HIDE DEF s0
<1>4. s1.ready = s0.ready /\ DOMAIN s1 = DOMAIN s0
  BY <1>3 DEF SettleSlice, nd_timer_stop
<1> HIDE DEF s1
<1>5. s2.ready = s0.ready /\ DOMAIN s2 = DOMAIN s0
  BY <1>3, <1>4
<1> HIDE DEF s2
<1>6. r.ready = s2.ready
  <2>1. ASSUME NEW x, NEW timeout, x.ready = s2.ready, DOMAIN x = DOMAIN s0
        PROVE  nd_timer_start(x, n, "slice", timeout).ready = s2.ready
    <3> DEFINE y == nd_timer_stop(x, n, "slice" = "slice")
               e == [who |-> n, cb |-> "slice", left |-> timeout]
    <3>1. y.ready = s2.ready /\ DOMAIN y = DOMAIN s0
      BY <1>3, <2>1 DEF nd_timer_stop
    <3>2. nd_timer_start(x, n, "slice", timeout) = [y EXCEPT !.timers = TimerInsert(@, e)]
      BY DEF nd_timer_start
    <3> HIDE DEF y, e
    <3> QED
      BY <1>3, <3>1, <3>2
  <2>2. CASE Slice[n] = 0
    BY <1>2, <2>2 DEF StartSlice
  <2>3. CASE Slice[n] # 0 /\ s2.ready[s2.prio[n]] # <<>>
    <3> DEFINE budget == IF s2.left[n] = 0 \/ s2.left[n] > Slice[n] THEN Slice[n]
                         ELSE s2.left[n]
               x == [s2 EXCEPT !.left[n] = budget, !.ran[n] = IF s2.tick0 THEN -1 ELSE 0]
    <3>1. x.ready = s2.ready /\ DOMAIN x = DOMAIN s0
      BY <1>3, <1>5
    <3>2. r = nd_timer_start(x, n, "slice", budget)
      BY <1>2, <2>3 DEF StartSlice
    <3> HIDE DEF x, budget
    <3> QED
      BY <2>1, <3>1, <3>2
  <2>4. CASE Slice[n] # 0 /\ s2.ready[s2.prio[n]] = <<>>
    BY <1>2, <1>3, <1>5, <2>4 DEF StartSlice, nd_timer_stop
  <2> QED
    BY <2>2, <2>3, <2>4
<1> QED
  BY <1>5, <1>6 DEF s0

-----------------------------------------------------------------------------
(* The choice *)

\* nd_ffs of the bitmap finds the most urgent READY thread.
LEMMA HighestLemma ==
  ASSUME NEW s \in KernelState, ReadyAgree(s),
         NEW n, n = nd_get_highest_priority_thread(s)
  PROVE  \/ n = NoThread /\ \A t \in Thread : s.stat[t] # "READY"
         \/ /\ n \in Thread /\ s.stat[n] = "READY"
            /\ \A t \in Thread : s.stat[t] = "READY" => s.prio[n] <= s.prio[t]
<1>1. /\ s.bits \subseteq Prio /\ s.prio \in [Thread -> Prio]
      /\ s.ready \in [Prio -> Seq(Thread)] /\ Prio \subseteq Nat
  BY PrioAssumption DEF KernelState, Prio
<1>2. \A t \in Thread : s.stat[t] = "READY" => s.prio[t] \in s.bits
  <2> SUFFICES ASSUME NEW t \in Thread, s.stat[t] = "READY" PROVE s.prio[t] \in s.bits
    OBVIOUS
  <2>1. Contains(s.ready[s.prio[t]], t) /\ s.prio[t] \in Prio
    BY <1>1 DEF ReadyAgree
  <2>2. s.ready[s.prio[t]] # <<>>
    BY <2>1 DEF Contains
  <2> QED
    BY <2>1, <2>2 DEF ReadyAgree
<1>3. CASE s.bits = {}
  BY <1>2, <1>3 DEF nd_get_highest_priority_thread
<1>4. CASE s.bits # {}
  <2> DEFINE p == Min(s.bits)
  <2>1. p \in s.bits /\ \A q \in s.bits : p <= q
    BY <1>1, <1>4, MinIsLeast
  <2>2. n = Head(s.ready[p])
    BY <1>4 DEF nd_get_highest_priority_thread
  <2> HIDE DEF p
  <2>3. p \in Prio /\ s.ready[p] \in Seq(Thread) /\ s.ready[p] # <<>>
    BY <1>1, <2>1 DEF ReadyAgree
  <2>4. n \in Thread /\ Contains(s.ready[p], n)
    BY <2>2, <2>3, EmptyLemma
  <2>5. s.stat[n] = "READY" /\ s.prio[n] = p
    BY <2>3, <2>4 DEF ReadyAgree
  <2> QED
    BY <1>2, <2>1, <2>4, <2>5
<1> QED
  BY <1>3, <1>4

\* r is s, but for what nd_schedule_pick_next changes.
OnlyGaveWay(s, r) ==
  /\ r.prio = s.prio /\ r.error = s.error /\ r.wait = s.wait /\ r.timers = s.timers
  /\ r.cur = s.cur /\ r.next = s.next /\ r.pendsv = s.pendsv /\ r.nest = s.nest
  /\ r.try = s.try /\ r.isr = s.isr /\ r.expiring = s.expiring
  /\ r.halting = s.halting /\ r.fault = s.fault
  /\ Within(s) => Within(r)

\* The current thread, if it is still RUNNING, goes back to its ready list.
LEMMA RequeueLemma ==
  ASSUME NEW s \in KernelState, ReadyAgree(s), s.cur \in Thread, NEW n \in Thread,
         NEW r, r = Requeue(s, n)
  PROVE  /\ r \in KernelState /\ ReadyAgree(r)
         /\ OnlyGaveWay(s, r)
         /\ \A t \in Thread : t # s.cur \/ s.stat[t] # "RUNNING" => r.stat[t] = s.stat[t]
         /\ s.stat[s.cur] = "RUNNING" => r.stat[s.cur] = "READY"
<1> DEFINE c == s.cur
           y == [s.yield EXCEPT ![c] = @ /\ ~Rotates(s, n)]
           x == [s.stat EXCEPT ![c] = "READY"]
           again == Rotates(s, n) /\ Slice[c] # 0
           z == IF again THEN [s.left EXCEPT ![c] = Slice[c]] ELSE s.left
           w == IF again THEN [s.ran EXCEPT ![c] = -1] ELSE s.ran
           s3 == [s EXCEPT !.yield = y, !.stat = x, !.left = z, !.ran = w]
<1>0. /\ s.yield \in [Thread -> BOOLEAN] /\ s.stat \in [Thread -> Stat]
      /\ s.left \in [Thread -> Nat] /\ s.ran \in [Thread -> Nat \cup {-1}]
      /\ Slice[c] \in Nat /\ s.prio \in [Thread -> Prio]
  BY SliceAssumption DEF KernelState
<1>1. y \in [Thread -> BOOLEAN]
  <2>1. (s.yield[c] /\ ~Rotates(s, n)) \in BOOLEAN
    OBVIOUS
  <2> QED
    BY <1>0, <2>1
<1>2. /\ z \in [Thread -> Nat] /\ w \in [Thread -> Nat \cup {-1}]
      /\ \A t \in Thread : z[t] = s.left[t] \/ z[t] = Slice[t]
  BY <1>0
<1>2a. Within(s) => \A t \in Thread : z[t] <= Slice[t]
  <2> HIDE DEF z
  <2>1. \A t \in Thread : Slice[t] <= Slice[t]
    BY SliceAssumption
  <2> QED
    BY <1>2, <2>1 DEF Within
<1>3. x \in [Thread -> Stat] /\ x[c] = "READY" /\ \A t \in Thread : t # c => x[t] = s.stat[t]
  BY <1>0 DEF Stat
<1>4. CASE s.stat[c] # "RUNNING"
  <2>1. r = [s EXCEPT !.yield = y]
    BY <1>4 DEF Requeue, KernelState
  <2> HIDE DEF y
  <2>2. /\ r \in KernelState /\ OnlyGaveWay(s, r)
        /\ r.stat = s.stat /\ r.ready = s.ready /\ r.bits = s.bits /\ r.prio = s.prio
    BY <1>1, <2>1 DEF KernelState, OnlyGaveWay, Within
  <2> QED
    BY <1>4, <2>2 DEF ReadyAgree
<1>5. CASE s.stat[c] = "RUNNING"
  <2>1. r = IF Preempts(s, n) THEN nd_thread_ready_add_head(s3, c)
                              ELSE nd_thread_ready_add_tail(s3, c)
    <3>1. CASE again
      BY <1>5, <3>1 DEF Requeue, KernelState
    <3>2. CASE ~again
      BY <1>5, <3>2 DEF Requeue, KernelState
    <3> QED
      BY <3>1, <3>2
  <2> HIDE DEF x, y, z, w
  <2>2. /\ s3 \in KernelState
        /\ s3.stat = x /\ s3.ready = s.ready /\ s3.bits = s.bits /\ s3.prio = s.prio
    BY <1>1, <1>2, <1>3 DEF KernelState
  <2>3. OnlyGaveWay(s, s3)
    BY <1>1, <1>2, <1>2a, <1>3 DEF KernelState, OnlyGaveWay, Within
  <2> HIDE DEF s3
  <2>4. ReadyBut(s3, c) /\ s3.stat[c] = "READY"
    BY <1>3, <1>5, <2>2 DEF ReadyAgree, ReadyBut
  <2>5. r \in KernelState /\ ReadyAgree(r) /\ OnlyReady(s3, r)
    <3>1. CASE Preempts(s, n)
      <4>1. r = nd_thread_ready_add_head(s3, c)
        BY <2>1, <3>1
      <4> QED
        BY ONLY <2>2, <2>4, <4>1, s.cur \in Thread, AddHeadLemma
    <3>2. CASE ~Preempts(s, n)
      <4>1. r = nd_thread_ready_add_tail(s3, c)
        BY <2>1, <3>2
      <4> QED
        BY ONLY <2>2, <2>4, <4>1, s.cur \in Thread, AddTailLemma
    <3> QED
      BY <3>1, <3>2
  <2>6. r.stat = x
    BY <2>2, <2>5, OnlyReadyFrame
  <2>7. OnlyGaveWay(s, r)
    BY <2>2, <2>3, <2>5, OnlyReadyFrame DEF OnlyGaveWay, Within
  <2> QED
    BY <1>3, <1>5, <2>5, <2>6, <2>7
<1> QED
  BY <1>4, <1>5

\* nd_schedule_pick_next puts the thread that ran in front of its peers when it is
\* preempted, behind them when it gives way.
LEMMA RequeueRanks ==
  ASSUME NEW s \in KernelState, ReadyAgree(s), s.cur \in Thread, NEW n \in Thread,
         NEW r, r = Requeue(s, n)
  PROVE  /\ GaveWay(s, r)
         /\ \A p \in Prio, a, b \in Thread :
              a # b /\ Contains(s.ready[p], b) /\ Contains(r.ready[p], a) =>
                (Ahead(r.ready[p], a, b) <=>
                   IF Contains(s.ready[p], a) THEN Ahead(s.ready[p], a, b)
                   ELSE s.stat[a] = "RUNNING" /\ a = s.cur /\ Preempts(s, n))
         /\ \A p \in Prio, b \in Thread :
              Contains(s.ready[p], b) => Contains(r.ready[p], b)
<1> DEFINE c == s.cur
           q == s.prio[c]
           l == s.ready[q]
           m == IF Preempts(s, n) THEN Cons(c, l) ELSE Append(l, c)
<1>1. q \in Prio /\ s.ready \in [Prio -> Seq(Thread)] /\ l \in Seq(Thread)
  BY DEF KernelState
<1>2. CASE s.stat[c] # "RUNNING"
  <2>1. r.ready = s.ready
    BY <1>2 DEF Requeue, KernelState
  <2> QED
    BY <2>1 DEF GaveWay
<1>3. CASE s.stat[c] = "RUNNING"
  <2>1. r.ready = [s.ready EXCEPT ![q] = m]
    <3>1. CASE Rotates(s, n) /\ Slice[c] # 0
      BY <1>3, <3>1 DEF Requeue, nd_thread_ready_add_head, nd_thread_ready_add_tail, KernelState
    <3>2. CASE ~(Rotates(s, n) /\ Slice[c] # 0)
      BY <1>3, <3>2 DEF Requeue, nd_thread_ready_add_head, nd_thread_ready_add_tail, KernelState
    <3> QED
      BY <3>1, <3>2
  <2>2. ~Contains(l, c)
    BY <1>1, <1>3 DEF ReadyAgree
  <2>3. /\ \A a : Contains(Cons(c, l), a) <=> Contains(l, a) \/ a = c
        /\ \A a : Contains(Append(l, c), a) <=> Contains(l, a) \/ a = c
        /\ \A a, b : b # c =>
             (Ahead(Cons(c, l), a, b) <=> Ahead(l, a, b) \/ (a = c /\ Contains(l, b)))
        /\ \A a, b : b # c => (Ahead(Append(l, c), a, b) <=> Ahead(l, a, b))
    <3>1. l \in Seq(Thread) /\ c \in Thread
      BY <1>1
    <3> HIDE DEF l, c
    <3>2. /\ \A a : Contains(Cons(c, l), a) <=> Contains(l, a) \/ a = c
          /\ \A a : Contains(Append(l, c), a) <=> Contains(l, a) \/ a = c
      BY <3>1, AppendLemma, ConsLemma
    <3>3. \A a, b : b # c =>
            (Ahead(Cons(c, l), a, b) <=> Ahead(l, a, b) \/ (a = c /\ Contains(l, b)))
      BY <3>1, ConsAhead, Zenon
    <3>4. \A a, b : b # c => (Ahead(Append(l, c), a, b) <=> Ahead(l, a, b))
      BY <3>1, AppendAhead, Zenon
    <3> QED
      BY <3>2, <3>3, <3>4
  <2>4. /\ \A a : Contains(m, a) <=> Contains(l, a) \/ a = c
        /\ \A a, b : b # c =>
             (Ahead(m, a, b) <=> Ahead(l, a, b) \/ (a = c /\ Contains(l, b) /\ Preempts(s, n)))
    <3>1. CASE Preempts(s, n)
      <4>1. m = Cons(c, l)
        BY <3>1
      <4> HIDE DEF m, l
      <4> QED
        BY <2>3, <3>1, <4>1
    <3>2. CASE ~Preempts(s, n)
      <4>1. m = Append(l, c)
        BY <3>2
      <4> HIDE DEF m, l
      <4> QED
        BY <2>3, <3>2, <4>1
    <3> QED
      BY <3>1, <3>2
  <2> HIDE DEF m
  <2>5. \A p \in Prio : r.ready[p] = IF p = q THEN m ELSE s.ready[p]
    BY <1>1, <2>1
  <2>6. \A a, b : Ahead(l, a, b) => Contains(l, a)
    <3> HIDE DEF l
    <3> QED
      BY <1>1 DEF Ahead, Contains
  <2>7. GaveWay(s, r)
    BY <1>3, <2>4, <2>5 DEF GaveWay
  <2>8. ASSUME NEW p \in Prio, NEW a \in Thread, NEW b \in Thread, a # b,
               Contains(s.ready[p], b), Contains(r.ready[p], a)
        PROVE  /\ Contains(r.ready[p], b)
               /\ Ahead(r.ready[p], a, b) <=>
                   IF Contains(s.ready[p], a) THEN Ahead(s.ready[p], a, b)
                   ELSE s.stat[a] = "RUNNING" /\ a = s.cur /\ Preempts(s, n)
    <3>1. CASE p # q
      BY <2>5, <2>8, <3>1
    <3>2. CASE p = q
      <4>1. r.ready[p] = m /\ s.ready[p] = l /\ b # c
        BY <2>2, <2>5, <2>8, <3>2
      <4> HIDE DEF l, c
      <4>2. Contains(m, b) /\ Contains(l, b) /\ (Contains(l, a) \/ a = c)
        BY <2>4, <2>8, <4>1
      <4>3. CASE Contains(l, a)
        BY <2>2, <2>4, <4>1, <4>2, <4>3
      <4>4. CASE ~Contains(l, a)
        BY <1>3, <2>4, <2>6, <4>1, <4>2, <4>4 DEF c
      <4> QED
        BY <4>3, <4>4
    <3> QED
      BY <3>1, <3>2
  <2>9. \A p \in Prio, b \in Thread : Contains(s.ready[p], b) => Contains(r.ready[p], b)
    BY <2>4, <2>5
  <2> QED
    BY <2>7, <2>8, <2>9
<1> QED
  BY <1>2, <1>3

-----------------------------------------------------------------------------
(* The scheduler *)

\* What nd_schedule_core and nd_scheduler leave alone.
OnlyScheduled(s, r) ==
  /\ r.prio = s.prio /\ r.wait = s.wait /\ r.nest = s.nest /\ r.isr = s.isr
  /\ r.error = s.error /\ ThreadTimersKept(s, r)
  /\ r.expiring = s.expiring /\ r.halting = s.halting /\ r.fault = s.fault
  /\ r.cur = NoThread <=> s.cur = NoThread
  /\ \A t \in Thread : \/ r.stat[t] = s.stat[t]
                       \/ {r.stat[t], s.stat[t]} \subseteq {"READY", "RUNNING"}
  /\ r.pendsv => \/ r.stat[r.next] = "READY"
                 \/ s.pendsv /\ r.next = s.next /\ r.stat = s.stat

\* No READY thread is more urgent than the one that runs, or than the one PendSV is about
\* to switch to.
MostUrgent(s) ==
  /\ s.cur # NoThread /\ ~s.pendsv /\ s.stat[s.cur] = "RUNNING" =>
       \A t \in Thread : s.stat[t] = "READY" => s.prio[s.cur] <= s.prio[t]
  /\ s.pendsv => \A t \in Thread : s.stat[t] = "READY" => s.prio[s.next] <= s.prio[t]

\* Afterwards the current thread is RUNNING, or its switch is pending; and it is the most
\* urgent one.
LEMMA CoreLemma ==
  ASSUME NEW s \in KernelState, Agree(s),
         NEW r, r = nd_schedule_core(s)
  PROVE  /\ r \in KernelState /\ Agree(r) /\ OnlyScheduled(s, r)
         /\ r.try = s.try /\ MostUrgent(r)
         /\ r.cur # NoThread /\ r.stat[r.cur] # "RUNNING" => r.pendsv
<1> DEFINE n == nd_get_highest_priority_thread(s)
           c == s.cur
           q == Requeue(s, n)
<1>0. /\ s.stat \in [Thread -> Stat] /\ s.prio \in [Thread -> Prio]
      /\ c \in Thread \cup {NoThread} /\ NoThread \notin Thread
      /\ s.next \in Thread \cup {NoThread} /\ s.pendsv \in BOOLEAN
      /\ Idle \in Thread
  BY ThreadAssumption DEF KernelState, WaitQueue
<1>1. \/ n = NoThread /\ \A t \in Thread : s.stat[t] # "READY"
      \/ /\ n \in Thread /\ s.stat[n] = "READY"
         /\ \A t \in Thread : s.stat[t] = "READY" => s.prio[n] <= s.prio[t]
  BY HighestLemma DEF Agree
<1>2. CASE ~nd_should_switch(s, n)
  <2>1. r = s
    BY <1>2 DEF nd_schedule_core
  <2>2. c # NoThread /\ s.stat[c] # "RUNNING" => n # NoThread
    BY <1>0, <1>1 DEF Agree, CurrentAgrees
  <2>4. ThreadTimersKept(s, s)
    BY DEF ThreadTimersKept
  <2>3. c # NoThread => s.stat[c] = "RUNNING"
    BY <1>2, <2>2 DEF nd_should_switch
  <2>5. MostUrgent(s)
    <3>1. ~s.pendsv
      BY <1>0, <2>3 DEF Agree, SwitchAgrees
    <3>2. ASSUME c # NoThread, NEW t \in Thread, s.stat[t] = "READY"
          PROVE  s.prio[c] <= s.prio[t]
      <4>1. n \in Thread /\ s.prio[n] <= s.prio[t] /\ c \in Thread
        BY <1>0, <1>1, <3>2
      <4>2. ~(s.prio[n] < s.prio[c])
        BY <1>0, <1>2, <3>2, <4>1 DEF nd_should_switch, Preempts
      <4>3. s.prio[n] \in Int /\ s.prio[c] \in Int /\ s.prio[t] \in Int
        BY <1>0, <4>1, PrioAssumption DEF Prio
      <4> HIDE DEF n, c
      <4> QED
        BY <4>1, <4>2, <4>3
    <3> QED
      BY <3>1, <3>2 DEF MostUrgent
  <2> HIDE DEF n
  <2> QED
    BY <1>0, <2>1, <2>3, <2>4, <2>5 DEF OnlyScheduled
<1>3. CASE nd_should_switch(s, n)
  <2>1. n \in Thread /\ s.stat[n] = "READY" /\ c \in Thread
    BY <1>0, <1>1, <1>3 DEF nd_should_switch
  <2>2. r = nd_hw_do_switch(q, n)
    BY <1>3 DEF nd_schedule_core
  <2>1a. /\ \A t \in Thread : s.stat[t] = "READY" => s.prio[n] <= s.prio[t]
         /\ s.prio[n] <= s.prio[c] \/ s.stat[c] # "RUNNING"
    <3>1. s.prio[n] < s.prio[c] \/ s.prio[n] = s.prio[c] \/ s.stat[c] # "RUNNING"
      BY <1>3 DEF nd_should_switch, Preempts, Rotates
    <3>2. s.prio[n] \in Int /\ s.prio[c] \in Int
      BY <1>0, <2>1, PrioAssumption DEF Prio
    <3>3. n # NoThread
      BY <1>0, <2>1
    <3> HIDE DEF n
    <3> QED
      BY <1>1, <3>1, <3>2, <3>3
  <2> HIDE DEF n, q
  <2>3. /\ q \in KernelState /\ ReadyAgree(q) /\ OnlyGaveWay(s, q)
        /\ \A t \in Thread : t # c \/ s.stat[t] # "RUNNING" => q.stat[t] = s.stat[t]
        /\ s.stat[c] = "RUNNING" => q.stat[c] = "READY"
    <3>1. q = Requeue(s, n) /\ ReadyAgree(s)
      BY DEF q, Agree
    <3> QED
      BY ONLY <2>1, <3>1, s \in KernelState, RequeueLemma
  <2>4. /\ \A t \in Thread : q.stat[t] # "RUNNING"
        /\ \A t \in Thread : \/ q.stat[t] = s.stat[t]
                             \/ t = c /\ s.stat[t] = "RUNNING" /\ q.stat[t] = "READY"
    BY <2>3 DEF Agree, CurrentAgrees
  <2>5. q.stat[n] = "READY"
    BY <2>1, <2>4
  <2>6. WaitsAgree(q) /\ TimersAgree(q)
    <3>1. \A t \in Thread : s.stat[t] = "BLOCK" => q.stat[t] = "BLOCK"
      BY <2>4
    <3> QED
      BY <2>3, <3>1, KeptLemma DEF Agree, OnlyGaveWay
  <2>7. CurrentAgrees(q) /\ (q.stat[Idle] = "READY" \/ q.stat[Idle] = "RUNNING")
    BY <1>0, <2>3, <2>4 DEF Agree, CurrentAgrees, OnlyGaveWay
  <2>7a. SlicesAgree(q)
    <3>1. SlicesAgree(s) /\ Within(s) /\ InTime(s.timers)
      BY DEF Agree, SlicesAgree, Within
    <3>2. /\ q.timers = s.timers /\ q.expiring = s.expiring
          /\ \A t \in Thread : q.left[t] <= Slice[t]
      BY <2>3, <3>1 DEF OnlyGaveWay, Within
    <3> QED
      BY <2>3, <2>4, <3>1, <3>2, SlicesFewerLemma
  <2>8. CASE Deferred
    <3>1. r = [q EXCEPT !.next = n, !.pendsv = TRUE]
      BY <2>2, <2>8 DEF nd_hw_do_switch
    <3>2. r \in KernelState /\ r.next = n /\ r.pendsv
      BY <2>1, <2>3, <3>1 DEF KernelState
    <3>3. /\ r.stat = q.stat /\ r.ready = q.ready /\ r.bits = q.bits /\ r.prio = q.prio
          /\ r.wait = q.wait /\ r.timers = q.timers /\ r.cur = q.cur /\ r.nest = q.nest
          /\ r.isr = q.isr /\ r.expiring = q.expiring /\ r.halting = q.halting
          /\ r.fault = q.fault /\ r.try = q.try /\ r.error = q.error
          /\ r.left = q.left /\ r.ran = q.ran
      BY <2>3, <3>1 DEF KernelState
    <3>3a. SlicesAgree(r)
      BY <2>3, <2>7a, <3>2, <3>3, SlicesKeptLemma
    <3>4. r.cur = c
      BY <2>3, <3>3 DEF OnlyGaveWay
    <3>5. ReadyAgree(r) /\ WaitsAgree(r) /\ TimersAgree(r) /\ CurrentAgrees(r)
      BY <2>3, <2>6, <2>7, <3>3
         DEF ReadyAgree, WaitsAgree, TimersAgree, TimerAgrees, Linked, CurrentAgrees
    <3>6. SwitchAgrees(r)
      BY <1>0, <2>1, <2>4, <2>5, <2>8, <3>2, <3>3, <3>4 DEF SwitchAgrees
    <3>8. ThreadTimersKept(s, r)
      BY <2>3, <3>3 DEF ThreadTimersKept, OnlyGaveWay
    <3>7. OnlyScheduled(s, r) /\ r.try = s.try
      BY <2>3, <2>4, <2>5, <3>2, <3>3, <3>8 DEF OnlyScheduled, OnlyGaveWay
    <3>9. MostUrgent(r)
      <4>1. \A t \in Thread : r.stat[t] = "READY" => s.prio[n] <= s.prio[t]
        BY <2>1a, <2>4, <3>3
      <4> QED
        BY <2>3, <3>2, <3>3, <4>1 DEF OnlyGaveWay, MostUrgent
    <3> QED
      BY <3>2, <3>3a, <3>5, <3>6, <3>7, <3>9 DEF Agree
  <2>9. CASE ~Deferred
    <3>1. r = nd_context_switch_cb(q, n)
      BY <2>2, <2>9 DEF nd_hw_do_switch
    <3>2. ~q.pendsv
      BY <2>3, <2>9 DEF OnlyGaveWay, Agree, SwitchAgrees
    <3>3. Agree(q)
      BY <2>3, <2>6, <2>7, <2>7a, <3>2 DEF Agree, SwitchAgrees
    <3>4. q.stat[n] # "BLOCK"
      BY <2>5
    <3>5. /\ r \in KernelState /\ Agree(r)
          /\ r.cur = n /\ r.stat = [q.stat EXCEPT ![n] = "RUNNING"]
          /\ r.prio = q.prio /\ r.wait = q.wait /\ r.pendsv = q.pendsv /\ r.nest = q.nest
          /\ r.try = q.try /\ r.isr = q.isr /\ r.expiring = q.expiring
          /\ r.halting = q.halting /\ r.error = q.error
          /\ q.stat[n] = "READY" => r.fault = q.fault
          /\ ThreadTimersKept(q, r)
      BY ONLY <2>1, <2>3, <2>4, <3>1, <3>2, <3>3, <3>4, ContextSwitchLemma
    <3>6. q.stat \in [Thread -> Stat]
      BY <2>3 DEF KernelState
    <3>7. r.stat[r.cur] = "RUNNING" /\ r.cur # NoThread /\ ~r.pendsv
      BY <1>0, <2>1, <3>2, <3>5, <3>6
    <3>8. \A t \in Thread : \/ r.stat[t] = s.stat[t]
                            \/ {r.stat[t], s.stat[t]} \subseteq {"READY", "RUNNING"}
      BY <2>1, <2>4, <3>5, <3>6
    <3>10. ThreadTimersKept(s, r)
      BY <2>3, <3>5, TimersKeptLemma DEF OnlyGaveWay
    <3>9. OnlyScheduled(s, r) /\ r.try = s.try
      BY <1>0, <2>1, <2>3, <2>5, <3>5, <3>7, <3>8, <3>10 DEF OnlyScheduled, OnlyGaveWay
    <3>11. MostUrgent(r)
      <4>1. \A t \in Thread : r.stat[t] = "READY" => s.prio[n] <= s.prio[t]
        BY <2>1a, <2>4, <3>5, <3>6
      <4> QED
        BY <2>3, <3>5, <3>7, <4>1 DEF OnlyGaveWay, MostUrgent
    <3> QED
      BY <3>5, <3>7, <3>9, <3>11
  <2> QED
    BY <2>8, <2>9
<1> QED
  BY <1>2, <1>3

\* nd_schedule_core puts the thread that ran where it belongs.
LEMMA CoreRanks ==
  ASSUME NEW s \in KernelState, Agree(s),
         NEW r, r = nd_schedule_core(s)
  PROVE  Ranked(s, r) /\ GaveWay(s, r)
<1> DEFINE n == nd_get_highest_priority_thread(s)
           c == s.cur
           q == Requeue(s, n)
<1>0. /\ s.prio \in [Thread -> Prio] /\ c \in Thread \cup {NoThread}
      /\ NoThread \notin Thread /\ ReadyAgree(s) /\ CurrentAgrees(s)
  BY ThreadAssumption DEF KernelState, WaitQueue, Agree
<1>1. \/ n = NoThread
      \/ /\ n \in Thread /\ s.stat[n] = "READY"
         /\ \A t \in Thread : s.stat[t] = "READY" => s.prio[n] <= s.prio[t]
  BY <1>0, HighestLemma
<1>2. CASE ~nd_should_switch(s, n)
  <2>1. r = s
    BY <1>2 DEF nd_schedule_core
  <2> QED
    BY <2>1, RankedThinned DEF Thinned
<1>3. CASE nd_should_switch(s, n)
  <2>1. /\ n \in Thread /\ s.stat[n] = "READY" /\ c \in Thread
        /\ \A t \in Thread : s.stat[t] = "READY" => s.prio[n] <= s.prio[t]
    BY <1>0, <1>1, <1>3 DEF nd_should_switch
  <2>2. r = nd_hw_do_switch(q, n)
    BY <1>3 DEF nd_schedule_core
  <2>3. OnlyScheduled(s, r)
    BY CoreLemma
  <2> HIDE DEF n, q
  <2>4. /\ q \in KernelState /\ ReadyAgree(q) /\ OnlyGaveWay(s, q)
        /\ \A t \in Thread : t # c \/ s.stat[t] # "RUNNING" => q.stat[t] = s.stat[t]
        /\ s.stat[c] = "RUNNING" => q.stat[c] = "READY"
        /\ GaveWay(s, q)
        /\ \A p \in Prio, a, b \in Thread :
             a # b /\ Contains(s.ready[p], b) /\ Contains(q.ready[p], a) =>
               (Ahead(q.ready[p], a, b) <=>
                  IF Contains(s.ready[p], a) THEN Ahead(s.ready[p], a, b)
                  ELSE s.stat[a] = "RUNNING" /\ a = c /\ Preempts(s, n))
        /\ \A p \in Prio, b \in Thread : Contains(s.ready[p], b) => Contains(q.ready[p], b)
    <3>1. q = Requeue(s, n)
      BY DEF q
    <3> QED
      BY ONLY <1>0, <2>1, <3>1, s \in KernelState, RequeueLemma, RequeueRanks
  <2>5. Thinned(q, r)
    <3>1. CASE Deferred
      <4>1. r.ready = q.ready
        BY <2>2, <2>4, <3>1 DEF nd_hw_do_switch, KernelState
      <4> QED
        BY <4>1 DEF Thinned
    <3>2. CASE ~Deferred
      <4>1. r.ready = nd_thread_ready_remove(q, n).ready
        <5>1. r = nd_context_switch_cb(q, n)
          BY <2>2, <3>2 DEF nd_hw_do_switch
        <5>2. \A t \in Thread : q.stat[t] # "RUNNING"
          BY <1>0, <2>4 DEF CurrentAgrees
        <5> QED
          BY <2>1, <2>4, <5>1, <5>2, SwitchRemoves
      <4> QED
        BY <2>1, <2>4, <4>1, ThinnedRemoved DEF ReadyAgree
    <3> QED
      BY <3>1, <3>2
  <2>6. ASSUME s.stat[c] = "RUNNING" PROVE Urged(r, c) <=> Preempts(s, n)
    <3>1. r.prio = s.prio /\ r.stat[n] \in Runnable
      BY <2>1, <2>3 DEF OnlyScheduled, Runnable
    <3>2. ASSUME NEW v \in Thread, r.stat[v] \in Runnable, s.prio[v] < s.prio[c]
          PROVE  s.prio[n] < s.prio[c]
      <4>1. s.stat[v] = "READY" \/ s.stat[v] = "RUNNING"
        BY <2>3, <3>2 DEF OnlyScheduled, Runnable
      <4>2. s.prio[v] \in Int /\ s.prio[n] \in Int /\ s.prio[c] \in Int
        BY <1>0, <2>1, PrioAssumption DEF Prio
      <4>3. v # c
        BY <3>2, <4>2
      <4>4. s.stat[v] = "READY"
        BY <1>0, <4>1, <4>3 DEF CurrentAgrees
      <4> QED
        BY <2>1, <3>2, <4>2, <4>4
    <3> QED
      BY <2>1, <3>1, <3>2 DEF Urged, Preempts
  <2>7. GaveWay(s, r)
    BY <2>4, <2>5 DEF GaveWay, Thinned
  <2>8. Ranked(s, r)
    <3> SUFFICES ASSUME NEW p \in Prio, NEW a \in Thread, NEW b \in Thread, a # b,
                        Contains(s.ready[p], b), Contains(r.ready[p], b),
                        Contains(r.ready[p], a)
                 PROVE  Ahead(r.ready[p], a, b) <=>
                          IF Contains(s.ready[p], a) THEN Ahead(s.ready[p], a, b)
                          ELSE s.stat[a] = "RUNNING" /\ Urged(r, a)
      BY DEF Ranked
    <3>1. /\ Contains(q.ready[p], a)
          /\ Ahead(r.ready[p], a, b) <=> Ahead(q.ready[p], a, b)
      BY <2>5 DEF Thinned
    <3>2. Ahead(q.ready[p], a, b) <=>
            IF Contains(s.ready[p], a) THEN Ahead(s.ready[p], a, b)
            ELSE s.stat[a] = "RUNNING" /\ a = c /\ Preempts(s, n)
      BY <2>4, <3>1
    <3>3. s.stat[a] = "RUNNING" => a = c
      BY <1>0 DEF CurrentAgrees
    <3> QED
      BY <2>6, <3>1, <3>2, <3>3
  <2> QED
    BY <2>7, <2>8
<1> QED
  BY <1>2, <1>3

\* Inside a handler the reschedule is only noted.
LEMMA SchedulerLemma ==
  ASSUME NEW s \in KernelState, Agree(s),
         NEW r, r = nd_scheduler(s)
  PROVE  /\ r \in KernelState /\ Agree(r) /\ OnlyScheduled(s, r)
         /\ r.try <=> s.try \/ s.nest > 0
         /\ ~r.try => MostUrgent(r)
         /\ r.cur # NoThread /\ r.stat[r.cur] # "RUNNING" => r.pendsv \/ r.try
<1>1. s.nest \in Nat /\ s.try \in BOOLEAN
  BY DEF KernelState
<1>2. CASE s.nest > 0
  <2>1. r = [s EXCEPT !.try = TRUE]
    BY <1>2 DEF nd_scheduler
  <2>2. /\ r \in KernelState /\ r.try
        /\ r.stat = s.stat /\ r.ready = s.ready /\ r.bits = s.bits /\ r.prio = s.prio
        /\ r.wait = s.wait /\ r.timers = s.timers /\ r.cur = s.cur /\ r.nest = s.nest
        /\ r.isr = s.isr /\ r.expiring = s.expiring /\ r.halting = s.halting
        /\ r.fault = s.fault /\ r.next = s.next /\ r.pendsv = s.pendsv
        /\ r.error = s.error /\ r.left = s.left /\ r.ran = s.ran
    BY <2>1 DEF KernelState
  <2>2a. SlicesAgree(r)
    BY <2>2, SlicesKeptLemma DEF Agree
  <2>3. Agree(r)
    BY <2>2, <2>2a DEF Agree, ReadyAgree, WaitsAgree, TimersAgree, TimerAgrees, Linked,
                CurrentAgrees, SwitchAgrees
  <2>4. ThreadTimersKept(s, r)
    BY <2>2 DEF ThreadTimersKept
  <2>5. OnlyScheduled(s, r)
    BY <2>2, <2>4 DEF OnlyScheduled
  <2> QED
    BY <1>2, <2>2, <2>3, <2>5
<1>3. CASE ~(s.nest > 0)
  <2>1. r = nd_schedule_core(s)
    BY <1>3 DEF nd_scheduler
  <2>2. /\ r \in KernelState /\ Agree(r) /\ OnlyScheduled(s, r)
        /\ r.try = s.try /\ MostUrgent(r)
        /\ r.cur # NoThread /\ r.stat[r.cur] # "RUNNING" => r.pendsv
    BY ONLY <2>1, s \in KernelState, Agree(s), CoreLemma
  <2> QED
    BY <1>3, <2>2
<1> QED
  BY <1>2, <1>3

\* And so does nd_scheduler.
LEMMA SchedulerRanks ==
  ASSUME NEW s \in KernelState, Agree(s),
         NEW r, r = nd_scheduler(s)
  PROVE  Ranked(s, r) /\ GaveWay(s, r)
<1>1. CASE s.nest > 0
  <2>1. r.ready = s.ready
    BY <1>1 DEF nd_scheduler, KernelState
  <2> QED
    BY <2>1, RankedThinned DEF Thinned
<1>2. CASE ~(s.nest > 0)
  <2>1. r = nd_schedule_core(s)
    BY <1>2 DEF nd_scheduler
  <2> QED
    BY <2>1, CoreRanks
<1> QED
  BY <1>1, <1>2

-----------------------------------------------------------------------------
(* Calls *)

\* What holds of the kernel even inside a call.
Consistent(s) ==
  /\ s \in KernelState
  /\ Agree(s) /\ NestCounts(s) /\ DeadUnwaited(s)
  /\ s.try => s.isr # <<>>

\* Who runs, who is about to, and which handlers are active.
SameControl(s, r) ==
  /\ r.cur = s.cur /\ r.next = s.next /\ r.pendsv = s.pendsv /\ r.nest = s.nest
  /\ r.try = s.try /\ r.isr = s.isr /\ r.expiring = s.expiring
  /\ r.halting = s.halting /\ r.fault = s.fault

\* A step that leaves the control fields alone, kills nobody and adds no waiter stays
\* consistent when its tables agree.
LEMMA ConsistentLemma ==
  ASSUME NEW s, Consistent(s), NEW r \in KernelState, Agree(r), SameControl(s, r),
         \A t \in Thread : r.stat[t] \in {"INIT", "DEAD"} => r.stat[t] = s.stat[t],
         \A q \in WaitQueue : s.wait[q] = <<>> => r.wait[q] = <<>>
  PROVE  Consistent(r)
<1>1. NestCounts(r)
  BY DEF Consistent, SameControl, NestCounts, Open
<1>2. DeadUnwaited(r)
  BY DEF Consistent, SameControl, DeadUnwaited, WaitQueue
<1> QED
  BY <1>1, <1>2 DEF Consistent, SameControl

\* A nest count above zero is a handler that is still open.
LEMMA NestLemma ==
  ASSUME NEW s \in KernelState, NestCounts(s)
  PROVE  /\ IsFiniteSet(Open(s)) /\ s.nest \in Nat
         /\ s.nest > 0 <=> Open(s) # {}
         /\ s.nest > 0 => s.isr # <<>>
<1>1. s.isr \in Seq(Frame) /\ s.nest \in Nat /\ DOMAIN s.isr = 1..Len(s.isr) /\ Len(s.isr) \in Nat
  BY DEF KernelState
<1>2. IsFiniteSet(DOMAIN s.isr)
  BY <1>1, FS_Interval
<1>3. IsFiniteSet(Open(s))
  BY <1>2, FS_Subset DEF Open
<1>4. Cardinality(Open(s)) = 0 <=> Open(s) = {}
  BY <1>3, FS_EmptySet
<1>5. s.isr = <<>> => Open(s) = {}
  BY <1>1 DEF Open
<1> QED
  BY <1>1, <1>3, <1>4, <1>5 DEF NestCounts

-----------------------------------------------------------------------------
(* Who waits, and how *)

Delayed(s, t) == \E e : Contains(s.timers, e) /\ e.who = t /\ e.cb = "delay"

\* t waits in r as it does in s.
WaitsAlike(s, r, t) ==
  /\ r.stat[t] = s.stat[t] \/ {r.stat[t], s.stat[t]} \subseteq {"READY", "RUNNING"}
  /\ r.error[t] = s.error[t]
  /\ \A q \in WaitQueue : Contains(r.wait[q], t) <=> Contains(s.wait[q], t)
  /\ Delayed(r, t) <=> Delayed(s, t)

\* Everybody does but t, which NoThread makes everybody.
WaitsKept(s, r, t) ==
  /\ r.prio = s.prio
  /\ \A u \in Thread \ {t} : WaitsAlike(s, r, u)
  /\ OrderKept(s, r)

\* In particular when nothing that has to do with waiting changes.
LEMMA WaitsSameLemma ==
  ASSUME NEW s, NEW r, NEW t, r.stat = s.stat, r.error = s.error, r.wait = s.wait,
         r.prio = s.prio, r.timers = s.timers
  PROVE  WaitsKept(s, r, t)
  BY DEF WaitsKept, WaitsAlike, Delayed, OrderKept, InOrder

\* One step after the other.
LEMMA WaitsThenLemma ==
  ASSUME NEW s, NEW x, NEW r, NEW t, NEW u \in {t, NoThread}, NEW v \in {t, NoThread},
         WaitsKept(s, x, u), WaitsKept(x, r, v)
  PROVE  WaitsKept(s, r, t)
<1>1. NoThread \notin Thread
  BY ThreadAssumption DEF WaitQueue
<1>2. ASSUME NEW a \in Thread \ {t} PROVE WaitsAlike(s, r, a)
  <2>1. WaitsAlike(s, x, a) /\ WaitsAlike(x, r, a)
    BY <1>1, <1>2 DEF WaitsKept
  <2> QED
    BY <2>1 DEF WaitsAlike
<1>3. OrderKept(s, r)
  BY DEF WaitsKept, OrderKept
<1> QED
  BY <1>2, <1>3 DEF WaitsKept

\* The scheduler changes who runs, and nothing about waiting.
LEMMA WaitsScheduledLemma ==
  ASSUME NEW s, NEW r, OnlyScheduled(s, r) PROVE WaitsKept(s, r, NoThread)
<1>1. \A t : Delayed(r, t) <=> Delayed(s, t)
  BY DEF OnlyScheduled, ThreadTimersKept, Delayed
<1>2. OrderKept(s, r)
  BY DEF OnlyScheduled, OrderKept, InOrder
<1>3. r.prio = s.prio /\ r.error = s.error /\ r.wait = s.wait
  BY DEF OnlyScheduled
<1>4. \A t \in Thread : \/ r.stat[t] = s.stat[t]
                       \/ {r.stat[t], s.stat[t]} \subseteq {"READY", "RUNNING"}
  BY DEF OnlyScheduled
<1> QED
  BY <1>1, <1>2, <1>3, <1>4 DEF WaitsKept, WaitsAlike

\* Unless a handler has already asked for a reschedule.
Urgent(s) == ~s.try => MostUrgent(s)

\* A call that ends in nd_scheduler leaves nothing owed.
LEMMA CloseLemma ==
  ASSUME NEW s, Consistent(s), NEW r, r = nd_scheduler(s)
  PROVE  /\ Consistent(r) /\ Settled(r) /\ Urgent(r)
         /\ Steady(s) => Steady(r)
         /\ WaitsKept(s, r, NoThread) /\ r.halting = s.halting
         /\ Ranked(s, r) /\ GaveWay(s, r)
<1>0. s \in KernelState /\ Agree(s)
  BY DEF Consistent
<1>1. /\ r \in KernelState /\ Agree(r) /\ OnlyScheduled(s, r)
      /\ r.try <=> s.try \/ s.nest > 0
      /\ ~r.try => MostUrgent(r)
      /\ r.cur # NoThread /\ r.stat[r.cur] # "RUNNING" => r.pendsv \/ r.try
  BY ONLY <1>0, r = nd_scheduler(s), SchedulerLemma
<1>2. s.try \/ s.nest > 0 => s.isr # <<>>
  BY <1>0, NestLemma DEF Consistent
<1>3. NestCounts(r)
  BY <1>1 DEF Consistent, OnlyScheduled, NestCounts, Open
<1>4. DeadUnwaited(r)
  BY <1>1 DEF Consistent, OnlyScheduled, DeadUnwaited
<1>5. Consistent(r) /\ Settled(r)
  BY <1>1, <1>2, <1>3, <1>4 DEF Consistent, Settled, OnlyScheduled, Booted
<1>6. Steady(s) => Steady(r)
  BY <1>1 DEF Steady, OnlyScheduled
<1>7. WaitsKept(s, r, NoThread) /\ r.halting = s.halting /\ Urgent(r)
  BY <1>1, WaitsScheduledLemma DEF OnlyScheduled, Urgent
<1>8. Ranked(s, r) /\ GaveWay(s, r)
  BY ONLY <1>0, r = nd_scheduler(s), SchedulerRanks
<1> QED
  BY <1>5, <1>6, <1>7, <1>8

-----------------------------------------------------------------------------
(* Leaving the wait lists and the timers *)

\* The timers of r are timers of s, and none of them is thread->timer of t.
Untimed(s, r, t) ==
  /\ OnceEach(r.timers)
  /\ \A e : Contains(r.timers, e) => Contains(s.timers, e) /\ ~SameTimer(e, t, FALSE)
  /\ \A e : Contains(s.timers, e) /\ e.who # t /\ e.cb # "slice" => Contains(r.timers, e)

\* Once t is on no wait list and its timer is stopped, its state is free to change.
LEMMA UntieLemma ==
  ASSUME NEW s \in KernelState, WaitsAgree(s), TimersAgree(s), NEW t \in Thread,
         NEW r \in KernelState, r.cur = s.cur,
         \A u \in Thread \ {t} : r.stat[u] = s.stat[u],
         Unlinked(s, r, t), Untimed(s, r, t)
  PROVE  WaitsAgree(r) /\ TimersAgree(r)
<1>1. \A u : Linked(r, u) <=> Linked(s, u) /\ u # t
  BY DEF Linked, Unlinked
<1>2. WaitsAgree(r)
  BY <1>1 DEF WaitsAgree, Unlinked
<1>3. ASSUME NEW e, Contains(r.timers, e) PROVE TimerAgrees(r, e)
  <2>1. TimerAgrees(s, e) /\ e \in Timer /\ ~SameTimer(e, t, FALSE)
    BY <1>3, TimersForm DEF Untimed
  <2>2. e.who \in Thread /\ (e.cb = "slice" \/ e.who # t)
    BY <2>1 DEF Timer, SameTimer
  <2> QED
    BY <1>1, <2>1, <2>2 DEF TimerAgrees
<1> QED
  BY <1>2, <1>3, TimersForm DEF Untimed

\* And it is the only one whose waiting has changed.
LEMMA WaitsUntiedLemma ==
  ASSUME NEW s, NEW r, NEW t \in Thread,
         \A u \in Thread \ {t} : r.stat[u] = s.stat[u] /\ r.error[u] = s.error[u],
         r.prio = s.prio, OrderKept(s, r), Unlinked(s, r, t), Untimed(s, r, t)
  PROVE  WaitsKept(s, r, t)
<1>1. ASSUME NEW u, u # t PROVE Delayed(r, u) <=> Delayed(s, u)
  <2>1. ASSUME Delayed(s, u) PROVE Delayed(r, u)
    <3>1. PICK e : Contains(s.timers, e) /\ e.who = u /\ e.cb = "delay"
      BY <2>1 DEF Delayed
    <3>2. Contains(r.timers, e)
      BY <1>1, <3>1 DEF Untimed
    <3> QED
      BY <3>1, <3>2 DEF Delayed
  <2> QED
    BY <2>1 DEF Untimed, Delayed
<1>2. \A u : u # t => \A q \in WaitQueue : Contains(r.wait[q], u) <=> Contains(s.wait[q], u)
  BY DEF Unlinked
<1> QED
  BY <1>1, <1>2 DEF WaitsKept, WaitsAlike

\* r is s with t made READY.
Readied(s, r, t) ==
  /\ Consistent(r) /\ SameControl(s, r) /\ WaitsKept(s, r, t)
  /\ r.stat = [s.stat EXCEPT ![t] = "READY"]
  /\ Settled(s) => Settled(r)
  /\ Steady(s) => Steady(r)
  /\ Behind(s, r)

\* The slice accounts of r are those of s but for the one of t, which may be set within
\* its slice.
AccountsBut(s, r, t) ==
  /\ InTime(s.timers) => InTime(r.timers)
  /\ \A u \in Thread \ {t} : r.left[u] = s.left[u] /\ r.ran[u] = s.ran[u]
  /\ s.left[t] <= Slice[t] => r.left[t] <= Slice[t]

\* While t does not run its account may be set.
LEMMA AccountsLemma ==
  ASSUME NEW s \in KernelState, NEW r \in KernelState, SlicesAgree(s), NEW t \in Thread,
         AccountsBut(s, r, t), s.expiring => r.expiring, r.stat[t] # "RUNNING",
         \A e : Contains(r.timers, e) /\ e.cb = "slice" => Contains(s.timers, e),
         \A u \in Thread \ {t} : r.stat[u] = s.stat[u]
  PROVE  SlicesAgree(r)
<1>1. \A u \in Thread : r.left[u] <= Slice[u]
  BY DEF SlicesAgree, AccountsBut
<1>2. InTime(r.timers)
  BY DEF SlicesAgree, AccountsBut
<1>3. \A u \in Thread : r.stat[u] = "RUNNING" =>
        s.stat[u] = "RUNNING" /\ r.left[u] = s.left[u] /\ r.ran[u] = s.ran[u]
  BY DEF AccountsBut
<1> QED
  BY <1>1, <1>2, <1>3, SlicesFewerLemma

\* Making READY a thread that waits or is suspended.
LEMMA UnblockLemma ==
  ASSUME NEW s, Consistent(s), NEW t \in Thread, s.stat[t] \in {"BLOCK", "SUSPEND"},
         NEW x \in KernelState, SameControl(s, x),
         x.ready = s.ready, x.bits = s.bits, x.prio = s.prio,
         x.stat = [s.stat EXCEPT ![t] = "READY"],
         Unlinked(s, x, t), Untimed(s, x, t), OrderKept(s, x), AccountsBut(s, x, t),
         \A u \in Thread \ {t} : x.error[u] = s.error[u],
         NEW r, r = nd_thread_ready_add_tail(x, t)
  PROVE  Readied(s, r, t) /\ r.error = x.error
<1>0. s \in KernelState /\ Agree(s) /\ WaitsAgree(s) /\ TimersAgree(s) /\ CurrentAgrees(s)
  BY DEF Consistent, Agree
<1>1. /\ s.stat \in [Thread -> Stat] /\ s.stat[t] \notin {"READY", "RUNNING"}
      /\ s.next \in Thread \cup {NoThread} /\ s.cur \in Thread \cup {NoThread}
  BY <1>0 DEF KernelState
<1>2. WaitsAgree(x) /\ TimersAgree(x)
  <2>1. \A u \in Thread \ {t} : x.stat[u] = s.stat[u]
    BY <1>1
  <2>2. x.cur = s.cur
    BY DEF SameControl
  <2> QED
    BY <1>0, <2>1, <2>2, UntieLemma
<1>2a. SlicesAgree(x)
  <2>1. /\ SlicesAgree(s) /\ (s.expiring => x.expiring)
        /\ x.stat[t] # "RUNNING" /\ \A u \in Thread \ {t} : x.stat[u] = s.stat[u]
    BY <1>0, <1>1 DEF Agree, SameControl
  <2>2. \A e : Contains(x.timers, e) => Contains(s.timers, e)
    BY DEF Untimed
  <2> QED
    BY <1>0, <2>1, <2>2, AccountsLemma
<1>3. r \in KernelState /\ Agree(r) /\ OnlyReady(x, r)
  <2>1. /\ \A u \in Thread \ {t} : x.prio[u] = s.prio[u]
        /\ x.cur = s.cur /\ x.next = s.next /\ x.pendsv = s.pendsv
    BY DEF SameControl
  <2> QED
    BY ONLY <1>0, <1>1, <1>2, <1>2a, <2>1, t \in Thread, x \in KernelState, x.ready = s.ready,
            x.bits = s.bits, x.stat = [s.stat EXCEPT ![t] = "READY"],
            r = nd_thread_ready_add_tail(x, t), MakeReadyLemma
<1>4. /\ SameControl(s, r) /\ r.stat = x.stat /\ r.wait = x.wait
      /\ r.error = x.error /\ r.prio = x.prio /\ r.timers = x.timers
  BY <1>3, OnlyReadyFrame DEF SameControl
<1>5. \A u \in Thread : r.stat[u] = IF u = t THEN "READY" ELSE s.stat[u]
  BY <1>1, <1>4
<1>6. Consistent(r)
  BY <1>3, <1>4, <1>5, ConsistentLemma DEF Unlinked
<1>7. Settled(s) => Settled(r)
  BY <1>1, <1>4, <1>5 DEF Settled, SameControl, Booted
<1>8. Steady(s) => Steady(r)
  <2>1. s.pendsv => s.next \in Thread
    BY <1>0, <1>1 DEF Agree, SwitchAgrees
  <2> QED
    BY <1>4, <1>5, <2>1 DEF Steady, SameControl
<1>9. WaitsKept(s, r, t)
  <2>1. \A u \in Thread \ {t} : x.stat[u] = s.stat[u]
    BY <1>1
  <2>2. WaitsKept(s, x, t)
    BY <2>1, WaitsUntiedLemma
  <2>3. WaitsKept(x, r, NoThread)
    BY <1>4, WaitsSameLemma
  <2> QED
    BY <2>2, <2>3, WaitsThenLemma
<1>10. Behind(s, r)
  <2>1. ~Contains(x.ready[x.prio[t]], t)
    <3>1. s.prio[t] \in Prio /\ ReadyAgree(s)
      BY <1>0 DEF Agree, KernelState
    <3> QED
      BY <1>1, <3>1 DEF ReadyAgree
  <2>2. s.stat[t] \notin Runnable /\ \A u \in Thread : x.stat[u] = "RUNNING" => s.stat[u] = "RUNNING"
    BY <1>1 DEF Runnable
  <2> QED
    BY ONLY <2>1, <2>2, x \in KernelState, t \in Thread, x.ready = s.ready,
            r = nd_thread_ready_add_tail(x, t), BehindAdded
<1> QED
  BY <1>4, <1>6, <1>7, <1>8, <1>9, <1>10 DEF Readied

-----------------------------------------------------------------------------
(* Waking *)

\* nd_thread_wakeup: the most urgent waiter becomes READY and no timer of its is left.
LEMMA WakeupLemma ==
  ASSUME NEW s, Consistent(s), NEW q \in WaitQueue, s.wait[q] # <<>>,
         NEW r, r = nd_thread_wakeup(s, q)
  PROVE  Readied(s, r, Head(s.wait[q])) /\ r.error[Head(s.wait[q])] = "EOK"
<1> DEFINE t == Head(s.wait[q])
           s0 == nd_timer_stop(s, t, FALSE)
           y == [s.error EXCEPT ![t] = "EOK"]
           z == [s.stat EXCEPT ![t] = "READY"]
           s1 == [s0 EXCEPT !.error = y, !.stat = z]
           x == WaitRemove(s1, t)
<1>0. /\ s \in KernelState /\ WaitsAgree(s) /\ TimersAgree(s) /\ OnceEach(s.timers)
      /\ s.wait \in [WaitQueue -> Seq(Thread)] /\ s.stat \in [Thread -> Stat]
      /\ s.error \in [Thread -> Error]
      /\ \A p \in WaitQueue : IsInjective(s.wait[p])
  BY DEF Consistent, Agree, KernelState, TimersAgree, WaitsAgree
<1>1. t \in Thread /\ s.stat[t] = "BLOCK"
  <2>1. t \in Thread /\ Contains(s.wait[q], t)
    BY <1>0, EmptyLemma
  <2> QED
    BY <1>0, <2>1 DEF WaitsAgree, Linked
<1>2. r = nd_thread_ready_add_tail(WaitRemove([s0 EXCEPT !.error[t] = "EOK", !.stat[t] = "READY"], t), t)
  BY DEF nd_thread_wakeup
<1> HIDE DEF t, s0
<1>3. /\ s0 \in KernelState /\ OnlyTimers(s, s0) /\ OnceEach(s0.timers)
      /\ InTime(s.timers) => InTime(s0.timers)
      /\ \A e : Contains(s0.timers, e) <=> Contains(s.timers, e) /\ ~SameTimer(e, t, FALSE)
  <2>1. s0 = nd_timer_stop(s, t, FALSE) /\ FALSE \in BOOLEAN
    BY DEF s0
  <2> QED
    BY ONLY <1>0, <1>1, <2>1, TimerStopLemma
<1>4. s0.error = s.error /\ s0.stat = s.stat
  BY <1>0, <1>3, OnlyTimersFrame
<1>5. r = nd_thread_ready_add_tail(x, t)
  BY <1>2, <1>3, <1>4 DEF KernelState
<1>6. y \in [Thread -> Error] /\ z \in [Thread -> Stat]
  BY <1>0 DEF Stat, Error
<1>7. /\ z = [s.stat EXCEPT ![t] = "READY"]
      /\ y[t] = "EOK" /\ \A u \in Thread \ {t} : y[u] = s.error[u]
  BY <1>0, <1>1
<1> HIDE DEF y, z
<1>8. /\ s1 \in KernelState /\ s1.stat = z /\ s1.error = y /\ s1.timers = s0.timers
      /\ s1.wait = s.wait /\ s1.ready = s.ready /\ s1.bits = s.bits /\ s1.prio = s.prio
      /\ SameControl(s, s1) /\ s1.left = s.left /\ s1.ran = s.ran
  <2>1. /\ s1 \in KernelState /\ s1.stat = z /\ s1.error = y /\ s1.timers = s0.timers
        /\ s1.wait = s0.wait /\ s1.ready = s0.ready /\ s1.bits = s0.bits
        /\ s1.prio = s0.prio /\ SameControl(s0, s1) /\ s1.left = s0.left /\ s1.ran = s0.ran
    BY <1>3, <1>6 DEF KernelState, SameControl
  <2> HIDE DEF s1
  <2> QED
    BY <1>0, <1>3, <2>1, OnlyTimersFrame DEF SameControl
<1> HIDE DEF s1
<1>9. /\ x \in KernelState /\ OnlyWait(s1, x) /\ Unlinked(s1, x, t)
      /\ OrderKept(s1, x)
  <2>1. \A p \in WaitQueue : IsInjective(s1.wait[p])
    BY <1>0, <1>8
  <2>2. x = WaitRemove(s1, t)
    OBVIOUS
  <2> HIDE DEF x
  <2> QED
    BY ONLY <1>1, <1>8, <2>1, <2>2, WaitRemoveLemma
<1> HIDE DEF x
<1>10. /\ x.stat = z /\ x.timers = s0.timers /\ x.ready = s.ready /\ x.bits = s.bits
       /\ x.prio = s.prio /\ SameControl(s, x) /\ Unlinked(s, x, t) /\ x.error = y
       /\ x.left = s.left /\ x.ran = s.ran
  BY <1>8, <1>9, OnlyWaitFrame DEF SameControl, Unlinked
<1>10a. AccountsBut(s, x, t)
  BY <1>3, <1>10 DEF AccountsBut
<1>11. Untimed(s, x, t) /\ OrderKept(s, x)
  BY <1>3, <1>8, <1>9, <1>10 DEF Untimed, SameTimer, OrderKept, InOrder
<1>12. /\ x.stat = [s.stat EXCEPT ![t] = "READY"] /\ s.stat[t] \in {"BLOCK", "SUSPEND"}
       /\ x.error[t] = "EOK" /\ \A u \in Thread \ {t} : x.error[u] = s.error[u]
  BY <1>1, <1>7, <1>10
<1>13. Readied(s, r, t) /\ r.error[t] = "EOK"
  BY ONLY <1>1, <1>5, <1>9, <1>10, <1>10a, <1>11, <1>12, Consistent(s), UnblockLemma
<1> QED
  BY <1>13 DEF t

\* A thread that does not wait is on no wait list, and thread->timer is not armed.
LEMMA FreeLemma ==
  ASSUME NEW s, Consistent(s), NEW t \in Thread, s.stat[t] # "BLOCK",
         NEW x, x.wait = s.wait, x.timers = s.timers
  PROVE  Unlinked(s, x, t) /\ Untimed(s, x, t)
<1>1. s \in KernelState /\ WaitsAgree(s) /\ TimersAgree(s)
  BY DEF Consistent, Agree
<1>2. \A q \in WaitQueue : ~Contains(s.wait[q], t)
  BY <1>1 DEF WaitsAgree, Linked
<1>3. Unlinked(s, x, t)
  BY <1>1, <1>2 DEF Unlinked, WaitsAgree
<1>4. ASSUME NEW e, Contains(s.timers, e) PROVE ~SameTimer(e, t, FALSE)
  <2>1. TimerAgrees(s, e)
    BY <1>1, <1>4, TimersForm
  <2> QED
    BY <2>1 DEF TimerAgrees, SameTimer
<1>5. Untimed(s, x, t)
  BY <1>1, <1>4, TimersForm DEF Untimed
<1> QED
  BY <1>3, <1>5

\* nd_thread_resume up to the scheduler.
LEMMA ResumeLemma ==
  ASSUME NEW s, Consistent(s), NEW t \in Thread, s.stat[t] = "SUSPEND",
         NEW r, r = nd_thread_ready_add_tail([s EXCEPT !.stat[t] = "READY"], t)
  PROVE  Readied(s, r, t) /\ r.error = s.error
<1> DEFINE z == [s.stat EXCEPT ![t] = "READY"]
           x == [s EXCEPT !.stat = z]
<1>0. s \in KernelState /\ s.stat \in [Thread -> Stat]
  BY DEF Consistent, KernelState
<1>1. r = nd_thread_ready_add_tail(x, t)
  BY <1>0 DEF KernelState
<1>2. z \in [Thread -> Stat] /\ z = [s.stat EXCEPT ![t] = "READY"]
  BY <1>0 DEF Stat
<1> HIDE DEF z
<1>3. /\ x \in KernelState /\ x.stat = z /\ x.wait = s.wait /\ x.timers = s.timers
      /\ x.ready = s.ready /\ x.bits = s.bits /\ x.prio = s.prio /\ SameControl(s, x)
      /\ x.error = s.error /\ x.left = s.left /\ x.ran = s.ran
  BY <1>0, <1>2 DEF KernelState, SameControl
<1> HIDE DEF x
<1>3a. AccountsBut(s, x, t)
  BY <1>3 DEF AccountsBut
<1>4. s.stat[t] # "BLOCK" /\ s.stat[t] \in {"BLOCK", "SUSPEND"}
  OBVIOUS
<1>5. Unlinked(s, x, t) /\ Untimed(s, x, t)
  BY ONLY <1>3, <1>4, Consistent(s), t \in Thread, FreeLemma
<1>6. x.stat = [s.stat EXCEPT ![t] = "READY"] /\ OrderKept(s, x)
  BY <1>2, <1>3 DEF OrderKept, InOrder
<1> QED
  BY ONLY <1>1, <1>3, <1>3a, <1>4, <1>5, <1>6, Consistent(s), t \in Thread, UnblockLemma

-----------------------------------------------------------------------------
(* Timers that expire *)

\* The scheduler runs once t is READY.
LEMMA ReadiedCloseLemma ==
  ASSUME NEW s, NEW t \in Thread, NEW x, Readied(s, x, t), NEW r, r = nd_scheduler(x),
         s.stat \in [Thread -> Stat]
  PROVE  /\ Consistent(r) /\ Settled(r) /\ Urgent(r)
         /\ Steady(s) => Steady(r)
         /\ WaitsKept(s, r, t) /\ r.halting = s.halting
         /\ r.stat[t] \in {"READY", "RUNNING"} /\ r.error[t] = x.error[t]
         /\ ReadyAgree(s) => Ranked(s, r)
<1>1. /\ Consistent(x) /\ SameControl(s, x) /\ WaitsKept(s, x, t)
      /\ x.stat[t] = "READY" /\ (Steady(s) => Steady(x))
      /\ Behind(s, x)
  BY DEF Readied
<1>2. /\ Consistent(r) /\ Settled(r) /\ Urgent(r) /\ (Steady(x) => Steady(r))
      /\ WaitsKept(x, r, NoThread) /\ r.halting = x.halting
      /\ Ranked(x, r) /\ GaveWay(x, r)
  BY ONLY <1>1, r = nd_scheduler(x), CloseLemma
<1>3. WaitsKept(s, r, t)
  BY <1>1, <1>2, WaitsThenLemma
<1>4. WaitsAlike(x, r, t)
  BY <1>2, ThreadAssumption DEF WaitsKept, WaitQueue
<1>5. ReadyAgree(s) => Ranked(s, r)
  BY <1>1, <1>2, RankedThen
<1> QED
  BY <1>1, <1>2, <1>3, <1>4, <1>5 DEF WaitsAlike, SameControl

\* A thread whose pend timer has just left the tree stops waiting, with ETIMEOUT.
LEMMA PendTimeoutLemma ==
  ASSUME NEW s, Consistent(s), NEW t \in Thread, s.stat[t] = "BLOCK", Untimed(s, s, t),
         Linked(s, t), NEW r, r = nd_thread_pend_timeout(s, t)
  PROVE  /\ Consistent(r) /\ Settled(r) /\ Urgent(r)
         /\ Steady(s) => Steady(r)
         /\ WaitsKept(s, r, t) /\ r.halting = s.halting
         /\ r.stat[t] \in {"READY", "RUNNING"} /\ r.error[t] = "ETIMEOUT"
         /\ Ranked(s, r)
<1> DEFINE z == [s.stat EXCEPT ![t] = "READY"]
           y == [s.error EXCEPT ![t] = "ETIMEOUT"]
           s1 == [s EXCEPT !.stat = z, !.error = y]
           x == WaitUnlink(s1, t)
           r1 == nd_thread_ready_add_tail(x, t)
<1>0. /\ s \in KernelState /\ s.stat \in [Thread -> Stat] /\ s.error \in [Thread -> Error]
      /\ WaitsAgree(s)
  BY DEF Consistent, KernelState, Agree
<1>1. r = nd_scheduler(r1)
  BY <1>0 DEF nd_thread_pend_timeout, KernelState
<1>2. /\ y \in [Thread -> Error] /\ z \in [Thread -> Stat] /\ z = [s.stat EXCEPT ![t] = "READY"]
      /\ y[t] = "ETIMEOUT" /\ \A u \in Thread \ {t} : y[u] = s.error[u]
  BY <1>0 DEF Stat, Error
<1> HIDE DEF z, y
<1>3. /\ s1 \in KernelState /\ s1.stat = z /\ s1.error = y /\ s1.wait = s.wait /\ s1.timers = s.timers
      /\ s1.ready = s.ready /\ s1.bits = s.bits /\ s1.prio = s.prio /\ SameControl(s, s1)
      /\ s1.left = s.left /\ s1.ran = s.ran
  BY <1>0, <1>2 DEF KernelState, SameControl
<1> HIDE DEF s1
<1>4. /\ x \in KernelState /\ OnlyWait(s1, x) /\ Unlinked(s1, x, t)
      /\ OrderKept(s1, x)
  <2>1. \A p \in WaitQueue : IsInjective(s1.wait[p])
    BY <1>0, <1>3 DEF WaitsAgree
  <2>2. x = WaitRemove(s1, t)
    BY <1>3 DEF WaitUnlink, Linked
  <2> HIDE DEF x
  <2> QED
    BY ONLY <1>3, <2>1, <2>2, t \in Thread, WaitRemoveLemma
<1> HIDE DEF x
<1>5. /\ x.stat = z /\ x.timers = s.timers /\ x.ready = s.ready /\ x.bits = s.bits
      /\ x.prio = s.prio /\ SameControl(s, x) /\ Unlinked(s, x, t) /\ x.error = y
      /\ x.left = s.left /\ x.ran = s.ran
  BY <1>3, <1>4, OnlyWaitFrame DEF SameControl, Unlinked
<1>5a. AccountsBut(s, x, t)
  BY <1>5 DEF AccountsBut
<1>6. Untimed(s, x, t) /\ OrderKept(s, x)
  BY <1>3, <1>4, <1>5 DEF Untimed, OrderKept, InOrder
<1>7. /\ x.stat = [s.stat EXCEPT ![t] = "READY"] /\ s.stat[t] \in {"BLOCK", "SUSPEND"}
      /\ \A u \in Thread \ {t} : x.error[u] = s.error[u]
  BY <1>2, <1>5
<1>8. Readied(s, r1, t) /\ r1.error[t] = "ETIMEOUT" /\ r1.stat[t] = "READY"
  <2>1. r1 = nd_thread_ready_add_tail(x, t)
    OBVIOUS
  <2> HIDE DEF r1
  <2>2. Readied(s, r1, t) /\ r1.error = x.error
    BY ONLY <1>4, <1>5, <1>5a, <1>6, <1>7, <2>1, Consistent(s), t \in Thread, UnblockLemma
  <2> QED
    BY <1>0, <1>2, <1>5, <2>2 DEF Readied
<1> HIDE DEF r1
<1> QED
  <2>1. s.stat \in [Thread -> Stat] /\ Readied(s, r1, t) /\ ReadyAgree(s)
    BY <1>0, <1>8 DEF Consistent, Agree
  <2>2. /\ Consistent(r) /\ Settled(r) /\ Urgent(r)
        /\ Steady(s) => Steady(r)
        /\ WaitsKept(s, r, t) /\ r.halting = s.halting
        /\ r.stat[t] \in {"READY", "RUNNING"} /\ r.error[t] = r1.error[t]
        /\ Ranked(s, r)
    BY ONLY <1>1, <2>1, t \in Thread, ReadiedCloseLemma
  <2> QED
    BY <1>8, <2>2

\* A thread whose delay is over.
LEMMA DelayTimeoutLemma ==
  ASSUME NEW s, Consistent(s), NEW t \in Thread, s.stat[t] = "BLOCK", Untimed(s, s, t),
         ~Linked(s, t),
         NEW r, r = thread_timer_callback(s, t)
  PROVE  /\ Consistent(r) /\ Settled(r) /\ Urgent(r)
         /\ Steady(s) => Steady(r)
         /\ WaitsKept(s, r, t) /\ r.halting = s.halting
         /\ r.stat[t] \in {"READY", "RUNNING"} /\ r.error[t] = s.error[t]
         /\ Ranked(s, r)
<1> DEFINE z == [s.stat EXCEPT ![t] = "READY"]
           l == IF Slice[t] # 0 THEN Slice[t] ELSE s.left[t]
           w == IF Slice[t] # 0 THEN -1 ELSE s.ran[t]
           y == [s.left EXCEPT ![t] = l]
           v == [s.ran EXCEPT ![t] = w]
           x == [s EXCEPT !.stat = z, !.left = y, !.ran = v]
           r1 == nd_thread_ready_add_tail(x, t)
<1>0. /\ s \in KernelState /\ s.stat \in [Thread -> Stat] /\ s.left \in [Thread -> Nat]
      /\ s.ran \in [Thread -> Nat \cup {-1}] /\ WaitsAgree(s) /\ Slice[t] \in Nat
  BY SliceAssumption DEF Consistent, KernelState, Agree
<1>1. r = nd_scheduler(r1)
  BY <1>0 DEF thread_timer_callback, KernelState
<1>2. l \in Nat /\ w \in Nat \cup {-1} /\ (s.left[t] <= Slice[t] => l <= Slice[t])
  BY <1>0
<1> HIDE DEF l, w
<1>3. /\ y \in [Thread -> Nat] /\ v \in [Thread -> Nat \cup {-1}]
      /\ z \in [Thread -> Stat] /\ z = [s.stat EXCEPT ![t] = "READY"]
      /\ y[t] = l /\ \A u \in Thread \ {t} : y[u] = s.left[u] /\ v[u] = s.ran[u]
  BY <1>0, <1>2 DEF Stat
<1> HIDE DEF z, y, v
<1>4. /\ x \in KernelState /\ x.stat = z /\ x.wait = s.wait /\ x.timers = s.timers
      /\ x.ready = s.ready /\ x.bits = s.bits /\ x.prio = s.prio /\ SameControl(s, x)
      /\ x.error = s.error /\ x.left = y /\ x.ran = v
  BY <1>0, <1>3 DEF KernelState, SameControl
<1> HIDE DEF x
<1>4a. AccountsBut(s, x, t)
  BY <1>2, <1>3, <1>4 DEF AccountsBut
<1>5. Unlinked(s, x, t) /\ Untimed(s, x, t)
  BY <1>0, <1>4 DEF Unlinked, Untimed, Linked, WaitsAgree
<1>6. /\ x.stat = [s.stat EXCEPT ![t] = "READY"] /\ s.stat[t] \in {"BLOCK", "SUSPEND"}
      /\ OrderKept(s, x)
  BY <1>3, <1>4 DEF OrderKept, InOrder
<1>7. Readied(s, r1, t) /\ r1.error = s.error
  <2>1. r1 = nd_thread_ready_add_tail(x, t)
    OBVIOUS
  <2> HIDE DEF r1
  <2> QED
    BY ONLY <1>4, <1>4a, <1>5, <1>6, <2>1, Consistent(s), t \in Thread, UnblockLemma
<1> HIDE DEF r1
<1> QED
  <2>1. s.stat \in [Thread -> Stat] /\ Readied(s, r1, t) /\ ReadyAgree(s)
    BY <1>0, <1>7 DEF Consistent, Agree
  <2>2. /\ Consistent(r) /\ Settled(r) /\ Urgent(r)
        /\ Steady(s) => Steady(r)
        /\ WaitsKept(s, r, t) /\ r.halting = s.halting
        /\ r.stat[t] \in {"READY", "RUNNING"} /\ r.error[t] = r1.error[t]
        /\ Ranked(s, r)
    BY ONLY <1>1, <2>1, t \in Thread, ReadiedCloseLemma
  <2> QED
    BY <1>7, <2>2

\* The current thread's slice is over: it asks to be rotated.
LEMMA SliceTimeoutLemma ==
  ASSUME NEW s, Consistent(s), Settled(s), NEW t \in Thread,
         \A e : Contains(s.timers, e) => e.cb # "slice",
         NEW r, r = nd_thread_slice_timeout(s, t)
  PROVE  /\ Consistent(r) /\ Settled(r)
         /\ Steady(s) => Steady(r)
         /\ Urgent(s) => Urgent(r)
         /\ WaitsKept(s, r, NoThread) /\ r.halting = s.halting
         /\ Ranked(s, r)
<1> DEFINE y == [s.yield EXCEPT ![t] = TRUE]
           l == [s.left EXCEPT ![t] = 0]
           w == [s.ran EXCEPT ![t] = -1]
           x == [s EXCEPT !.yield = y, !.left = l, !.ran = w]
<1>0. /\ s \in KernelState /\ s.yield \in [Thread -> BOOLEAN] /\ s.left \in [Thread -> Nat]
      /\ s.ran \in [Thread -> Nat \cup {-1}] /\ Agree(s)
  BY DEF Consistent, KernelState
<1>1. r = s \/ r = nd_scheduler(x)
  BY <1>0 DEF nd_thread_slice_timeout, KernelState
<1>2. /\ y \in [Thread -> BOOLEAN] /\ l \in [Thread -> Nat] /\ w \in [Thread -> Nat \cup {-1}]
      /\ \A u \in Thread : l[u] <= s.left[u]
  BY <1>0
<1> HIDE DEF y, l, w
<1>3. /\ x \in KernelState /\ x.stat = s.stat /\ x.wait = s.wait /\ x.timers = s.timers
      /\ x.ready = s.ready /\ x.bits = s.bits /\ x.prio = s.prio /\ SameControl(s, x)
      /\ x.error = s.error /\ x.left = l
  BY <1>0, <1>2 DEF KernelState, SameControl
<1> HIDE DEF x
<1>3a. SlicesAgree(x)
  <2>1. (\A u \in Thread : s.left[u] <= Slice[u]) /\ InTime(s.timers)
    BY <1>0 DEF Agree, SlicesAgree
  <2>2. \A u \in Thread : x.left[u] <= Slice[u]
    BY <1>0, <1>2, <1>3, <2>1, SliceAssumption
  <2> QED
    BY <1>3, <2>1, <2>2, SlicesForm DEF SliceAgrees
<1>4. Agree(x)
  BY <1>0, <1>3, <1>3a DEF Agree, ReadyAgree, WaitsAgree, TimersAgree, TimerAgrees, Linked,
                    CurrentAgrees, SwitchAgrees, SameControl
<1>5. Consistent(x) /\ (Steady(s) => Steady(x))
  BY <1>3, <1>4, ConsistentLemma DEF Steady, SameControl
<1>6. CASE r = s
  <2>1. WaitsKept(s, s, NoThread) /\ Ranked(s, s)
    BY WaitsSameLemma, BehindSame, RankedBehind
  <2> QED
    BY <1>6, <2>1
<1>7. CASE r = nd_scheduler(x)
  <2>1. /\ Consistent(r) /\ Settled(r) /\ Urgent(r) /\ (Steady(x) => Steady(r))
        /\ WaitsKept(x, r, NoThread) /\ r.halting = x.halting
        /\ Ranked(x, r) /\ GaveWay(x, r)
    BY ONLY <1>5, <1>7, CloseLemma
  <2>2. WaitsKept(s, x, NoThread)
    BY <1>3, WaitsSameLemma
  <2>3. Ranked(s, r)
    <3>1. ReadyAgree(s) /\ Behind(s, x)
      BY <1>0, <1>3, BehindSame DEF Agree
    <3> QED
      BY ONLY <2>1, <3>1, RankedThen
  <2> QED
    BY <1>3, <1>5, <2>1, <2>2, <2>3, WaitsThenLemma DEF SameControl
<1> QED
  BY <1>1, <1>6, <1>7

\* The earliest timer leaves the tree.
LEMMA TailLemma ==
  ASSUME NEW ts \in Seq(Timer), OnceEach(ts), ts # <<>>
  PROVE  /\ Tail(ts) \in Seq(Timer) /\ OnceEach(Tail(ts)) /\ Head(ts) \in Timer
         /\ InTime(ts) => InTime(Tail(ts))
         /\ Contains(ts, Head(ts))
         /\ \A e : Contains(Tail(ts), e) <=> Contains(ts, e) /\ e # Head(ts)
<1>1. 1 \in 1..Len(ts) /\ Head(ts) = ts[1] /\ Len(ts) \in Nat
  OBVIOUS
<1>2. Tail(ts) = RemoveAt(ts, 1)
  <2>1. /\ RemoveAt(ts, 1) \in Seq(Timer) /\ Len(RemoveAt(ts, 1)) = Len(ts) - 1
        /\ \A i \in 1..(Len(ts) - 1) : RemoveAt(ts, 1)[i] = IF i < 1 THEN ts[i] ELSE ts[i + 1]
    BY <1>1, RemoveAtLemma
  <2>2. /\ Tail(ts) \in Seq(Timer) /\ Len(Tail(ts)) = Len(ts) - 1
        /\ \A i \in 1..(Len(ts) - 1) : Tail(ts)[i] = ts[i + 1]
    BY <1>1
  <2> DEFINE u == RemoveAt(ts, 1)
             v == Tail(ts)
  <2>3. /\ u \in Seq(Timer) /\ v \in Seq(Timer) /\ Len(u) = Len(v)
        /\ \A i \in 1..Len(u) : u[i] = v[i]
    BY <1>1, <2>1, <2>2
  <2> HIDE DEF u, v
  <2>4. u = v
    BY <2>3, SeqEqual
  <2> QED
    BY <2>4 DEF u, v
<1> DEFINE u == Tail(ts)
<1>3. u = RemoveAt(ts, 1)
  BY <1>2
<1> HIDE DEF u
<1>4. /\ u \in Seq(Timer) /\ OnceEach(u) /\ (InTime(ts) => InTime(u))
      /\ \A e : Contains(u, e) <=> Contains(ts, e) /\ e # ts[1]
  BY <1>1, <1>3, RemoveTimerLemma
<1>5. Head(ts) \in Timer /\ Contains(ts, Head(ts))
  BY EmptyLemma
<1> QED
  BY <1>1, <1>4, <1>5 DEF u

\* Its timer has made t READY; the scheduler may have let it run since.
Awoken(s, r, t) ==
  /\ s.stat[t] = "BLOCK" /\ r.stat[t] \in {"READY", "RUNNING"}
  /\ r.error[t] = IF Linked(s, t) THEN "ETIMEOUT" ELSE s.error[t]

Expired(s, r) ==
  \/ WaitsKept(s, r, NoThread)
  \/ \E t \in Thread : WaitsKept(s, r, t) /\ Awoken(s, r, t)

\* timer_expired, one turn: whatever the callback does, the kernel stays consistent.
LEMMA ExpireLemma ==
  ASSUME NEW s, Consistent(s), Settled(s), NEW r, r = ExpireOne(s)
  PROVE  /\ Consistent(r) /\ Settled(r)
         /\ Steady(s) => Steady(r)
         /\ Urgent(s) => Urgent(r)
         /\ Expired(s, r) /\ r.halting = s.halting
         /\ Ranked(s, r)
<1> DEFINE e == Head(s.timers)
           ts == Tail(s.timers)
           s1 == [s EXCEPT !.timers = ts]
<1>0. /\ s \in KernelState /\ Agree(s) /\ TimersAgree(s) /\ OnceEach(s.timers)
      /\ s.timers \in Seq(Timer)
  BY DEF Consistent, Agree, TimersAgree, KernelState
<1>1. CASE s.timers = <<>> \/ (s.timers # <<>> /\ e.left > 0)
  <2>1. r = [s EXCEPT !.expiring = FALSE]
    BY <1>1 DEF ExpireOne
  <2>2. /\ r \in KernelState /\ r.stat = s.stat /\ r.wait = s.wait /\ r.timers = s.timers
        /\ r.ready = s.ready /\ r.bits = s.bits /\ r.prio = s.prio
        /\ r.cur = s.cur /\ r.next = s.next /\ r.pendsv = s.pendsv /\ r.nest = s.nest
        /\ r.try = s.try /\ r.isr = s.isr /\ r.halting = s.halting /\ r.fault = s.fault
        /\ r.error = s.error /\ r.left = s.left /\ r.ran = s.ran
    BY <1>0, <2>1 DEF KernelState
  <2>2a. SlicesAgree(r)
    <3>1. SlicesAgree(s) /\ InTime(s.timers)
      BY <1>0 DEF Agree, SlicesAgree
    <3>2. \A x : Contains(s.timers, x) => x.left # 0
      <4>1. CASE s.timers = <<>>
        BY <4>1 DEF Contains
      <4>2. CASE s.timers # <<>>
        <5>1. /\ e = s.timers[1] /\ DOMAIN s.timers = 1..Len(s.timers) /\ 1 \in DOMAIN s.timers
              /\ e.left > 0
          BY <1>0, <1>1, <4>2
        <5>2. \A i \in DOMAIN s.timers : s.timers[i] \in Timer
          BY <1>0
        <5>3. \A i \in DOMAIN s.timers : s.timers[i].left \in Nat
          BY <5>2 DEF Timer
        <5> HIDE DEF e
        <5>4. ASSUME NEW i \in DOMAIN s.timers PROVE s.timers[i].left # 0
          <6>1. i = 1 \/ 1 < i
            BY <5>1
          <6>2. e.left <= s.timers[i].left
            BY <3>1, <5>1, <5>3, <6>1 DEF InTime
          <6> QED
            BY <5>1, <5>3, <6>2
        <5> QED
          BY <5>1, <5>4 DEF Contains
      <4> QED
        BY <4>1, <4>2
    <3>3. \A x : Contains(r.timers, x) => SliceAgrees(r, x)
      BY <1>0, <2>2, <3>1, <3>2, SlicesForm DEF SliceAgrees
    <3> QED
      BY <1>0, <2>2, <3>1, <3>3, SlicesForm
  <2>3. Agree(r)
    BY <1>0, <2>2, <2>2a DEF Agree, ReadyAgree, WaitsAgree, TimersAgree, TimerAgrees, Linked,
                      CurrentAgrees, SwitchAgrees
  <2>4. WaitsKept(s, r, NoThread) /\ Ranked(s, r)
    BY <2>2, WaitsSameLemma, BehindSame, RankedBehind
  <2>5. Urgent(s) => Urgent(r)
    BY <2>2 DEF Urgent, MostUrgent
  <2> QED
    BY <2>2, <2>3, <2>4, <2>5
    DEF Consistent, NestCounts, Open, DeadUnwaited, Settled, Booted, Steady, Expired
<1>2. CASE s.timers # <<>> /\ ~(e.left > 0)
  <2>1. /\ ts \in Seq(Timer) /\ OnceEach(ts) /\ e \in Timer /\ Contains(s.timers, e)
        /\ InTime(s.timers) => InTime(ts)
        /\ \A x : Contains(ts, x) <=> Contains(s.timers, x) /\ x # e
    BY <1>0, <1>2, TailLemma
  <2>2. /\ e.cb = "slice" => r = nd_thread_slice_timeout(s1, e.who)
        /\ e.cb = "pend" => r = nd_thread_pend_timeout(s1, e.who)
        /\ e.cb = "delay" => r = thread_timer_callback(s1, e.who)
        /\ e.cb \in {"slice", "pend", "delay"} /\ e.who \in Thread
    BY <1>2, <2>1 DEF ExpireOne, Timer
  <2> HIDE DEF e, ts
  <2>3. /\ s1 \in KernelState /\ s1.stat = s.stat /\ s1.wait = s.wait /\ s1.timers = ts
        /\ s1.ready = s.ready /\ s1.bits = s.bits /\ s1.prio = s.prio /\ SameControl(s, s1)
        /\ s1.error = s.error /\ s1.left = s.left /\ s1.ran = s.ran
    BY <1>0, <2>1 DEF KernelState, SameControl
  <2> HIDE DEF s1
  <2>4. TimersAgree(s1)
    <3>1. ASSUME NEW x, Contains(ts, x) PROVE TimerAgrees(s1, x)
      <4>1. TimerAgrees(s, x)
        BY <1>0, <2>1, <3>1, TimersForm
      <4> QED
        BY <2>3, <4>1 DEF TimerAgrees, Linked, SameControl
    <3> QED
      BY <2>1, <2>3, <3>1, TimersForm
  <2>4a. SlicesAgree(s1)
    <3>1. /\ SlicesAgree(s) /\ InTime(s1.timers) /\ s1.expiring = s.expiring
          /\ \A t \in Thread : s1.left[t] <= Slice[t]
      BY <1>0, <2>1, <2>3 DEF Agree, SlicesAgree, SameControl
    <3> QED
      BY <1>0, <2>1, <2>3, <3>1, SlicesFewerLemma
  <2>5. Agree(s1)
    BY <1>0, <2>3, <2>4, <2>4a DEF Agree, ReadyAgree, WaitsAgree, Linked, CurrentAgrees,
                            SwitchAgrees, SameControl
  <2>6. Consistent(s1) /\ Settled(s1) /\ (Steady(s) => Steady(s1))
    BY <2>3, <2>5, ConsistentLemma DEF Steady, SameControl, Settled, Booted
  <2>7. TimerAgrees(s, e)
    BY <1>0, <2>1, TimersForm
  <2>8. e.cb # "slice" => /\ s1.stat[e.who] = "BLOCK" /\ Untimed(s1, s1, e.who)
                          /\ (e.cb = "pend") <=> Linked(s1, e.who)
    <3> SUFFICES ASSUME e.cb # "slice"
                 PROVE  /\ s1.stat[e.who] = "BLOCK" /\ Untimed(s1, s1, e.who)
                        /\ (e.cb = "pend") <=> Linked(s1, e.who)
      OBVIOUS
    <3>1. s1.stat[e.who] = "BLOCK" /\ ((e.cb = "pend") <=> Linked(s1, e.who))
      BY <2>3, <2>7 DEF TimerAgrees, Linked
    <3>2. \A x : Contains(s.timers, x) /\ SameTimer(x, e.who, FALSE) => x = e
      BY <1>0, <2>1 DEF OnceEach, SameTimer, Contains
    <3> QED
      BY <2>1, <2>3, <3>1, <3>2 DEF Untimed
  <2>12. /\ Urgent(s) => Urgent(s1)
         /\ s1.halting = s.halting
    BY <2>3 DEF Urgent, MostUrgent, SameControl
  <2>13. /\ OrderKept(s, s1)
         /\ \A u : \A q \in WaitQueue : Contains(s1.wait[q], u) <=> Contains(s.wait[q], u)
         /\ \A u : u # e.who \/ e.cb = "slice" => (Delayed(s1, u) <=> Delayed(s, u))
    BY <2>1, <2>3 DEF OrderKept, InOrder, Delayed
  <2>9. CASE e.cb = "slice"
    <3>1. r = nd_thread_slice_timeout(s1, e.who) /\ e.who \in Thread
      BY <2>2, <2>9
    <3>1a. \A x : Contains(s1.timers, x) => x.cb # "slice"
      <4> SUFFICES ASSUME NEW x, Contains(s1.timers, x), x.cb = "slice" PROVE FALSE
        OBVIOUS
      <4>1. Contains(s.timers, x) /\ x # e
        BY <2>1, <2>3
      <4>2. x.who = s.cur /\ e.who = s.cur
        BY <1>0, <2>7, <2>9, <4>1, TimersForm DEF TimerAgrees
      <4>3. x = e
        BY <1>0, <2>1, <2>9, <4>1, <4>2 DEF OnceEach, SameTimer, Contains
      <4> QED
        BY <4>1, <4>3
    <3>2. /\ Consistent(r) /\ Settled(r) /\ (Steady(s1) => Steady(r))
          /\ (Urgent(s1) => Urgent(r)) /\ WaitsKept(s1, r, NoThread) /\ r.halting = s1.halting
          /\ Ranked(s1, r)
      BY ONLY <2>6, <3>1, <3>1a, SliceTimeoutLemma
    <3>3. WaitsKept(s, s1, NoThread)
      BY <2>3, <2>9, <2>13 DEF WaitsKept, WaitsAlike
    <3>4. WaitsKept(s, r, NoThread)
      BY <3>2, <3>3, WaitsThenLemma
    <3>5. Ranked(s, r)
      BY <2>3, <3>2, RankedSame
    <3> QED
      BY <2>6, <2>12, <3>2, <3>4, <3>5 DEF Expired
  <2>14. CASE e.cb # "slice"
    <3>1. /\ e.who \in Thread /\ s1.stat[e.who] = "BLOCK" /\ Untimed(s1, s1, e.who)
          /\ (e.cb = "pend") <=> Linked(s1, e.who)
      BY <2>2, <2>8, <2>14
    <3>2. WaitsKept(s, s1, e.who)
      BY <2>3, <2>13 DEF WaitsKept, WaitsAlike
    <3>3. s.stat[e.who] = "BLOCK" /\ ((e.cb = "pend") <=> Linked(s, e.who))
      BY <2>7, <2>14 DEF TimerAgrees
    <3>4. /\ Consistent(r) /\ Settled(r) /\ Urgent(r) /\ (Steady(s1) => Steady(r))
          /\ WaitsKept(s1, r, e.who) /\ r.halting = s1.halting
          /\ Ranked(s1, r)
          /\ r.stat[e.who] \in {"READY", "RUNNING"}
          /\ r.error[e.who] = IF e.cb = "pend" THEN "ETIMEOUT" ELSE s1.error[e.who]
      <4>1. CASE e.cb = "pend"
        <5>1. r = nd_thread_pend_timeout(s1, e.who) /\ Linked(s1, e.who)
          BY <2>2, <3>1, <4>1
        <5>2. /\ Consistent(r) /\ Settled(r) /\ Urgent(r) /\ (Steady(s1) => Steady(r))
              /\ WaitsKept(s1, r, e.who) /\ r.halting = s1.halting
              /\ Ranked(s1, r)
              /\ r.stat[e.who] \in {"READY", "RUNNING"} /\ r.error[e.who] = "ETIMEOUT"
          BY ONLY <2>6, <3>1, <5>1, PendTimeoutLemma
        <5> QED
          BY <4>1, <5>2
      <4>2. CASE e.cb = "delay"
        <5>1. r = thread_timer_callback(s1, e.who) /\ ~Linked(s1, e.who)
          BY <2>2, <3>1, <4>2
        <5>2. /\ Consistent(r) /\ Settled(r) /\ Urgent(r) /\ (Steady(s1) => Steady(r))
              /\ WaitsKept(s1, r, e.who) /\ r.halting = s1.halting
              /\ Ranked(s1, r)
              /\ r.stat[e.who] \in {"READY", "RUNNING"} /\ r.error[e.who] = s1.error[e.who]
          BY ONLY <2>6, <3>1, <5>1, DelayTimeoutLemma
        <5> QED
          BY <4>2, <5>2
      <4> QED
        BY <2>2, <2>14, <4>1, <4>2
    <3>5. WaitsKept(s, r, e.who)
      BY <3>2, <3>4, WaitsThenLemma
    <3>6. Awoken(s, r, e.who)
      BY <2>3, <3>3, <3>4 DEF Awoken
    <3>7. Ranked(s, r)
      BY <2>3, <3>4, RankedSame
    <3> QED
      BY <2>6, <2>12, <3>1, <3>4, <3>5, <3>6, <3>7 DEF Expired
  <2> QED
    BY <2>9, <2>14
<1> QED
  BY <1>1, <1>2

-----------------------------------------------------------------------------
(* Blocking *)

\* nd_thread_pend: the running thread gives way and joins the list of q.  Nobody can
\* wait for a thread that does not exist, hence the condition on q.
LEMMA PendLemma ==
  ASSUME NEW s, Consistent(s), s.cur \in Thread \ {Idle}, s.stat[s.cur] = "RUNNING",
         NEW q \in WaitQueue, q \in Thread => s.stat[q] \notin {"INIT", "DEAD"},
         NEW timeout \in Nat \cup {Forever},
         NEW r, r = nd_thread_pend(s, q, timeout)
  PROVE  /\ Consistent(r) /\ SameControl(s, r)
         /\ r.stat = [s.stat EXCEPT ![s.cur] = "BLOCK"]
         /\ Steady(s) => Steady(r)
         /\ WaitsKept(s, r, s.cur) /\ r.error[s.cur] = "EOK"
         /\ \A p \in WaitQueue : Contains(r.wait[p], s.cur) <=> p = q
         /\ Behind(s, r)
<1> DEFINE c == s.cur
           s0 == WaitInsert(s, q, c)
           y == [s.error EXCEPT ![c] = "EOK"]
           z == [s.stat EXCEPT ![c] = "BLOCK"]
           s1 == [s0 EXCEPT !.error = y, !.stat = z]
<1>0. /\ s \in KernelState /\ WaitsAgree(s) /\ TimersAgree(s) /\ OnceEach(s.timers)
      /\ ReadyAgree(s) /\ CurrentAgrees(s) /\ SwitchAgrees(s) /\ ~s.pendsv
      /\ s.stat \in [Thread -> Stat] /\ s.error \in [Thread -> Error] /\ c \in Thread
      /\ \A p \in WaitQueue : IsInjective(s.wait[p])
  BY DEF Consistent, Agree, KernelState, TimersAgree, WaitsAgree, SwitchAgrees
<1>1. ~Linked(s, c) /\ s.stat[c] # "BLOCK"
  BY <1>0 DEF WaitsAgree
<1>2. r = IF timeout = Forever THEN [s0 EXCEPT !.error[c] = "EOK", !.stat[c] = "BLOCK"]
          ELSE nd_timer_start([s0 EXCEPT !.error[c] = "EOK", !.stat[c] = "BLOCK"], c, "pend", timeout)
  BY DEF nd_thread_pend
<1> DEFINE v == s0
<1>3. /\ v \in KernelState /\ OnlyWait(s, v) /\ Joined(s, v, q, c)
      /\ OrderKept(s, v)
  <2>1. v = WaitInsert(s, q, c) /\ ~Contains(s.wait[q], c)
    BY <1>1 DEF Linked
  <2> HIDE DEF v, c
  <2> QED
    BY ONLY <1>0, <2>1, q \in WaitQueue, WaitInsertLemma
<1>4. s0.error = s.error /\ s0.stat = s.stat
  BY <1>0, <1>3, OnlyWaitFrame
<1>5. r = IF timeout = Forever THEN s1 ELSE nd_timer_start(s1, c, "pend", timeout)
  BY <1>2, <1>3, <1>4 DEF KernelState
<1>6. /\ y \in [Thread -> Error] /\ z \in [Thread -> Stat]
      /\ z[c] = "BLOCK" /\ \A t \in Thread : t # c => z[t] = s.stat[t]
      /\ y[c] = "EOK" /\ \A t \in Thread : t # c => y[t] = s.error[t]
  BY <1>0 DEF Stat, Error
<1>7. z = [s.stat EXCEPT ![s.cur] = "BLOCK"]
  OBVIOUS
<1> HIDE DEF v, s0, y, z
<1>8. /\ s1 \in KernelState /\ s1.stat = z /\ s1.error = y /\ s1.wait = s0.wait /\ s1.timers = s.timers
      /\ s1.ready = s.ready /\ s1.bits = s.bits /\ s1.prio = s.prio /\ SameControl(s, s1)
      /\ s1.left = s.left /\ s1.ran = s.ran
  <2>1. /\ s0 \in KernelState /\ OnlyWait(s, s0)
    BY <1>3 DEF v
  <2>2. /\ s1 \in KernelState /\ s1.stat = z /\ s1.error = y /\ s1.wait = s0.wait /\ s1.timers = s0.timers
        /\ s1.ready = s0.ready /\ s1.bits = s0.bits /\ s1.prio = s0.prio
        /\ SameControl(s0, s1) /\ s1.left = s0.left /\ s1.ran = s0.ran
    BY <1>6, <2>1 DEF KernelState, SameControl
  <2> HIDE DEF s1
  <2> QED
    BY <1>0, <2>1, <2>2, OnlyWaitFrame DEF SameControl
<1>9. /\ \A p \in WaitQueue : IsInjective(s1.wait[p])
      /\ \A p \in WaitQueue : \A u :
           Contains(s1.wait[p], u) <=> Contains(s.wait[p], u) \/ (p = q /\ u = c)
      /\ \A p \in WaitQueue : p # q => s1.wait[p] = s.wait[p]
  BY <1>3, <1>8 DEF v, Joined
<1> HIDE DEF s1
<1>10. /\ r \in KernelState /\ OnceEach(r.timers)
       /\ r.stat = z /\ r.wait = s1.wait /\ r.ready = s.ready /\ r.bits = s.bits
       /\ r.prio = s.prio /\ SameControl(s, r) /\ r.error = y
       /\ r.left = s.left /\ r.ran = s.ran /\ (InTime(s.timers) => InTime(r.timers))
       /\ \A e : Contains(s.timers, e) /\ e.cb # "slice" /\ e.who # c => Contains(r.timers, e)
       /\ \A e : Contains(r.timers, e) =>
            \/ Contains(s.timers, e)
            \/ e.who = c /\ e.cb = "pend"
  <2>1. CASE timeout = Forever
    BY <1>0, <1>5, <1>8, <2>1
  <2>2. CASE timeout # Forever
    <3>1. r = nd_timer_start(s1, c, "pend", timeout) /\ timeout \in Nat
      BY <1>5, <2>2
    <3>2. "pend" \in {"slice", "pend", "delay"} /\ OnceEach(s1.timers) /\ c \in Thread
      BY <1>0, <1>8
    <3> HIDE DEF c
    <3>3. /\ r \in KernelState /\ OnlyTimers(s1, r) /\ OnceEach(r.timers)
          /\ InTime(s1.timers) => InTime(r.timers)
          /\ \A e : Contains(r.timers, e) <=>
               \/ Contains(s1.timers, e) /\ ~SameTimer(e, c, "pend" = "slice")
               \/ e = [who |-> c, cb |-> "pend", left |-> timeout]
      BY ONLY <1>8, <3>1, <3>2, TimerStartLemma
    <3>4. /\ \A e : Contains(r.timers, e) => Contains(s.timers, e) \/ (e.who = c /\ e.cb = "pend")
          /\ \A e : Contains(s.timers, e) /\ e.cb # "slice" /\ e.who # c => Contains(r.timers, e)
      BY <1>8, <3>3 DEF SameTimer
    <3>5. r.stat = z /\ r.wait = s1.wait /\ r.ready = s.ready /\ r.bits = s.bits
          /\ r.prio = s.prio /\ SameControl(s, r) /\ r.error = y
          /\ r.left = s.left /\ r.ran = s.ran /\ s1.timers = s.timers
      BY <1>8, <3>3, OnlyTimersFrame DEF SameControl
    <3> QED
      BY <3>3, <3>4, <3>5
  <2> QED
    BY <2>1, <2>2
<1>11. /\ \A u : Linked(r, u) <=> Linked(s, u) \/ u = c
  BY <1>9, <1>10 DEF Linked
<1>12. ReadyAgree(r)
  BY <1>0, <1>6, <1>10 DEF ReadyAgree
<1>13. WaitsAgree(r)
  BY <1>0, <1>6, <1>9, <1>10, <1>11 DEF WaitsAgree
<1>14. TimersAgree(r)
  <2>1. ASSUME NEW e, Contains(r.timers, e) PROVE TimerAgrees(r, e)
    <3>1. CASE e.who = c /\ e.cb = "pend"
      BY <1>6, <1>10, <1>11, <3>1 DEF TimerAgrees
    <3>2. CASE Contains(s.timers, e)
      <4>1. TimerAgrees(s, e) /\ e \in Timer
        BY <1>0, <3>2, TimersForm
      <4>2. e.who \in Thread
        BY <4>1 DEF Timer
      <4> QED
        BY <1>1, <1>6, <1>10, <1>11, <4>1, <4>2 DEF TimerAgrees, SameControl
    <3> QED
      BY <1>10, <2>1, <3>1, <3>2
  <2> QED
    BY <1>10, <2>1, TimersForm
<1>14a. SlicesAgree(r)
  <2>1. /\ SlicesAgree(s) /\ InTime(r.timers) /\ r.expiring = s.expiring
        /\ \A t \in Thread : r.left[t] <= Slice[t]
    BY <1>10 DEF Consistent, Agree, SlicesAgree, SameControl
  <2>2. \A e : Contains(r.timers, e) /\ e.cb = "slice" => Contains(s.timers, e)
    BY <1>10
  <2>3. \A t \in Thread : r.stat[t] = "RUNNING" => s.stat[t] = "RUNNING"
    BY <1>6, <1>10
  <2> QED
    BY <1>0, <1>10, <2>1, <2>2, <2>3, SlicesFewerLemma
<1>15. CurrentAgrees(r) /\ SwitchAgrees(r)
  BY <1>0, <1>6, <1>10, ThreadAssumption DEF CurrentAgrees, SwitchAgrees, SameControl
<1>16. NestCounts(r) /\ (r.try => r.isr # <<>>) /\ (Steady(s) => Steady(r))
  BY <1>0, <1>10 DEF Consistent, NestCounts, Open, SameControl, Steady
<1>17. DeadUnwaited(r)
  <2> SUFFICES ASSUME NEW t \in Thread, r.stat[t] \in {"INIT", "DEAD"}, r.halting # t
               PROVE  r.wait[t] = <<>>
    BY DEF DeadUnwaited
  <2>1. s.stat[t] \in {"INIT", "DEAD"} /\ s.halting # t /\ t # q /\ t \in WaitQueue
    BY <1>6, <1>10 DEF SameControl, WaitQueue
  <2> QED
    BY <1>9, <1>10, <2>1 DEF Consistent, DeadUnwaited
<1>18. WaitsKept(s, r, c)
  <2>1. OrderKept(s, r)
    <3>1. OnlyWait(s, s0) /\ OrderKept(s, s0) /\ s0.prio = s.prio /\ s0.wait = r.wait
      BY <1>0, <1>3, <1>8, <1>10, OnlyWaitFrame DEF v
    <3> QED
      BY <1>10, <3>1 DEF OrderKept, InOrder
  <2>2. ASSUME NEW t \in Thread, t # c PROVE Delayed(r, t) <=> Delayed(s, t)
    <3>1. ASSUME Delayed(s, t) PROVE Delayed(r, t)
      <4>1. PICK e : Contains(s.timers, e) /\ e.who = t /\ e.cb = "delay"
        BY <3>1 DEF Delayed
      <4>2. Contains(r.timers, e)
        BY <1>10, <2>2, <4>1
      <4> QED
        BY <4>1, <4>2 DEF Delayed
    <3> QED
      BY <1>10, <2>2, <3>1 DEF Delayed
  <2>3. ASSUME NEW t \in Thread, t # c PROVE WaitsAlike(s, r, t)
    BY <1>6, <1>9, <1>10, <2>2, <2>3 DEF WaitsAlike
  <2> QED
    BY <1>10, <2>1, <2>3 DEF WaitsKept
<1>19. r.error[c] = "EOK" /\ \A p \in WaitQueue : Contains(r.wait[p], c) <=> p = q
  BY <1>1, <1>6, <1>9, <1>10 DEF Linked
<1>20. Behind(s, r)
  BY <1>0, <1>6, <1>10, BehindSame
<1> QED
  BY <1>7, <1>10, <1>12, <1>13, <1>14, <1>14a, <1>15, <1>16, <1>17, <1>18, <1>19, <1>20 DEF Consistent, Agree

-----------------------------------------------------------------------------
(* Interrupts *)

\* A switch, taken at the start or by PendSV.
LEMMA SwitchLemma ==
  ASSUME NEW s, Consistent(s), NEW n \in Thread, ~s.pendsv,
         \A t \in Thread : s.stat[t] # "RUNNING", s.stat[n] # "BLOCK",
         NEW r, r = nd_context_switch_cb(s, n)
  PROVE  /\ Consistent(r) /\ Settled(r)
         /\ ~s.fault /\ s.stat[n] = "READY" => Steady(r)
         /\ (\A t \in Thread : s.stat[t] = "READY" => s.prio[n] <= s.prio[t]) => MostUrgent(r)
         /\ WaitsKept(s, r, n) /\ (s.stat[n] = "READY" => WaitsKept(s, r, NoThread))
         /\ r.halting = s.halting /\ r.wait = s.wait /\ r.stat[n] = "RUNNING"
         /\ r.try = s.try /\ r.error = s.error
<1>0. s \in KernelState /\ Agree(s) /\ s.stat \in [Thread -> Stat]
  BY DEF Consistent, KernelState
<1>1. /\ r \in KernelState /\ Agree(r)
      /\ r.cur = n /\ r.stat = [s.stat EXCEPT ![n] = "RUNNING"]
      /\ r.prio = s.prio /\ r.wait = s.wait /\ r.pendsv = s.pendsv /\ r.nest = s.nest
      /\ r.try = s.try /\ r.isr = s.isr /\ r.expiring = s.expiring
      /\ r.halting = s.halting /\ r.error = s.error
      /\ s.stat[n] = "READY" => r.fault = s.fault
      /\ ThreadTimersKept(s, r)
  BY ONLY <1>0, n \in Thread, ~s.pendsv, \A t \in Thread : s.stat[t] # "RUNNING",
          s.stat[n] # "BLOCK", r = nd_context_switch_cb(s, n), ContextSwitchLemma
<1>2. \A t \in Thread : r.stat[t] = IF t = n THEN "RUNNING" ELSE s.stat[t]
  BY <1>0, <1>1
<1>3. NestCounts(r) /\ DeadUnwaited(r) /\ (r.try => r.isr # <<>>)
  BY <1>1, <1>2 DEF Consistent, NestCounts, Open, DeadUnwaited
<1>4. Consistent(r) /\ Settled(r)
  BY <1>1, <1>2, <1>3 DEF Consistent, Settled
<1>6. WaitsKept(s, r, n) /\ (s.stat[n] = "READY" => WaitsKept(s, r, NoThread))
  <2>1. OrderKept(s, r)
    BY <1>1 DEF OrderKept, InOrder
  <2>2. \A t : Delayed(r, t) <=> Delayed(s, t)
    BY <1>1 DEF ThreadTimersKept, Delayed
  <2>3. \A t \in Thread : r.stat[t] = s.stat[t] \/ (t = n /\ r.stat[t] = "RUNNING")
    BY <1>2
  <2> QED
    BY <1>1, <2>1, <2>2, <2>3 DEF WaitsKept, WaitsAlike
<1>5. (\A t \in Thread : s.stat[t] = "READY" => s.prio[n] <= s.prio[t]) => MostUrgent(r)
  BY <1>1, <1>2 DEF MostUrgent
<1> QED
  BY <1>1, <1>2, <1>4, <1>5, <1>6 DEF Steady

\* PendSV lets the thread run that it was prepared for, whatever that has become.
Switched(s, r) ==
  \E t \in Thread : /\ WaitsKept(s, r, t) /\ s.stat[t] \notin {"INIT", "BLOCK"}
                    /\ r.stat[t] = "RUNNING" /\ r.error = s.error

\* PendSV: the switch it was pended for, to the thread it was prepared for.
LEMMA PendSVLemma ==
  ASSUME NEW s, Consistent(s), CanPendSV(s), NEW r, r = isr_pendsv(s)
  PROVE  /\ Consistent(r) /\ Settled(r)
         /\ Steady(s) => Steady(r)
         /\ Urgent(s) => Urgent(r)
         /\ Switched(s, r) /\ r.halting = s.halting
<1> DEFINE x == [s EXCEPT !.pendsv = FALSE]
           n == s.next
<1>0. /\ s \in KernelState /\ Agree(s) /\ s.pendsv /\ CurrentAgrees(s) /\ SwitchAgrees(s)
      /\ s.next \in Thread \cup {NoThread}
  BY DEF Consistent, CanPendSV, Agree, KernelState
<1>1. n \in Thread /\ s.stat[n] \notin {"INIT", "BLOCK"} /\ \A t \in Thread : s.stat[t] # "RUNNING"
  BY <1>0 DEF SwitchAgrees, CurrentAgrees
<1>2. r = nd_context_switch_cb(x, n)
  BY DEF isr_pendsv
<1>3. /\ x \in KernelState /\ ~x.pendsv /\ x.stat = s.stat /\ x.wait = s.wait
      /\ x.timers = s.timers /\ x.ready = s.ready /\ x.bits = s.bits /\ x.prio = s.prio
      /\ x.cur = s.cur /\ x.nest = s.nest /\ x.try = s.try /\ x.isr = s.isr
      /\ x.halting = s.halting /\ x.fault = s.fault /\ x.error = s.error
      /\ x.expiring = s.expiring /\ x.left = s.left /\ x.ran = s.ran
  BY <1>0 DEF KernelState
<1> HIDE DEF x, n
<1>3a. SlicesAgree(x)
  BY <1>0, <1>3, SlicesKeptLemma DEF Agree
<1>4. Consistent(x)
  BY <1>0, <1>3, <1>3a DEF Consistent, Agree, ReadyAgree, WaitsAgree, TimersAgree, TimerAgrees,
                    Linked, CurrentAgrees, SwitchAgrees, NestCounts, Open, DeadUnwaited
<1>5. \A t \in Thread : x.stat[t] # "RUNNING"
  BY <1>1, <1>3
<1>6. x.stat[n] # "BLOCK"
  BY <1>1, <1>3
<1>7. /\ Consistent(r) /\ Settled(r)
      /\ ~x.fault /\ x.stat[n] = "READY" => Steady(r)
      /\ (\A t \in Thread : x.stat[t] = "READY" => x.prio[n] <= x.prio[t]) => MostUrgent(r)
      /\ WaitsKept(x, r, n) /\ (x.stat[n] = "READY" => WaitsKept(x, r, NoThread))
      /\ r.halting = x.halting /\ r.wait = x.wait /\ r.stat[n] = "RUNNING"
      /\ r.try = x.try /\ r.error = x.error
  BY ONLY <1>1, <1>2, <1>3, <1>4, <1>5, <1>6, SwitchLemma
<1>8. WaitsKept(s, x, n)
  BY <1>3, WaitsSameLemma
<1>9. WaitsKept(s, r, n)
  BY <1>7, <1>8, WaitsThenLemma
<1>10. Urgent(s) => Urgent(r)
  BY <1>0, <1>3, <1>7 DEF Urgent, MostUrgent, n
<1> QED
  BY <1>0, <1>1, <1>3, <1>7, <1>9, <1>10 DEF Steady, Switched, n

\* Entry of a handler.
LEMMA EnterLemma ==
  ASSUME NEW s, Consistent(s), NEW src \in {"tick", "dev"},
         NEW r, r = nd_enter_interrupt(s, src)
  PROVE  /\ Consistent(r) /\ (Settled(s) => Settled(r))
         /\ Steady(s) => Steady(r)
         /\ Urgent(s) => Urgent(r)
         /\ WaitsKept(s, r, NoThread) /\ r.halting = s.halting
<1> DEFINE f == [src |-> src, done |-> FALSE]
           h == Append(s.isr, f)
           m == s.nest + 1
<1>0. /\ s \in KernelState /\ Agree(s) /\ s.isr \in Seq(Frame) /\ s.nest \in Nat
      /\ NestCounts(s) /\ Len(s.isr) \in Nat /\ DOMAIN s.isr = 1..Len(s.isr)
  BY DEF Consistent, KernelState
<1>1. f \in Frame /\ ~f.done
  BY DEF Frame
<1>2. r = [s EXCEPT !.isr = h, !.nest = m]
  BY <1>0 DEF nd_enter_interrupt, KernelState
<1> HIDE DEF f
<1>3. /\ h \in Seq(Frame) /\ m \in Nat /\ h # <<>>
      /\ DOMAIN h = 1..(Len(s.isr) + 1)
      /\ \A i \in 1..Len(s.isr) : h[i] = s.isr[i]
      /\ h[Len(s.isr) + 1] = f
  BY <1>0, <1>1
<1> HIDE DEF h
<1>4. {i \in DOMAIN h : ~h[i].done} = Open(s) \cup {Len(s.isr) + 1}
  BY <1>0, <1>1, <1>3 DEF Open
<1>5. Cardinality(Open(s) \cup {Len(s.isr) + 1}) = Cardinality(Open(s)) + 1
  <2>1. Len(s.isr) + 1 \notin Open(s)
    BY <1>0 DEF Open
  <2> QED
    BY <1>0, <2>1, NestLemma, FS_AddElement
<1> HIDE DEF m
<1>6. /\ r \in KernelState /\ r.isr = h /\ r.nest = m
      /\ r.stat = s.stat /\ r.wait = s.wait
      /\ r.timers = s.timers /\ r.ready = s.ready /\ r.bits = s.bits /\ r.prio = s.prio
      /\ r.cur = s.cur /\ r.next = s.next /\ r.pendsv = s.pendsv /\ r.try = s.try
      /\ r.halting = s.halting /\ r.fault = s.fault /\ r.error = s.error
      /\ r.expiring = s.expiring /\ r.left = s.left /\ r.ran = s.ran
  BY <1>0, <1>2, <1>3 DEF KernelState
<1>7. NestCounts(r)
  BY <1>0, <1>4, <1>5, <1>6 DEF NestCounts, Open, m
<1>8. WaitsKept(s, r, NoThread) /\ (Urgent(s) => Urgent(r))
  BY <1>6, WaitsSameLemma DEF Urgent, MostUrgent
<1>9. SlicesAgree(r)
  BY <1>0, <1>6, SlicesKeptLemma DEF Agree
<1> QED
  BY <1>0, <1>3, <1>6, <1>7, <1>8, <1>9 DEF Consistent, Agree, ReadyAgree, WaitsAgree, TimersAgree,
       TimerAgrees, Linked, CurrentAgrees, SwitchAgrees, DeadUnwaited, Settled, Booted, Steady

\* The tick: every timer keeps its owner, its callback and its place, and a slice timer
\* ages with the account of its thread.
LEMMA TickLemma ==
  ASSUME NEW s, Consistent(s), ~s.expiring, NEW r, r = TickInterrupt(s)
  PROVE  /\ Consistent(r) /\ (Settled(s) => Settled(r))
         /\ Steady(s) => Steady(r)
         /\ Urgent(s) => Urgent(r)
         /\ WaitsKept(s, r, NoThread) /\ r.halting = s.halting
<1> DEFINE s1 == nd_enter_interrupt(s, "tick")
           ts == [i \in DOMAIN s1.timers |-> Aged(s1.timers[i])]
           w == [t \in Thread |-> IF s1.ran[t] # -1 /\ s1.ran[t] < Slice[t]
                                  THEN s1.ran[t] + 1 ELSE s1.ran[t]]
<1>1. /\ Consistent(s1) /\ (Settled(s) => Settled(s1))
      /\ Steady(s) => Steady(s1)
      /\ Urgent(s) => Urgent(s1)
      /\ WaitsKept(s, s1, NoThread) /\ s1.halting = s.halting
  <2>1. s1 = nd_enter_interrupt(s, "tick") /\ "tick" \in {"tick", "dev"}
    OBVIOUS
  <2> HIDE DEF s1
  <2> QED
    BY ONLY <2>1, Consistent(s), EnterLemma
<1>1a. ~s1.expiring
  BY DEF nd_enter_interrupt, Consistent, KernelState
<1> HIDE DEF s1
<1>2. /\ s1 \in KernelState /\ Agree(s1) /\ s1.timers \in Seq(Timer)
      /\ s1.ran \in [Thread -> Nat \cup {-1}]
      /\ DOMAIN s1.timers = 1..Len(s1.timers) /\ Len(s1.timers) \in Nat
      /\ s1.left \in [Thread -> Nat]
  <2> HIDE DEF ts, w
  <2>1. s1 \in KernelState /\ Agree(s1)
    BY <1>1 DEF Consistent
  <2>2. /\ s1.timers \in Seq(Timer) /\ s1.ran \in [Thread -> Nat \cup {-1}]
        /\ s1.left \in [Thread -> Nat]
    BY <2>1 DEF KernelState
  <2> QED
    BY <2>1, <2>2
<1>3. r = [s1 EXCEPT !.tick0 = FALSE, !.timers = ts, !.ran = w, !.expiring = TRUE]
  BY <1>2 DEF TickInterrupt, TickPasses, KernelState, s1
<1>3a. \A t \in Thread : w[t] = IF s1.ran[t] # -1 /\ s1.ran[t] < Slice[t]
                               THEN s1.ran[t] + 1 ELSE s1.ran[t]
  OBVIOUS
<1>4. w \in [Thread -> Nat \cup {-1}]
  <2>1. \A t \in Thread : s1.ran[t] # -1 => s1.ran[t] + 1 \in Nat
    BY <1>2
  <2> QED
    BY <1>2, <2>1
<1>5. /\ ts \in Seq(Timer) /\ DOMAIN ts = DOMAIN s1.timers
      /\ \A i \in DOMAIN ts : ts[i].who = s1.timers[i].who /\ ts[i].cb = s1.timers[i].cb
      /\ \A i \in DOMAIN ts : /\ s1.timers[i].left \in Nat
                              /\ ts[i].left = IF s1.timers[i].left = 0 THEN 0
                                               ELSE s1.timers[i].left - 1
  <2>1. \A i \in 1..Len(s1.timers) : s1.timers[i] \in Timer
    BY <1>2
  <2>2. ASSUME NEW e \in Timer
        PROVE  /\ Aged(e) \in Timer /\ Aged(e).who = e.who /\ Aged(e).cb = e.cb
               /\ e.left \in Nat /\ Aged(e).left = IF e.left = 0 THEN 0 ELSE e.left - 1
    <3> DEFINE l == IF e.left = 0 THEN 0 ELSE e.left - 1
    <3>1. e.left \in Nat /\ l \in Nat
      BY DEF Timer
    <3>2. Aged(e) = [e EXCEPT !.left = l]
      BY DEF Aged
    <3>3. l = IF e.left = 0 THEN 0 ELSE e.left - 1
      OBVIOUS
    <3> HIDE DEF l
    <3> QED
      BY <3>1, <3>2, <3>3 DEF Timer
  <2>3. \A i \in 1..Len(s1.timers) :
          /\ ts[i] \in Timer /\ ts[i].who = s1.timers[i].who /\ ts[i].cb = s1.timers[i].cb
          /\ s1.timers[i].left \in Nat
          /\ ts[i].left = IF s1.timers[i].left = 0 THEN 0 ELSE s1.timers[i].left - 1
    BY <1>2, <2>1, <2>2
  <2>4. DOMAIN ts = 1..Len(s1.timers)
    BY <1>2
  <2>5. ts = [i \in 1..Len(s1.timers) |-> ts[i]]
    BY <1>2
  <2> HIDE DEF ts
  <2>6. ts \in Seq(Timer)
    <3> DEFINE n == Len(s1.timers)
    <3>1. n \in Nat /\ ts = [i \in 1..n |-> ts[i]] /\ \A i \in 1..n : ts[i] \in Timer
      BY <1>2, <2>3, <2>5
    <3> HIDE DEF n
    <3>2. ts \in [1..n -> Timer]
      BY <3>1
    <3> QED
      BY <3>1, <3>2, SeqDef
  <2> QED
    BY <1>2, <2>3, <2>4, <2>6
<1> HIDE DEF ts, w
<1>6. /\ r \in KernelState /\ r.timers = ts
      /\ r.stat = s1.stat /\ r.wait = s1.wait
      /\ r.ready = s1.ready /\ r.bits = s1.bits /\ r.prio = s1.prio
      /\ r.cur = s1.cur /\ r.next = s1.next /\ r.pendsv = s1.pendsv /\ r.try = s1.try
      /\ r.nest = s1.nest /\ r.isr = s1.isr /\ r.halting = s1.halting /\ r.fault = s1.fault
      /\ r.error = s1.error /\ r.left = s1.left /\ r.ran = w /\ r.expiring
  BY <1>2, <1>3, <1>4, <1>5 DEF KernelState
<1>7. TimersAgree(r)
  <2>1. TimersAgree(s1)
    BY <1>2 DEF Agree
  <2> QED
    BY <1>5, <1>6, <2>1 DEF TimersAgree, OnceEach, SameTimer, TimerAgrees, Linked
<1>7a. SlicesAgree(r)
  <2>1. SlicesAgree(s1)
    BY <1>2 DEF Agree
  <2>2. InTime(ts)
    BY <1>5, <2>1 DEF SlicesAgree, InTime
  <2>3. ASSUME NEW i \in DOMAIN ts, ts[i].cb = "slice", r.stat[ts[i].who] = "RUNNING"
        PROVE  IF r.ran[ts[i].who] # -1 THEN ts[i].left = r.left[ts[i].who] - r.ran[ts[i].who]
                                        ELSE ts[i].left <= r.left[ts[i].who]
    <3> DEFINE e == s1.timers[i]
               t == e.who
    <3>1. /\ i \in DOMAIN s1.timers /\ e.cb = "slice" /\ t = ts[i].who /\ e.left \in Nat
          /\ ts[i].left = IF e.left = 0 THEN 0 ELSE e.left - 1
          /\ t \in Thread
      <4>1. e \in Timer
        BY <1>2, <1>5
      <4> QED
        BY <1>5, <2>3, <4>1 DEF Timer
    <3>2. /\ e.left # 0
          /\ IF s1.ran[t] # -1 THEN e.left = s1.left[t] - s1.ran[t] ELSE e.left <= s1.left[t]
      BY <1>1a, <1>6, <2>1, <2>3, <3>1 DEF SlicesAgree, SliceAgrees
    <3>3. /\ s1.ran[t] \in Nat \cup {-1} /\ s1.left[t] \in Nat /\ Slice[t] \in Nat
          /\ s1.left[t] <= Slice[t]
          /\ w[t] = IF s1.ran[t] # -1 /\ s1.ran[t] < Slice[t] THEN s1.ran[t] + 1 ELSE s1.ran[t]
      BY <1>2, <1>3a, <2>1, <3>1, SliceAssumption DEF SlicesAgree
    <3>4. r.ran[t] = w[t] /\ r.left[t] = s1.left[t]
      BY <1>6
    <3> HIDE DEF e, t
    <3>5. CASE s1.ran[t] = -1
      BY <3>1, <3>2, <3>3, <3>4, <3>5
    <3>6. CASE s1.ran[t] # -1
      <4>1. s1.ran[t] \in Nat /\ e.left = s1.left[t] - s1.ran[t]
        BY <3>2, <3>3, <3>6
      <4>2. s1.ran[t] < Slice[t]
        BY <3>1, <3>2, <3>3, <4>1
      <4>3. r.ran[t] = s1.ran[t] + 1 /\ r.ran[t] # -1 /\ ts[i].left = e.left - 1
        BY <3>1, <3>2, <3>3, <3>4, <3>6, <4>1, <4>2
      <4> QED
        BY <3>1, <3>3, <3>4, <4>1, <4>3
    <3> QED
      BY <3>5, <3>6
  <2> QED
    BY <1>5, <1>6, <2>1, <2>2, <2>3 DEF SlicesAgree, SliceAgrees
<1>8. Agree(r)
  BY <1>2, <1>6, <1>7, <1>7a DEF Agree, ReadyAgree, WaitsAgree, Linked, CurrentAgrees, SwitchAgrees
<1>9. WaitsKept(s1, r, NoThread)
  <2>1. \A t : Delayed(r, t) <=> Delayed(s1, t)
    BY <1>5, <1>6 DEF Delayed, Contains
  <2>2. OrderKept(s1, r)
    BY <1>6 DEF OrderKept, InOrder
  <2> QED
    BY <1>6, <2>1, <2>2 DEF WaitsKept, WaitsAlike
<1>10. WaitsKept(s, r, NoThread)
  BY <1>1, <1>9, WaitsThenLemma
<1>11. (Urgent(s) => Urgent(r)) /\ r.halting = s.halting
  BY <1>1, <1>6 DEF Urgent, MostUrgent
<1> QED
  BY <1>1, <1>6, <1>8, <1>10, <1>11 DEF Consistent, NestCounts, Open, DeadUnwaited, Settled, Booted, Steady

\* nd_exit_interrupt closes the innermost handler.
LEMMA ExitLemma ==
  ASSUME NEW s, Consistent(s), InHandler(s), NEW r, r = nd_exit_interrupt(s)
  PROVE  /\ Consistent(r) /\ (Settled(s) => Settled(r))
         /\ Steady(s) => Steady(r)
         /\ Urgent(s) => Urgent(r)
         /\ WaitsKept(s, r, NoThread) /\ r.halting = s.halting
<1> DEFINE n == Len(s.isr)
           f == [s.isr[n] EXCEPT !.done = TRUE]
           h == Append(SubSeq(s.isr, 1, n - 1), f)
           m == s.nest - 1
<1>0. /\ s \in KernelState /\ Agree(s) /\ s.isr \in Seq(Frame) /\ NestCounts(s)
      /\ n \in Nat /\ n \in 1..n /\ DOMAIN s.isr = 1..n /\ n \in Open(s)
  <2>1. s \in KernelState /\ Agree(s) /\ s.isr \in Seq(Frame) /\ NestCounts(s)
    BY DEF Consistent, KernelState
  <2>2. s.isr # <<>> /\ ~s.isr[n].done
    BY DEF InHandler, Last
  <2>3. n \in Nat /\ n \in 1..n /\ DOMAIN s.isr = 1..n
    BY <2>1, <2>2
  <2> HIDE DEF n
  <2> QED
    BY <2>1, <2>2, <2>3 DEF Open
<1>1. r = [s EXCEPT !.isr = h, !.nest = m]
  BY <1>0 DEF nd_exit_interrupt, Front, Last, KernelState
<1>2. f \in Frame /\ f.done
  <2>1. s.isr[n] \in Frame
    BY <1>0
  <2> QED
    BY <2>1 DEF Frame
<1>3. IsFiniteSet(Open(s)) /\ s.nest \in Nat /\ s.nest > 0 /\ m \in Nat
  BY <1>0, NestLemma
<1>4. Cardinality(Open(s) \ {n}) = m
  BY <1>0, <1>3, FS_RemoveElement DEF NestCounts
<1> HIDE DEF f, m
<1>5. /\ h \in Seq(Frame) /\ h # <<>> /\ DOMAIN h = 1..n
      /\ \A i \in 1..(n - 1) : h[i] = s.isr[i]
      /\ h[n] = f
  <2> DEFINE u == SubSeq(s.isr, 1, n - 1)
  <2>1. n + 1 \in 1..(Len(s.isr) + 1) /\ n \in 1..Len(s.isr)
    BY <1>0
  <2>2. /\ u \in Seq(Frame) /\ Len(u) = n - 1
        /\ \A i \in 1..(n - 1) : u[i] = s.isr[i]
    BY <1>0, <2>1, SplitLemma
  <2> HIDE DEF u, n
  <2> QED
    BY <1>0, <1>2, <2>2
<1> HIDE DEF h, n
<1>6. {i \in DOMAIN h : ~h[i].done} = Open(s) \ {n}
  BY <1>0, <1>2, <1>5 DEF Open
<1>7. /\ r \in KernelState /\ r.isr = h /\ r.nest = m
      /\ r.stat = s.stat /\ r.wait = s.wait
      /\ r.timers = s.timers /\ r.ready = s.ready /\ r.bits = s.bits /\ r.prio = s.prio
      /\ r.cur = s.cur /\ r.next = s.next /\ r.pendsv = s.pendsv /\ r.try = s.try
      /\ r.halting = s.halting /\ r.fault = s.fault /\ r.error = s.error
      /\ r.expiring = s.expiring /\ r.left = s.left /\ r.ran = s.ran
  BY <1>0, <1>1, <1>3, <1>5 DEF KernelState
<1>8. NestCounts(r)
  BY <1>4, <1>6, <1>7 DEF NestCounts, Open
<1>9. WaitsKept(s, r, NoThread) /\ (Urgent(s) => Urgent(r))
  BY <1>7, WaitsSameLemma DEF Urgent, MostUrgent
<1>10. SlicesAgree(r)
  BY <1>0, <1>7, SlicesKeptLemma DEF Agree
<1> QED
  BY <1>0, <1>5, <1>7, <1>8, <1>9, <1>10 DEF Consistent, Agree, ReadyAgree, WaitsAgree, TimersAgree,
       TimerAgrees, Linked, CurrentAgrees, SwitchAgrees, DeadUnwaited, Settled, Booted, Steady

\* The end of a handler: the reschedule it asked for is made by the outermost one.
LEMMA HandlerTailLemma ==
  ASSUME NEW s, Consistent(s), Settled(s), AtTail(s), NEW r, r = HandlerTail(s)
  PROVE  /\ Consistent(r) /\ Settled(r)
         /\ Steady(s) => Steady(r)
         /\ Urgent(s) => Urgent(r)
         /\ WaitsKept(s, r, NoThread) /\ r.halting = s.halting
         /\ Ranked(s, r)
<1> DEFINE n == Len(s.isr)
           h == SubSeq(s.isr, 1, n - 1)
           s1 == [s EXCEPT !.isr = h]
           s2 == [s1 EXCEPT !.try = FALSE]
<1>0. /\ s \in KernelState /\ Agree(s) /\ s.isr \in Seq(Frame) /\ NestCounts(s)
      /\ n \in Nat /\ n \in 1..n /\ DOMAIN s.isr = 1..n /\ n \notin Open(s)
      /\ s.halting = NoThread /\ NoThread \notin Thread /\ s.cur \in Thread \cup {NoThread}
      /\ s.try \in BOOLEAN /\ s.nest \in Nat
  <2>1. /\ s \in KernelState /\ Agree(s) /\ s.isr \in Seq(Frame) /\ NestCounts(s)
        /\ NoThread \notin Thread /\ s.cur \in Thread \cup {NoThread}
        /\ s.try \in BOOLEAN /\ s.nest \in Nat
    BY ThreadAssumption DEF Consistent, KernelState, WaitQueue
  <2>2. s.isr # <<>> /\ s.isr[n].done /\ s.halting = NoThread
    BY DEF AtTail, Last, Masked
  <2>3. n \in Nat /\ n \in 1..n /\ DOMAIN s.isr = 1..n
    BY <2>1, <2>2
  <2> HIDE DEF n
  <2> QED
    BY <2>1, <2>2, <2>3 DEF Open
<1>1. r = IF s.nest > 0 \/ ~s.try THEN s1 ELSE nd_schedule_core(s2)
  BY DEF HandlerTail, Front
<1>2. /\ h \in Seq(Frame) /\ DOMAIN h = 1..(n - 1) /\ Len(h) = n - 1
      /\ \A i \in 1..(n - 1) : h[i] = s.isr[i]
  <2>1. n + 1 \in 1..(Len(s.isr) + 1) /\ n \in 1..Len(s.isr)
    BY <1>0
  <2>2. /\ h \in Seq(Frame) /\ Len(h) = n - 1
        /\ \A i \in 1..(n - 1) : h[i] = s.isr[i]
    BY <1>0, <2>1, SplitLemma
  <2> HIDE DEF h, n
  <2> QED
    BY <1>0, <2>2
<1> HIDE DEF h, n
<1>3. {i \in DOMAIN h : ~h[i].done} = Open(s)
  BY <1>0, <1>2 DEF Open
<1>4. /\ s1 \in KernelState /\ s1.isr = h /\ s1.nest = s.nest
      /\ s1.stat = s.stat /\ s1.wait = s.wait
      /\ s1.timers = s.timers /\ s1.ready = s.ready /\ s1.bits = s.bits /\ s1.prio = s.prio
      /\ s1.cur = s.cur /\ s1.next = s.next /\ s1.pendsv = s.pendsv /\ s1.try = s.try
      /\ s1.halting = s.halting /\ s1.fault = s.fault /\ s1.error = s.error
      /\ s1.expiring = s.expiring /\ s1.left = s.left /\ s1.ran = s.ran
  BY <1>0, <1>2 DEF KernelState
<1> HIDE DEF s1
<1>5. NestCounts(s1)
  BY <1>0, <1>3, <1>4 DEF NestCounts, Open
<1>5a. SlicesAgree(s1)
  BY <1>0, <1>4, SlicesKeptLemma DEF Agree
<1>6. Agree(s1) /\ DeadUnwaited(s1) /\ (Steady(s) => Steady(s1))
  BY <1>0, <1>4, <1>5a DEF Consistent, Agree, ReadyAgree, WaitsAgree, TimersAgree, TimerAgrees,
                    Linked, CurrentAgrees, SwitchAgrees, DeadUnwaited, Steady
<1>6a. WaitsKept(s, s1, NoThread) /\ (Urgent(s) => Urgent(s1))
  BY <1>4, WaitsSameLemma DEF Urgent, MostUrgent
<1>7. CASE s.nest > 0 \/ ~s.try
  <2>1. s1.try => s1.isr # <<>>
    <3>1. s.try => Open(s) # {}
      BY <1>0, <1>7, NestLemma
    <3>2. Open(s) # {} => h # <<>>
      BY <1>2, <1>3
    <3> QED
      BY <1>4, <3>1, <3>2
  <2>2. Settled(s1)
    BY <1>0, <1>4, <2>1 DEF Settled, Booted
  <2>3. Ranked(s, s1)
    BY <1>4, BehindSame, RankedBehind
  <2> QED
    BY <1>1, <1>4, <1>5, <1>6, <1>6a, <1>7, <2>1, <2>2, <2>3 DEF Consistent
<1>8. CASE ~(s.nest > 0 \/ ~s.try)
  <2>1. r = nd_schedule_core(s2)
    BY <1>1, <1>8
  <2>2. /\ s2 \in KernelState /\ s2.isr = s1.isr /\ s2.nest = s1.nest /\ ~s2.try
        /\ s2.stat = s1.stat /\ s2.wait = s1.wait /\ s2.timers = s1.timers
        /\ s2.ready = s1.ready /\ s2.bits = s1.bits /\ s2.prio = s1.prio
        /\ s2.cur = s1.cur /\ s2.next = s1.next /\ s2.pendsv = s1.pendsv
        /\ s2.halting = s1.halting /\ s2.fault = s1.fault /\ s2.error = s1.error
        /\ s2.expiring = s1.expiring /\ s2.left = s1.left /\ s2.ran = s1.ran
    BY <1>4 DEF KernelState
  <2> HIDE DEF s2
  <2>2a. SlicesAgree(s2)
    BY <1>4, <1>5a, <2>2, SlicesKeptLemma
  <2>3. /\ Agree(s2) /\ DeadUnwaited(s2) /\ NestCounts(s2) /\ (Steady(s1) => Steady(s2))
    BY <1>5, <1>6, <2>2, <2>2a DEF Agree, ReadyAgree, WaitsAgree, TimersAgree, TimerAgrees, Linked,
       CurrentAgrees, SwitchAgrees, DeadUnwaited, NestCounts, Open, Steady
  <2>4. /\ r \in KernelState /\ Agree(r) /\ OnlyScheduled(s2, r)
        /\ r.try = s2.try /\ MostUrgent(r)
        /\ r.cur # NoThread /\ r.stat[r.cur] # "RUNNING" => r.pendsv
    BY ONLY <2>1, <2>2, <2>3, CoreLemma
  <2>5. DeadUnwaited(r) /\ NestCounts(r) /\ (Steady(s2) => Steady(r))
    <3>1. DeadUnwaited(r)
      BY <2>3, <2>4 DEF OnlyScheduled, DeadUnwaited
    <3>2. NestCounts(r)
      BY <2>3, <2>4 DEF OnlyScheduled, NestCounts, Open
    <3>3. Steady(s2) => Steady(r)
      BY <2>4 DEF OnlyScheduled, Steady
    <3> QED
      BY <3>1, <3>2, <3>3
  <2>6. WaitsKept(s1, s2, NoThread) /\ WaitsKept(s2, r, NoThread)
    BY <2>2, <2>4, WaitsSameLemma, WaitsScheduledLemma
  <2>7. WaitsKept(s, r, NoThread)
    BY <1>6a, <2>6, WaitsThenLemma
  <2>8. Urgent(r) /\ r.halting = s.halting
    BY <1>4, <2>2, <2>4 DEF Urgent, OnlyScheduled
  <2>9. Ranked(s, r)
    <3>1. Ranked(s2, r)
      BY ONLY <2>1, <2>2, <2>3, CoreRanks
    <3> QED
      BY <1>4, <2>2, <3>1, RankedSame
  <2> QED
    BY <1>6, <2>2, <2>3, <2>4, <2>5, <2>7, <2>8, <2>9 DEF Consistent, Settled, Booted
<1> QED
  BY <1>7, <1>8

-----------------------------------------------------------------------------
(* The kernel of NdSched *)

\* The kernel part of KernelInv, as the lemmas about calls state it.
Sure(s) ==
  Consistent(s) /\ Settled(s) /\ (~Deferred \/ IsrCalls \subseteq {"resume"} => Steady(s))

\* KernelInv, as a fact about the kernel record and one about inside.
LEMMA KernelInvForm ==
  KernelInv <=> Sure(k) /\ inside \in [Thread -> WaitQueue \cup {NoThread}]
  BY DEF KernelInv, Sure, TypeOK, Consistent, Settled

\* After nd_scheduler_init.
LEMMA InitLemma == Init => KernelInv
<1> SUFFICES ASSUME Init PROVE KernelInv
  OBVIOUS
<1>0. /\ Idle \in Thread /\ NoThread \notin Thread /\ MaxPrio \in Prio
      /\ Slice \in [Thread -> Nat] /\ Thread \subseteq WaitQueue
  BY ThreadAssumption, PrioAssumption, SliceAssumption DEF WaitQueue, Prio
<1>1. TypeOK
  <2> DEFINE stat0 == [t \in Thread |-> IF t = Idle THEN "READY" ELSE "INIT"]
             prio0 == [t \in Thread |-> MaxPrio]
             yield0 == [t \in Thread |-> FALSE]
             error0 == [t \in Thread |-> "EOK"]
             left0 == [t \in Thread |-> Slice[t]]
             ran0 == [t \in Thread |-> -1]
             ready0 == [p \in Prio |-> IF p = MaxPrio THEN <<Idle>> ELSE <<>>]
             wait0 == [q \in WaitQueue |-> <<>>]
  <2>1. /\ stat0 \in [Thread -> Stat] /\ prio0 \in [Thread -> Prio]
        /\ yield0 \in [Thread -> BOOLEAN] /\ error0 \in [Thread -> Error]
        /\ left0 \in [Thread -> Nat] /\ ran0 \in [Thread -> Nat \cup {-1}]
        /\ ready0 \in [Prio -> Seq(Thread)] /\ wait0 \in [WaitQueue -> Seq(Thread)]
    BY <1>0 DEF Stat, Error
  <2>2. <<>> \in Seq(Timer) /\ <<>> \in Seq(Frame) /\ {MaxPrio} \in SUBSET Prio
    BY <1>0
  <2>3. k = [stat |-> stat0, prio |-> prio0, yield |-> yield0, error |-> error0,
             left |-> left0, ran |-> ran0, tick0 |-> TRUE, ready |-> ready0, bits |-> {MaxPrio},
             wait |-> wait0, timers |-> <<>>, cur |-> NoThread, next |-> NoThread,
             pendsv |-> FALSE, nest |-> 0, try |-> FALSE, isr |-> <<>>,
             expiring |-> FALSE, halting |-> NoThread, fault |-> FALSE]
    BY DEF Init
  <2> HIDE DEF stat0, prio0, yield0, error0, left0, ran0, ready0, wait0
  <2>4. k \in KernelState
    BY <2>1, <2>2, <2>3 DEF KernelState
  <2>5. inside \in [Thread -> WaitQueue \cup {NoThread}]
    BY DEF Init
  <2> QED
    BY <2>4, <2>5 DEF TypeOK
<1>2. /\ k.stat = [t \in Thread |-> IF t = Idle THEN "READY" ELSE "INIT"]
      /\ k.prio = [t \in Thread |-> MaxPrio]
      /\ k.ready = [p \in Prio |-> IF p = MaxPrio THEN <<Idle>> ELSE <<>>]
      /\ k.bits = {MaxPrio} /\ k.wait = [q \in WaitQueue |-> <<>>]
      /\ k.timers = <<>> /\ k.cur = NoThread /\ k.pendsv = FALSE /\ k.nest = 0
      /\ k.try = FALSE /\ k.isr = <<>> /\ k.fault = FALSE
  BY DEF Init
<1>3. ReadyAgree(k)
  <2>1. \A p \in Prio : k.ready[p] = IF p = MaxPrio THEN <<Idle>> ELSE <<>>
    BY <1>2
  <2>2. \A x : Contains(<<Idle>>, x) <=> x = Idle
    BY DEF Contains
  <2>3. \A x : ~Contains(<<>>, x)
    BY DEF Contains
  <2>4. IsInjective(<<Idle>>) /\ IsInjective(<<>>)
    BY DEF IsInjective
  <2>5. \A t \in Thread : k.prio[t] = MaxPrio /\ (k.stat[t] = "READY" <=> t = Idle)
    BY <1>2
  <2>6. <<Idle>> # <<>>
    OBVIOUS
  <2> QED
    BY <1>0, <1>2, <2>1, <2>2, <2>3, <2>4, <2>5, <2>6 DEF ReadyAgree
<1>4. WaitsAgree(k)
  BY <1>2 DEF WaitsAgree, Linked, Contains, IsInjective
<1>5. TimersAgree(k)
  BY <1>2 DEF TimersAgree, OnceEach
<1>5a. SlicesAgree(k)
  <2>1. \A t \in Thread : k.left[t] = Slice[t]
    BY DEF Init
  <2>2. \A t \in Thread : k.left[t] <= Slice[t]
    BY <1>0, <2>1
  <2> QED
    BY <1>2, <2>2 DEF SlicesAgree, InTime
<1>6. CurrentAgrees(k) /\ SwitchAgrees(k)
  BY <1>0, <1>2 DEF CurrentAgrees, SwitchAgrees
<1>7. NestCounts(k)
  <2>1. Open(k) = {}
    BY <1>2 DEF Open
  <2> QED
    BY <1>2, <2>1, FS_EmptySet DEF NestCounts
<1>8. Settled(k) /\ DeadUnwaited(k) /\ Steady(k)
  BY <1>0, <1>2 DEF Settled, Booted, DeadUnwaited, Steady
<1> QED
  BY <1>1, <1>3, <1>4, <1>5, <1>5a, <1>6, <1>7, <1>8 DEF KernelInv, Agree

-----------------------------------------------------------------------------
(* Each action keeps the kernel part.  "restricted" stands for the         *)
(* condition under which a prepared switch cannot go stale.                *)

\* What a kernel record that is not inside a loop and not at fault tells.
LEMMA UnmaskedLemma ==
  ASSUME Sure(k), ~Masked(k)
  PROVE  /\ k \in KernelState /\ Agree(k) /\ k.halting = NoThread /\ ~k.fault
         /\ NoThread \notin Thread /\ k.cur \in Thread \cup {NoThread} /\ Idle \in Thread
         /\ k.stat \in [Thread -> Stat] /\ k.wait \in [WaitQueue -> Seq(Thread)]
         /\ Thread \subseteq WaitQueue
  BY ThreadAssumption DEF Sure, Consistent, Masked, KernelState, WaitQueue

\* A thread that executes its own code is RUNNING, and no switch is pending.
LEMMA InThreadLemma ==
  ASSUME Sure(k), InThread(k)
  PROVE  /\ ~Masked(k) /\ k.cur \in Thread /\ k.stat[k.cur] = "RUNNING" /\ ~k.pendsv
<1>1. ~Masked(k) /\ k.cur # NoThread /\ k.isr = <<>> /\ ~k.pendsv
  BY DEF InThread, Booted
<1> QED
  BY <1>1, UnmaskedLemma DEF Sure, Settled, Booted

\* nd_scheduler_start keeps the kernel part: the idle thread is READY, so that there is a
\* thread to switch to.
LEMMA StartStep ==
  ASSUME Sure(k), nd_scheduler_start
  PROVE  Sure(k') /\ WaitsKept(k, k', NoThread) /\ MostUrgent(k') /\ k'.halting = k.halting
<1> DEFINE n == nd_get_highest_priority_thread(k)
<1>0. /\ ~Masked(k) /\ k.cur = NoThread /\ k' = nd_context_switch_cb(k, n)
  BY DEF nd_scheduler_start, InBoot, Booted
<1>1. /\ k \in KernelState /\ Agree(k) /\ ~k.fault /\ NoThread \notin Thread /\ Idle \in Thread
      /\ ReadyAgree(k) /\ CurrentAgrees(k) /\ SwitchAgrees(k)
  BY <1>0, UnmaskedLemma DEF Agree
<1>2. ~k.pendsv /\ \A t \in Thread : k.stat[t] # "RUNNING"
  BY <1>0, <1>1 DEF SwitchAgrees, CurrentAgrees
<1>3. k.stat[Idle] = "READY"
  BY <1>1, <1>2 DEF CurrentAgrees
<1>4. \/ n = NoThread /\ \A t \in Thread : k.stat[t] # "READY"
      \/ /\ n \in Thread /\ k.stat[n] = "READY"
         /\ \A t \in Thread : k.stat[t] = "READY" => k.prio[n] <= k.prio[t]
  BY <1>1, HighestLemma
<1> HIDE DEF n
<1>5. /\ n \in Thread /\ k.stat[n] = "READY" /\ k.stat[n] # "BLOCK"
      /\ \A t \in Thread : k.stat[t] = "READY" => k.prio[n] <= k.prio[t]
  BY <1>1, <1>3, <1>4
<1>6. Consistent(k)
  BY DEF Sure
<1> DEFINE r == k'
<1>7. r = nd_context_switch_cb(k, n)
  BY <1>0
<1> HIDE DEF r
<1>8. /\ Consistent(r) /\ Settled(r)
      /\ ~k.fault /\ k.stat[n] = "READY" => Steady(r)
      /\ (\A t \in Thread : k.stat[t] = "READY" => k.prio[n] <= k.prio[t]) => MostUrgent(r)
      /\ (k.stat[n] = "READY" => WaitsKept(k, r, NoThread)) /\ r.halting = k.halting
  BY ONLY <1>2, <1>5, <1>6, <1>7, SwitchLemma
<1> QED
  BY <1>1, <1>5, <1>8 DEF Sure, r

\* A call that changes the kernel to x and then runs the scheduler.
LEMMA CallStep ==
  ASSUME NEW x, Consistent(x), ~Deferred \/ IsrCalls \subseteq {"resume"} => Steady(x),
         k' = nd_scheduler(x)
  PROVE  /\ Sure(k') /\ WaitsKept(x, k', NoThread) /\ Urgent(k') /\ k'.halting = x.halting
         /\ Ranked(x, k') /\ GaveWay(x, k')
<1> DEFINE r == k'
<1>1. r = nd_scheduler(x)
  OBVIOUS
<1> HIDE DEF r
<1>2. /\ Consistent(r) /\ Settled(r) /\ (Steady(x) => Steady(r))
      /\ WaitsKept(x, r, NoThread) /\ Urgent(r) /\ r.halting = x.halting
      /\ Ranked(x, r) /\ GaveWay(x, r)
  BY ONLY <1>1, Consistent(x), CloseLemma
<1> QED
  BY <1>2 DEF Sure, r

\* The same, with what x has to do with k.
LEMMA ThenStep ==
  ASSUME NEW x, Consistent(x), ~Deferred \/ IsrCalls \subseteq {"resume"} => Steady(x),
         k' = nd_scheduler(x), NEW t \in Thread \cup {NoThread}, WaitsKept(k, x, t)
  PROVE  /\ Sure(k') /\ Urgent(k') /\ k'.halting = x.halting /\ WaitsKept(k, k', t)
         /\ t \in Thread => WaitsAlike(x, k', t)
         /\ ReadyAgree(k) /\ Behind(k, x) => Ranked(k, k')
<1>1. /\ Sure(k') /\ WaitsKept(x, k', NoThread) /\ Urgent(k') /\ k'.halting = x.halting
      /\ Ranked(x, k') /\ GaveWay(x, k')
  BY CallStep
<1> DEFINE s == k
           r == k'
<1>2. WaitsKept(s, x, t) /\ WaitsKept(x, r, NoThread) /\ Ranked(x, r) /\ GaveWay(x, r)
  BY <1>1
<1> HIDE DEF s, r
<1>3. WaitsKept(s, r, t)
  BY <1>2, WaitsThenLemma
<1>4. t \in Thread => WaitsAlike(x, r, t)
  BY <1>2, ThreadAssumption DEF WaitsKept, WaitQueue
<1>5. ReadyAgree(s) /\ Behind(s, x) => Ranked(s, r)
  BY <1>2, RankedThen
<1> QED
  BY <1>1, <1>3, <1>4, <1>5 DEF s, r

\* nd_thread_create keeps the kernel part: nobody waits for a thread that is not there yet.
LEMMA CreateStep ==
  ASSUME Sure(k), NEW t \in Thread, NEW p \in PrioChoice[t], nd_thread_create(t, p)
  PROVE  /\ Sure(k') /\ Urgent(k') /\ k'.halting = k.halting
         /\ k'.prio = [k.prio EXCEPT ![t] = p]
         /\ \A u \in Thread \ {t} : WaitsAlike(k, k', u)
         /\ OrderKept(k, k')
         /\ k.stat[t] = "INIT" \/ (k.stat[t] = "DEAD" /\ "recreate" \in Calls)
         /\ k'.stat[t] \in {"READY", "RUNNING"}
         /\ Ranked(k, k')
<1> DEFINE pr == [k.prio EXCEPT ![t] = p]
           l == [k.left EXCEPT ![t] = Slice[t]]
           w == [k.ran EXCEPT ![t] = -1]
           y == [k.yield EXCEPT ![t] = FALSE]
           z == [k.stat EXCEPT ![t] = "READY"]
           wt == [k.wait EXCEPT ![t] = <<>>]
           x == [k EXCEPT !.prio = pr, !.left = l, !.ran = w, !.yield = y,
                          !.wait = wt, !.stat = z]
           r == nd_thread_ready_add_tail(x, t)
<1>0. /\ ~Masked(k) /\ k.stat[t] \in {"INIT", "DEAD"} /\ p \in Prio
      /\ k' = nd_scheduler(Fresh(t, p))
  BY PrioChoiceAssumption DEF nd_thread_create, InBoot, InThread, ThreadCalls, InOwnCode
<1>1. /\ k \in KernelState /\ Agree(k) /\ k.halting = NoThread /\ NoThread \notin Thread
      /\ k.stat \in [Thread -> Stat] /\ k.wait \in [WaitQueue -> Seq(Thread)]
      /\ Thread \subseteq WaitQueue /\ WaitsAgree(k) /\ TimersAgree(k)
  BY <1>0, UnmaskedLemma DEF Agree
<1>2. k.wait[t] = <<>>
  BY <1>0, <1>1 DEF Sure, Consistent, DeadUnwaited
<1>3. wt = k.wait
  BY <1>1, <1>2
<1>4. r = Fresh(t, p)
  BY <1>1 DEF Fresh, KernelState
<1>5. /\ pr \in [Thread -> Prio] /\ l \in [Thread -> Nat] /\ y \in [Thread -> BOOLEAN]
      /\ w \in [Thread -> Nat \cup {-1}] /\ z \in [Thread -> Stat]
      /\ z = [k.stat EXCEPT ![t] = "READY"]
      /\ \A u \in Thread \ {t} : pr[u] = k.prio[u] /\ z[u] = k.stat[u]
      /\ l[t] <= Slice[t] /\ \A u \in Thread \ {t} : l[u] = k.left[u] /\ w[u] = k.ran[u]
  <2>1. /\ k.left \in [Thread -> Nat] /\ k.ran \in [Thread -> Nat \cup {-1}]
        /\ k.prio \in [Thread -> Prio] /\ k.yield \in [Thread -> BOOLEAN]
        /\ Slice[t] \in Nat /\ "READY" \in Stat
    BY <1>1, SliceAssumption DEF KernelState, Stat
  <2>2. /\ l \in [Thread -> Nat] /\ w \in [Thread -> Nat \cup {-1}]
        /\ l[t] <= Slice[t] /\ \A u \in Thread \ {t} : l[u] = k.left[u] /\ w[u] = k.ran[u]
    BY <2>1
  <2> HIDE DEF l, w
  <2>3. /\ pr \in [Thread -> Prio] /\ y \in [Thread -> BOOLEAN] /\ z \in [Thread -> Stat]
        /\ z = [k.stat EXCEPT ![t] = "READY"]
        /\ \A u \in Thread \ {t} : pr[u] = k.prio[u] /\ z[u] = k.stat[u]
    BY <1>0, <1>1, <2>1
  <2> QED
    BY <2>2, <2>3
<1> HIDE DEF pr, l, w, y, z, wt
<1>6. /\ x \in KernelState /\ x.stat = z /\ x.wait = k.wait /\ x.timers = k.timers
      /\ x.ready = k.ready /\ x.bits = k.bits /\ x.prio = pr /\ SameControl(k, x)
      /\ x.error = k.error /\ x.left = l /\ x.ran = w
  BY <1>1, <1>3, <1>5 DEF KernelState, SameControl
<1> HIDE DEF x
<1>7. WaitsAgree(x) /\ TimersAgree(x)
  <2>1. \A u \in Thread : k.stat[u] = "BLOCK" => x.stat[u] = "BLOCK"
    BY <1>0, <1>5, <1>6
  <2>2. x.cur = k.cur
    BY <1>6 DEF SameControl
  <2> QED
    BY <1>1, <1>6, <2>1, <2>2, KeptLemma
<1>7a. SlicesAgree(x)
  <2>1. AccountsBut(k, x, t)
    BY <1>5, <1>6 DEF AccountsBut
  <2>2. /\ x.stat[t] # "RUNNING" /\ \A u \in Thread \ {t} : x.stat[u] = k.stat[u]
        /\ k.expiring => x.expiring
        /\ SlicesAgree(k)
    BY <1>1, <1>5, <1>6 DEF SameControl, Agree
  <2> QED
    BY <1>1, <1>6, <2>1, <2>2, AccountsLemma
<1>8. r \in KernelState /\ Agree(r) /\ OnlyReady(x, r)
  <2>1. /\ \A u \in Thread \ {t} : x.prio[u] = k.prio[u]
        /\ x.cur = k.cur /\ x.next = k.next /\ x.pendsv = k.pendsv
        /\ x.stat = [k.stat EXCEPT ![t] = "READY"] /\ k.stat[t] \notin {"READY", "RUNNING"}
    BY <1>0, <1>5, <1>6 DEF SameControl
  <2>2. r = nd_thread_ready_add_tail(x, t)
    OBVIOUS
  <2> HIDE DEF r
  <2> QED
    BY ONLY <1>1, <1>6, <1>7, <1>7a, <2>1, <2>2, t \in Thread, MakeReadyLemma
<1>8a. Behind(k, r)
  <2>1. x.prio[t] \in Prio /\ ReadyAgree(k)
    BY <1>1, <1>6 DEF Agree, KernelState
  <2>2. /\ ~Contains(x.ready[x.prio[t]], t) /\ k.stat[t] \notin Runnable
        /\ \A u \in Thread : x.stat[u] = "RUNNING" => k.stat[u] = "RUNNING"
    BY <1>0, <1>1, <1>5, <1>6, <2>1 DEF ReadyAgree, Runnable
  <2>3. r = nd_thread_ready_add_tail(x, t)
    OBVIOUS
  <2> HIDE DEF r
  <2> QED
    BY ONLY <1>6, <2>2, <2>3, t \in Thread, BehindAdded
<1> HIDE DEF r
<1>9. /\ SameControl(k, r) /\ r.stat = z /\ r.wait = k.wait
      /\ r.error = k.error /\ r.prio = pr /\ r.timers = k.timers
  BY <1>6, <1>8, OnlyReadyFrame DEF SameControl
<1>10. \A u \in Thread : r.stat[u] = IF u = t THEN "READY" ELSE k.stat[u]
  BY <1>1, <1>5, <1>9
<1>11. Consistent(r)
  BY <1>8, <1>9, <1>10, ConsistentLemma DEF Sure
<1>12. Steady(k) => Steady(r)
  <2>1. k.pendsv => k.next \in Thread
    BY <1>1 DEF Agree, SwitchAgrees, KernelState
  <2> QED
    BY <1>9, <1>10, <2>1 DEF Steady, SameControl
<1>13. /\ Sure(k') /\ Urgent(k') /\ k'.halting = r.halting
       /\ WaitsKept(r, k', NoThread)
       /\ Ranked(r, k') /\ GaveWay(r, k')
  BY <1>0, <1>4, <1>11, <1>12, CallStep DEF Sure
<1>14. pr = [k.prio EXCEPT ![t] = p]
  BY DEF pr
<1> DEFINE s == k
           v == k'
<1>15. /\ WaitsKept(r, v, NoThread) /\ r.stat[t] = "READY" /\ r.prio = pr
       /\ r.stat = z /\ r.wait = s.wait /\ r.error = s.error /\ r.timers = s.timers
       /\ \A u \in Thread \ {t} : pr[u] = s.prio[u] /\ z[u] = s.stat[u]
       /\ NoThread \notin Thread
       /\ ReadyAgree(s) /\ Behind(s, r) /\ Ranked(r, v) /\ GaveWay(r, v)
  BY <1>1, <1>5, <1>8a, <1>9, <1>10, <1>13 DEF Agree
<1>16. \A q \in WaitQueue : ~Contains(s.wait[q], t)
  BY <1>0, <1>1 DEF WaitsAgree, Linked
<1>17. \A q \in WaitQueue : \A i \in DOMAIN s.wait[q] :
         s.wait[q][i] \in Thread \ {t}
  <2> SUFFICES ASSUME NEW q \in WaitQueue, NEW i \in DOMAIN s.wait[q]
               PROVE  s.wait[q][i] \in Thread \ {t}
    OBVIOUS
  <2>1. s.wait[q] \in Seq(Thread)
    BY <1>1
  <2>2. i \in 1..Len(s.wait[q]) /\ s.wait[q][i] \in Thread
    BY <2>1
  <2> QED
    BY <1>16, <2>2 DEF Contains
<1> HIDE DEF s, v
<1>18. OrderKept(s, r)
  BY <1>15, <1>17 DEF OrderKept, InOrder
<1>19. OrderKept(r, v)
  BY <1>15 DEF WaitsKept
<1>25. OrderKept(s, v)
  BY <1>18, <1>19 DEF OrderKept
<1>20. v.prio = pr /\ WaitsAlike(r, v, t)
  BY <1>15 DEF WaitsKept
<1>21. \A u \in Thread \ {t} : WaitsAlike(s, r, u) /\ WaitsAlike(r, v, u)
  BY <1>15 DEF WaitsKept, WaitsAlike, Delayed
<1>22. \A u \in Thread \ {t} : WaitsAlike(s, v, u)
  BY <1>21 DEF WaitsAlike
<1>23. v.stat[t] \in {"READY", "RUNNING"}
  BY <1>15, <1>20 DEF WaitsAlike
<1>24. r.halting = s.halting
  BY <1>9 DEF SameControl, s
<1>26. k.stat[t] = "INIT" \/ (k.stat[t] = "DEAD" /\ "recreate" \in Calls)
  BY DEF nd_thread_create
<1>27. Ranked(s, v)
  BY <1>15, RankedThen
<1> QED
  BY <1>0, <1>13, <1>14, <1>25, <1>20, <1>22, <1>23, <1>24, <1>26, <1>27 DEF s, v

\* A call that makes t READY and then runs the scheduler.
LEMMA ReadiedStep ==
  ASSUME Sure(k), NEW t \in Thread, NEW x, Readied(k, x, t), k' = nd_scheduler(x)
  PROVE  /\ Sure(k') /\ Urgent(k') /\ k'.halting = k.halting /\ WaitsKept(k, k', t)
         /\ k'.stat[t] \in {"READY", "RUNNING"} /\ k'.error[t] = x.error[t]
         /\ Ranked(k, k')
<1> DEFINE s == k
           r == k'
<1>1. r = nd_scheduler(x) /\ s.stat \in [Thread -> Stat] /\ Readied(s, x, t) /\ ReadyAgree(s)
  BY DEF Sure, Consistent, KernelState, Agree
<1>2. ~Deferred \/ IsrCalls \subseteq {"resume"} => Steady(s)
  BY DEF Sure
<1> HIDE DEF s, r
<1>3. /\ Consistent(r) /\ Settled(r) /\ Urgent(r)
      /\ Steady(s) => Steady(r)
      /\ WaitsKept(s, r, t) /\ r.halting = s.halting
      /\ r.stat[t] \in {"READY", "RUNNING"} /\ r.error[t] = x.error[t]
      /\ Ranked(s, r)
  BY ONLY <1>1, t \in Thread, ReadiedCloseLemma
<1> QED
  BY <1>2, <1>3 DEF Sure, s, r

\* nd_thread_resume keeps the kernel part.
LEMMA ResumeStep ==
  ASSUME Sure(k), NEW t \in Thread, nd_thread_resume(t)
  PROVE  /\ Sure(k') /\ Urgent(k') /\ k'.halting = k.halting /\ WaitsKept(k, k', t)
         /\ k.stat[t] = "SUSPEND" /\ k'.stat[t] \in {"READY", "RUNNING"}
         /\ k'.error[t] = k.error[t] /\ Ranked(k, k')
<1> DEFINE r == nd_thread_ready_add_tail([k EXCEPT !.stat[t] = "READY"], t)
<1>1. k' = nd_scheduler(r) /\ k.stat[t] = "SUSPEND" /\ Consistent(k)
  BY DEF nd_thread_resume, Sure
<1>2. Readied(k, r, t) /\ r.error = k.error
  <2> DEFINE q == r
  <2>1. q = nd_thread_ready_add_tail([k EXCEPT !.stat[t] = "READY"], t)
    OBVIOUS
  <2> HIDE DEF q
  <2>2. Readied(k, q, t) /\ q.error = k.error
    BY <1>1, <2>1, ResumeLemma
  <2> QED
    BY <2>2 DEF q
<1> HIDE DEF r
<1> QED
  BY <1>1, <1>2, ReadiedStep

\* nd_thread_yield keeps the kernel part.
LEMMA YieldStep ==
  ASSUME Sure(k), nd_thread_yield
  PROVE  /\ Sure(k') /\ Urgent(k') /\ k'.halting = k.halting /\ WaitsKept(k, k', NoThread)
         /\ Ranked(k, k')
<1> DEFINE y == [k.yield EXCEPT ![k.cur] = TRUE]
           x == [k EXCEPT !.yield = y]
<1>1. InThread(k)
  BY DEF nd_thread_yield, ThreadCalls, InOwnCode
<1>2. k \in KernelState /\ Agree(k) /\ k.yield \in [Thread -> BOOLEAN]
  BY <1>1, InThreadLemma, UnmaskedLemma DEF KernelState
<1>3. k' = nd_scheduler(x)
  BY <1>2 DEF nd_thread_yield, KernelState
<1>4. y \in [Thread -> BOOLEAN]
  BY <1>2
<1> HIDE DEF y
<1>5. /\ x \in KernelState /\ x.stat = k.stat /\ x.wait = k.wait /\ x.timers = k.timers
      /\ x.ready = k.ready /\ x.bits = k.bits /\ x.prio = k.prio /\ SameControl(k, x)
      /\ x.error = k.error /\ x.left = k.left /\ x.ran = k.ran
  BY <1>2, <1>4 DEF KernelState, SameControl
<1> HIDE DEF x
<1>5a. SlicesAgree(x)
  BY <1>2, <1>5, SlicesKeptLemma DEF Agree, SameControl
<1>6. Agree(x)
  BY <1>2, <1>5, <1>5a DEF Agree, ReadyAgree, WaitsAgree, TimersAgree, TimerAgrees, Linked,
                    CurrentAgrees, SwitchAgrees, SameControl
<1>7. Consistent(x) /\ (Steady(k) => Steady(x))
  BY <1>5, <1>6, ConsistentLemma DEF Sure, Steady, SameControl
<1>8. WaitsKept(k, x, NoThread) /\ x.halting = k.halting
  BY <1>5, WaitsSameLemma DEF SameControl
<1>9. ReadyAgree(k) /\ Behind(k, x)
  BY <1>2, <1>5, BehindSame DEF Agree
<1> QED
  BY <1>3, <1>7, <1>8, <1>9, ThenStep DEF Sure

\* A call in which the running thread joins the list of q and then runs the scheduler, the
\* kernel having been changed to x before.
LEMMA PendStep ==
  ASSUME NEW x, Consistent(x), ~Deferred \/ IsrCalls \subseteq {"resume"} => Steady(x),
         x.cur \in Thread \ {Idle}, x.stat[x.cur] = "RUNNING",
         NEW q \in WaitQueue, q \in Thread => x.stat[q] \notin {"INIT", "DEAD"},
         NEW timeout \in Nat \cup {Forever},
         k' = nd_scheduler(nd_thread_pend(x, q, timeout))
  PROVE  /\ Sure(k') /\ Urgent(k') /\ k'.halting = x.halting /\ WaitsKept(x, k', x.cur)
         /\ k'.stat[x.cur] = "BLOCK" /\ k'.error[x.cur] = "EOK"
         /\ \A p \in WaitQueue : Contains(k'.wait[p], x.cur) <=> p = q
         /\ Ranked(x, k')
<1> DEFINE r == nd_thread_pend(x, q, timeout)
           v == k'
<1>1. r = nd_thread_pend(x, q, timeout) /\ v = nd_scheduler(r)
  OBVIOUS
<1> HIDE DEF r
<1>2. /\ Consistent(r) /\ SameControl(x, r)
      /\ r.stat = [x.stat EXCEPT ![x.cur] = "BLOCK"]
      /\ Steady(x) => Steady(r)
      /\ WaitsKept(x, r, x.cur) /\ r.error[x.cur] = "EOK"
      /\ \A p \in WaitQueue : Contains(r.wait[p], x.cur) <=> p = q
      /\ Behind(x, r)
  BY <1>1, PendLemma
<1>3. /\ Sure(v) /\ Urgent(v) /\ v.halting = r.halting /\ WaitsKept(r, v, NoThread)
      /\ Ranked(r, v) /\ GaveWay(r, v)
  BY <1>1, <1>2, CallStep
<1> HIDE DEF v
<1>4. WaitsKept(x, v, x.cur)
  BY <1>2, <1>3, WaitsThenLemma
<1>5. WaitsAlike(r, v, x.cur)
  BY <1>3, ThreadAssumption DEF WaitsKept, WaitQueue
<1>6. r.stat[x.cur] = "BLOCK" /\ r.halting = x.halting
  BY <1>2 DEF SameControl, Consistent, KernelState
<1> HIDE DEF r
<1>7. /\ v.stat[x.cur] = "BLOCK" /\ v.error[x.cur] = "EOK"
      /\ \A p \in WaitQueue : Contains(v.wait[p], x.cur) <=> p = q
  BY <1>2, <1>5, <1>6 DEF WaitsAlike
<1>8. Ranked(x, v)
  BY <1>2, <1>3, RankedThen DEF Consistent, Agree
<1> QED
  BY <1>3, <1>4, <1>6, <1>7, <1>8 DEF v

\* nd_thread_join keeps the kernel part: whom it waits for is alive.
LEMMA JoinStep ==
  ASSUME Sure(k), NEW t \in Thread, NEW timeout \in 1..MaxDelay \cup {Forever},
         nd_thread_join(t, timeout)
  PROVE  /\ Sure(k') /\ Urgent(k') /\ k'.halting = k.halting /\ WaitsKept(k, k', k.cur)
         /\ k'.stat[k.cur] = "BLOCK" /\ k'.error[k.cur] = "EOK"
         /\ \A p \in WaitQueue : Contains(k'.wait[p], k.cur) <=> p = t
         /\ Ranked(k, k')
<1>1. /\ InThread(k) /\ k.cur # Idle /\ k.stat[t] \notin {"INIT", "DEAD"}
      /\ k' = nd_scheduler(nd_thread_pend(k, t, timeout))
  BY DEF nd_thread_join, ThreadCalls, InOwnCode, Handle
<1>2. /\ k.cur \in Thread \ {Idle} /\ k.stat[k.cur] = "RUNNING" /\ Consistent(k)
      /\ t \in WaitQueue
  BY <1>1, InThreadLemma DEF Sure, WaitQueue
<1>3. timeout \in Nat \cup {Forever}
  BY DelayAssumption
<1>4. ~Deferred \/ IsrCalls \subseteq {"resume"} => Steady(k)
  BY DEF Sure
<1> QED
  BY <1>1, <1>2, <1>3, <1>4, PendStep

\* nd_thread_delay keeps the kernel part: the timer it arms is the only one of its thread.
LEMMA DelayStep ==
  ASSUME Sure(k), NEW d \in 0..MaxDelay, nd_thread_delay(d)
  PROVE  /\ Sure(k') /\ Urgent(k') /\ k'.halting = k.halting /\ WaitsKept(k, k', k.cur)
         /\ k'.stat[k.cur] = "BLOCK" /\ Delayed(k', k.cur)
         /\ \A q \in WaitQueue : ~Contains(k'.wait[q], k.cur)
         /\ Ranked(k, k')
<1> DEFINE c == k.cur
           s0 == nd_timer_stop(k, c, TRUE)
           l == [k.left EXCEPT ![c] = Slice[c]]
           w == [k.ran EXCEPT ![c] = -1]
           s1 == IF Slice[c] = 0 THEN k ELSE [s0 EXCEPT !.left[c] = Slice[c], !.ran[c] = -1]
           z == [k.stat EXCEPT ![c] = "BLOCK"]
           s2 == [s1 EXCEPT !.stat = z]
           r == nd_timer_start(s2, c, "delay", d)
<1>0. /\ InThread(k) /\ c # Idle /\ d \in Nat
      /\ k' = nd_scheduler(nd_timer_start([s1 EXCEPT !.stat[c] = "BLOCK"], c, "delay", d))
  BY DelayAssumption DEF nd_thread_delay, ThreadCalls, InOwnCode
<1>1. /\ k \in KernelState /\ Agree(k) /\ WaitsAgree(k) /\ TimersAgree(k) /\ ReadyAgree(k)
      /\ CurrentAgrees(k) /\ OnceEach(k.timers) /\ Consistent(k)
      /\ c \in Thread /\ k.stat[c] = "RUNNING" /\ ~k.pendsv /\ Idle \in Thread
      /\ k.stat \in [Thread -> Stat] /\ Slice[c] \in Nat
      /\ k.left \in [Thread -> Nat] /\ k.ran \in [Thread -> Nat \cup {-1}]
  BY <1>0, InThreadLemma, UnmaskedLemma, SliceAssumption
     DEF Agree, TimersAgree, KernelState, Sure
<1> HIDE DEF c
<1>2. /\ l \in [Thread -> Nat] /\ w \in [Thread -> Nat \cup {-1}] /\ z \in [Thread -> Stat]
      /\ z[c] = "BLOCK" /\ \A t \in Thread : t # c => z[t] = k.stat[t]
      /\ l[c] <= Slice[c] /\ \A t \in Thread \ {c} : l[t] = k.left[t] /\ w[t] = k.ran[t]
  BY <1>1 DEF Stat
<1>3. /\ s1 \in KernelState /\ s1.stat = k.stat /\ s1.wait = k.wait
      /\ s1.ready = k.ready /\ s1.bits = k.bits /\ s1.prio = k.prio /\ SameControl(k, s1)
      /\ OnceEach(s1.timers) /\ \A e : Contains(s1.timers, e) => Contains(k.timers, e)
      /\ s1.error = k.error
      /\ \A e : Contains(k.timers, e) /\ e.cb # "slice" => Contains(s1.timers, e)
      /\ AccountsBut(k, s1, c)
  <2>1. CASE Slice[c] = 0
    BY <1>1, <2>1 DEF SameControl, AccountsBut
  <2>2. CASE Slice[c] # 0
    <3> DEFINE q == s0
    <3>1. /\ q \in KernelState /\ OnlyTimers(k, q) /\ OnceEach(q.timers)
          /\ InTime(k.timers) => InTime(q.timers)
          /\ \A e : Contains(q.timers, e) <=> Contains(k.timers, e) /\ ~SameTimer(e, c, TRUE)
      <4>1. q = nd_timer_stop(k, c, TRUE) /\ TRUE \in BOOLEAN
        OBVIOUS
      <4> HIDE DEF q
      <4> QED
        BY ONLY <1>1, <4>1, TimerStopLemma
    <3>2. /\ q.left = k.left /\ q.ran = k.ran
          /\ q.stat = k.stat /\ q.wait = k.wait /\ q.ready = k.ready /\ q.bits = k.bits
          /\ q.prio = k.prio /\ SameControl(k, q) /\ q.error = k.error
      BY <1>1, <3>1, OnlyTimersFrame DEF SameControl
    <3>3. s1 = [q EXCEPT !.left = l, !.ran = w]
      BY <2>2, <3>1, <3>2 DEF KernelState
    <3> HIDE DEF q, l, w, s1
    <3>4. /\ s1 \in KernelState /\ s1.stat = q.stat /\ s1.wait = q.wait
          /\ s1.timers = q.timers /\ s1.ready = q.ready /\ s1.bits = q.bits
          /\ s1.prio = q.prio /\ SameControl(q, s1) /\ s1.error = q.error
          /\ s1.left = l /\ s1.ran = w
      BY <1>2, <3>1, <3>3 DEF KernelState, SameControl
    <3> QED
      BY <1>2, <3>1, <3>2, <3>4 DEF SameControl, SameTimer, AccountsBut
  <2> QED
    BY <2>1, <2>2
<1>4. k' = nd_scheduler(r)
  BY <1>0, <1>3 DEF KernelState
<1> HIDE DEF s1, z
<1>5. /\ s2 \in KernelState /\ s2.stat = z /\ s2.wait = k.wait /\ s2.timers = s1.timers
      /\ s2.ready = k.ready /\ s2.bits = k.bits /\ s2.prio = k.prio /\ SameControl(k, s2)
      /\ s2.error = k.error /\ s2.left = s1.left /\ s2.ran = s1.ran
  <2>1. /\ s2 \in KernelState /\ s2.stat = z /\ s2.wait = s1.wait /\ s2.timers = s1.timers
        /\ s2.ready = s1.ready /\ s2.bits = s1.bits /\ s2.prio = s1.prio
        /\ SameControl(s1, s2) /\ s2.error = s1.error
        /\ s2.left = s1.left /\ s2.ran = s1.ran
    BY <1>2, <1>3 DEF KernelState, SameControl
  <2> HIDE DEF s2
  <2> QED
    BY <1>3, <2>1 DEF SameControl
<1> HIDE DEF s2
<1>6. /\ r \in KernelState /\ OnlyTimers(s2, r) /\ OnceEach(r.timers)
      /\ InTime(s2.timers) => InTime(r.timers)
      /\ \A e : Contains(r.timers, e) <=>
           \/ Contains(s2.timers, e) /\ ~SameTimer(e, c, "delay" = "slice")
           \/ e = [who |-> c, cb |-> "delay", left |-> d]
  <2>1. /\ r = nd_timer_start(s2, c, "delay", d) /\ "delay" \in {"slice", "pend", "delay"}
        /\ OnceEach(s2.timers) /\ s2 \in KernelState /\ c \in Thread /\ d \in Nat
    BY <1>0, <1>1, <1>3, <1>5
  <2> HIDE DEF r
  <2> QED
    BY ONLY <2>1, TimerStartLemma
<1> HIDE DEF r
<1>7. /\ r.stat = z /\ r.wait = k.wait /\ r.ready = k.ready /\ r.bits = k.bits
      /\ r.prio = k.prio /\ SameControl(k, r) /\ r.error = k.error
      /\ r.left = s1.left /\ r.ran = s1.ran
  BY <1>5, <1>6, OnlyTimersFrame DEF SameControl
<1>8. ~Linked(k, c)
  BY <1>1 DEF WaitsAgree
<1>9. TimersAgree(r)
  <2>1. ASSUME NEW e, Contains(r.timers, e) PROVE TimerAgrees(r, e)
    <3>1. CASE e = [who |-> c, cb |-> "delay", left |-> d]
      <4>1. e.who = c /\ e.cb = "delay"
        BY <3>1
      <4> QED
        BY <1>2, <1>7, <1>8, <4>1 DEF TimerAgrees, Linked
    <3>2. CASE Contains(k.timers, e)
      <4>1. TimerAgrees(k, e) /\ e \in Timer
        BY <1>1, <3>2, TimersForm
      <4>2. e.who \in Thread
        BY <4>1 DEF Timer
      <4> QED
        BY <1>1, <1>2, <1>7, <4>1, <4>2 DEF TimerAgrees, Linked, SameControl
    <3> QED
      BY <1>3, <1>5, <1>6, <2>1, <3>1, <3>2
  <2> QED
    BY <1>6, <2>1, TimersForm
<1>10. ReadyAgree(r) /\ WaitsAgree(r)
  BY <1>1, <1>2, <1>7 DEF ReadyAgree, WaitsAgree, Linked
<1>11. CurrentAgrees(r) /\ SwitchAgrees(r)
  BY <1>0, <1>1, <1>2, <1>7 DEF CurrentAgrees, SwitchAgrees, SameControl, c
<1>11a. SlicesAgree(r)
  <2>1. AccountsBut(k, r, c)
    BY <1>3, <1>5, <1>6, <1>7 DEF AccountsBut
  <2>2. \A e : Contains(r.timers, e) /\ e.cb = "slice" => Contains(k.timers, e)
    BY <1>3, <1>5, <1>6
  <2>3. /\ r.stat[c] # "RUNNING" /\ \A u \in Thread \ {c} : r.stat[u] = k.stat[u]
        /\ k.expiring => r.expiring
        /\ SlicesAgree(k)
    BY <1>1, <1>2, <1>7 DEF SameControl, Agree
  <2> QED
    BY <1>1, <1>6, <2>1, <2>2, <2>3, AccountsLemma
<1>12. Consistent(r)
  <2>1. \A t \in Thread : r.stat[t] \in {"INIT", "DEAD"} => r.stat[t] = k.stat[t]
    BY <1>2, <1>7
  <2> QED
    BY <1>1, <1>6, <1>7, <1>9, <1>10, <1>11, <1>11a, <2>1, ConsistentLemma DEF Agree
<1>13. Steady(k) => Steady(r)
  BY <1>1, <1>7 DEF Steady, SameControl
<1>14. WaitsKept(k, r, c)
  <2>1. \A u \in Thread \ {c} : WaitsAlike(k, r, u)
    <3> SUFFICES ASSUME NEW u \in Thread \ {c} PROVE WaitsAlike(k, r, u)
      OBVIOUS
    <3>1. r.stat[u] = k.stat[u] /\ r.error[u] = k.error[u] /\ r.wait = k.wait
      BY <1>2, <1>7
    <3>2. \A e : e.who = u /\ e.cb = "delay" =>
            (Contains(r.timers, e) <=> Contains(k.timers, e))
      BY <1>3, <1>5, <1>6 DEF SameTimer
    <3>3. Delayed(r, u) <=> Delayed(k, u)
      BY <3>2 DEF Delayed
    <3> QED
      BY <3>1, <3>3 DEF WaitsAlike
  <2>2. OrderKept(k, r)
    BY <1>7 DEF OrderKept, InOrder
  <2> QED
    BY <1>7, <2>1, <2>2 DEF WaitsKept
<1>15. Delayed(r, c)
  <2> DEFINE e == [who |-> c, cb |-> "delay", left |-> d]
  <2>1. Contains(r.timers, e) /\ e.who = c /\ e.cb = "delay"
    BY <1>6
  <2> QED
    BY <2>1 DEF Delayed
<1>16. r.stat[c] = "BLOCK" /\ r.halting = k.halting
  BY <1>2, <1>7 DEF SameControl
<1>17. \A q \in WaitQueue : ~Contains(r.wait[q], c)
  BY <1>7, <1>8 DEF Linked
<1>17a. Behind(k, r)
  BY <1>1, <1>2, <1>7, BehindSame
<1> HIDE DEF r
<1>18. ~Deferred \/ IsrCalls \subseteq {"resume"} => Steady(r)
  BY <1>13 DEF Sure
<1>19. /\ Sure(k') /\ Urgent(k') /\ k'.halting = r.halting /\ WaitsKept(k, k', c)
       /\ WaitsAlike(r, k', c) /\ Ranked(k, k')
  BY <1>1, <1>4, <1>12, <1>14, <1>17a, <1>18, ThenStep
<1>20. /\ k'.stat[c] = "BLOCK" /\ Delayed(k', c)
       /\ \A q \in WaitQueue : ~Contains(k'.wait[q], c)
  BY <1>15, <1>16, <1>17, <1>19 DEF WaitsAlike
<1> QED
  BY <1>16, <1>19, <1>20 DEF c

\* A thread that is neither READY nor RUNNING any more, once it is untied from the lists
\* and the timers.
LEMMA StoppedLemma ==
  ASSUME NEW s, Consistent(s), NEW t \in Thread \ {Idle},
         NEW r \in KernelState, ReadyAgree(r),
         r.stat = [s.stat EXCEPT ![t] = r.stat[t]], r.stat[t] \in {"SUSPEND", "DEAD"},
         Unlinked(s, r, t), Untimed(s, r, t), AccountsBut(s, r, t), r.expiring = s.expiring,
         r.cur = s.cur, r.next = s.next, r.pendsv = s.pendsv, r.nest = s.nest,
         r.try = s.try, r.isr = s.isr,
         r.stat[t] = "DEAD" => r.halting = t,
         r.halting # s.halting => s.halting = NoThread
  PROVE  Consistent(r)
<1>0. /\ s \in KernelState /\ WaitsAgree(s) /\ TimersAgree(s) /\ CurrentAgrees(s)
      /\ SwitchAgrees(s) /\ s.stat \in [Thread -> Stat] /\ Idle \in Thread
      /\ s.next \in Thread \cup {NoThread} /\ s.cur \in Thread \cup {NoThread}
      /\ NoThread \notin Thread /\ Thread \subseteq WaitQueue
  BY ThreadAssumption DEF Consistent, Agree, KernelState, WaitQueue
<1>1. \A u \in Thread \ {t} : r.stat[u] = s.stat[u]
  BY <1>0
<1>2. WaitsAgree(r) /\ TimersAgree(r)
  BY <1>0, <1>1, UntieLemma
<1>2a. SlicesAgree(r)
  <2>1. /\ SlicesAgree(s) /\ (s.expiring => r.expiring) /\ r.stat[t] # "RUNNING"
        /\ \A e : Contains(r.timers, e) => Contains(s.timers, e)
    BY DEF Consistent, Agree, Untimed
  <2> QED
    BY <1>0, <1>1, <2>1, AccountsLemma
<1>3. CurrentAgrees(r)
  BY <1>0, <1>1 DEF CurrentAgrees
<1>4. SwitchAgrees(r)
  BY <1>0, <1>1 DEF SwitchAgrees
<1>5. NestCounts(r) /\ (r.try => r.isr # <<>>)
  BY DEF Consistent, NestCounts, Open
<1>6. DeadUnwaited(r)
  <2> SUFFICES ASSUME NEW u \in Thread, r.stat[u] \in {"INIT", "DEAD"}, r.halting # u
               PROVE  r.wait[u] = <<>>
    BY DEF DeadUnwaited
  <2>1. u # t /\ s.stat[u] \in {"INIT", "DEAD"} /\ s.halting # u
    BY <1>0, <1>1
  <2> QED
    BY <1>0, <2>1 DEF Consistent, DeadUnwaited, Unlinked
<1> QED
  BY <1>2, <1>2a, <1>3, <1>4, <1>5, <1>6 DEF Consistent, Agree

\* Where a switch cannot go stale, none is pending when a thread is stopped.
LEMMA StopsLemma ==
  ASSUME Sure(k), NEW call \in {"suspend", "abort", "return"},
         ThreadCalls(call) \/ HandlerCalls(call)
  PROVE  /\ ~Masked(k)
         /\ ~Deferred \/ IsrCalls \subseteq {"resume"} => ~k.pendsv /\ ~k.fault
<1>1. ~Masked(k)
  BY InThreadLemma DEF ThreadCalls, InOwnCode, HandlerCalls, InHandler
<1>2. Agree(k) /\ ~k.fault
  BY <1>1, UnmaskedLemma
<1>3. CASE ThreadCalls(call)
  BY <1>1, <1>2, <1>3, InThreadLemma DEF ThreadCalls, InOwnCode
<1>4. CASE HandlerCalls(call)
  <2>1. call \in IsrCalls
    BY <1>4 DEF HandlerCalls
  <2>2. ~Deferred => ~k.pendsv
    BY <1>2 DEF Agree, SwitchAgrees
  <2> QED
    BY <1>1, <1>2, <2>1, <2>2
<1> QED
  BY <1>3, <1>4

\* nd_thread_suspend keeps the kernel part, from each state of the thread.
LEMMA SuspendStep ==
  ASSUME Sure(k), NEW t \in Thread, nd_thread_suspend(t)
  PROVE  /\ Sure(k') /\ (Urgent(k) => Urgent(k')) /\ k'.halting = k.halting
         /\ WaitsKept(k, k', t) /\ k'.stat[t] = "SUSPEND" /\ k'.error[t] = k.error[t]
         /\ k.stat[t] \in {"READY", "RUNNING", "BLOCK"} /\ Ranked(k, k')
<1> DEFINE z == [k.stat EXCEPT ![t] = "SUSPEND"]
           s == [k EXCEPT !.stat = z]
<1>1. /\ ~Masked(k) /\ t # Idle
      /\ ~Deferred \/ IsrCalls \subseteq {"resume"} => ~k.pendsv /\ ~k.fault
  BY StopsLemma DEF nd_thread_suspend, Handle
<1>2. /\ k \in KernelState /\ Agree(k) /\ ReadyAgree(k) /\ WaitsAgree(k) /\ TimersAgree(k)
      /\ CurrentAgrees(k) /\ SwitchAgrees(k) /\ OnceEach(k.timers) /\ Consistent(k) /\ Settled(k)
      /\ k.stat \in [Thread -> Stat] /\ k.halting = NoThread /\ t \in Thread \ {Idle}
      /\ \A q \in WaitQueue : IsInjective(k.wait[q])
  BY <1>1, UnmaskedLemma DEF Agree, TimersAgree, WaitsAgree, Sure
<1>3. /\ z \in [Thread -> Stat] /\ z[t] = "SUSPEND" /\ \A u \in Thread : u # t => z[u] = k.stat[u]
      /\ z = [k.stat EXCEPT ![t] = z[t]]
  BY <1>2 DEF Stat
<1>4. [k EXCEPT !.stat[t] = "SUSPEND"] = s
  BY <1>2 DEF KernelState
<1> HIDE DEF z
<1>5. /\ s \in KernelState /\ s.stat = z /\ s.wait = k.wait /\ s.timers = k.timers
      /\ s.ready = k.ready /\ s.bits = k.bits /\ s.prio = k.prio /\ SameControl(k, s)
      /\ s.error = k.error /\ s.left = k.left /\ s.ran = k.ran
  BY <1>2, <1>3 DEF KernelState, SameControl
<1>6. \/ k.stat[t] = "READY"   /\ k' = nd_thread_ready_remove(s, t)
      \/ k.stat[t] = "RUNNING" /\ k' = nd_scheduler(s)
      \/ k.stat[t] = "BLOCK"   /\ k' = nd_scheduler(nd_timer_stop(WaitRemove(s, t), t, FALSE))
  BY <1>4 DEF nd_thread_suspend
<1> HIDE DEF s
<1>7. CASE k.stat[t] = "READY" /\ k' = nd_thread_ready_remove(s, t)
  <2> DEFINE r == nd_thread_ready_remove(s, t)
  <2>1. ReadyMaybe(s, t)
    BY <1>2, <1>3, <1>5 DEF ReadyAgree, ReadyMaybe
  <2>2. /\ r \in KernelState /\ OnlyReadyOrFault(s, r) /\ ReadyBut(r, t)
        /\ r.fault <=> s.fault \/ ~Contains(s.ready[s.prio[t]], t)
    <3>1. r = nd_thread_ready_remove(s, t) /\ t \in Thread
      OBVIOUS
    <3> HIDE DEF r
    <3> QED
      BY ONLY <1>5, <2>1, <3>1, ReadyRemoveLemma
  <2>2a. Ranked(k, r)
    <3>1. /\ r.ready = nd_thread_ready_remove(s, t).ready /\ t \in Thread
          /\ \A p \in Prio : IsInjective(s.ready[p])
      BY <1>2, <1>5 DEF ReadyAgree
    <3> HIDE DEF r
    <3>2. Thinned(k, r)
      BY ONLY <1>5, <3>1, ThinnedRemoved
    <3> QED
      BY <3>2, RankedThinned
  <2> HIDE DEF r
  <2>3. /\ r.stat = z /\ r.wait = k.wait /\ r.timers = k.timers /\ r.prio = k.prio
        /\ r.error = k.error
        /\ r.cur = k.cur /\ r.next = k.next /\ r.pendsv = k.pendsv /\ r.nest = k.nest
        /\ r.try = k.try /\ r.isr = k.isr /\ r.halting = k.halting
        /\ r.expiring = k.expiring /\ r.left = k.left /\ r.ran = k.ran
    BY <1>5, <2>2, OnlyReadyOrFaultFrame DEF SameControl
  <2>4. ReadyAgree(r)
    BY <1>3, <2>2, <2>3 DEF ReadyBut, ReadyAgree
  <2>5. Unlinked(k, r, t) /\ Untimed(k, r, t)
    BY <1>2, <1>7, <2>3, FreeLemma
  <2>5a. AccountsBut(k, r, t)
    BY <2>3 DEF AccountsBut
  <2>6. Consistent(r)
    BY <1>2, <1>3, <2>2, <2>3, <2>4, <2>5, <2>5a, StoppedLemma
  <2>7. Settled(r)
    <3>1. k.cur # NoThread /\ z[k.cur] # "RUNNING" => k.stat[k.cur] # "RUNNING"
      BY <1>2, <1>3, <1>7 DEF KernelState
    <3> QED
      BY <1>2, <2>3, <3>1 DEF Settled, Booted
  <2>8. ~Deferred \/ IsrCalls \subseteq {"resume"} => Steady(r)
    <3>1. Contains(s.ready[s.prio[t]], t)
      BY <1>2, <1>5, <1>7 DEF ReadyAgree, KernelState
    <3> QED
      BY <1>1, <1>5, <2>2, <2>3, <3>1 DEF Steady, SameControl
  <2>9. WaitsKept(k, r, t)
    <3>1. OrderKept(k, r)
      BY <2>3 DEF OrderKept, InOrder
    <3>2. \A u \in Thread \ {t} : r.stat[u] = k.stat[u] /\ r.error[u] = k.error[u]
      BY <1>3, <2>3
    <3> QED
      BY <2>3, <2>5, <3>1, <3>2, WaitsUntiedLemma
  <2>10. Urgent(k) => Urgent(r)
    <3>1. k.cur # NoThread => k.cur \in Thread
      BY <1>2 DEF KernelState
    <3>2. \A u \in Thread : z[u] = "READY" => k.stat[u] = "READY"
      BY <1>3
    <3>3. k.cur # NoThread /\ z[k.cur] = "RUNNING" => k.stat[k.cur] = "RUNNING"
      BY <1>3, <3>1
    <3> QED
      BY <2>3, <3>2, <3>3 DEF Urgent, MostUrgent
  <2> QED
    BY <1>3, <1>7, <2>2a, <2>3, <2>6, <2>7, <2>8, <2>9, <2>10 DEF Sure, r
\* What suspending a thread and running the scheduler comes to.
<1>10. ASSUME NEW x, Consistent(x), ~Deferred \/ IsrCalls \subseteq {"resume"} => Steady(x),
              k' = nd_scheduler(x), Unlinked(k, x, t), Untimed(k, x, t), SameControl(k, x),
              x.stat = z, x.error = k.error, x.prio = k.prio, OrderKept(k, x),
              x.ready = k.ready
       PROVE  /\ Sure(k') /\ Urgent(k') /\ k'.halting = k.halting
              /\ WaitsKept(k, k', t) /\ k'.stat[t] = "SUSPEND" /\ k'.error[t] = k.error[t]
              /\ Ranked(k, k')
  <2>1. \A u \in Thread \ {t} : x.stat[u] = k.stat[u] /\ x.error[u] = k.error[u]
    BY <1>3, <1>10
  <2>2. WaitsKept(k, x, t)
    BY <1>10, <2>1, WaitsUntiedLemma
  <2>2a. Behind(k, x)
    BY <1>3, <1>10, BehindSame
  <2>3. /\ Sure(k') /\ Urgent(k') /\ k'.halting = x.halting /\ WaitsKept(k, k', t)
        /\ WaitsAlike(x, k', t) /\ Ranked(k, k')
    BY <1>2, <1>10, <2>2, <2>2a, ThenStep
  <2> QED
    BY <1>3, <1>10, <2>3 DEF WaitsAlike, SameControl
<1>8. CASE k.stat[t] = "RUNNING" /\ k' = nd_scheduler(s)
  <2>1. t = k.cur /\ ~k.pendsv
    BY <1>2, <1>8 DEF CurrentAgrees, SwitchAgrees
  <2>2. ReadyAgree(s)
    BY <1>2, <1>3, <1>5, <1>8 DEF ReadyAgree
  <2>3. Unlinked(k, s, t) /\ Untimed(k, s, t)
    BY <1>2, <1>5, <1>8, FreeLemma
  <2>3a. AccountsBut(k, s, t)
    BY <1>5 DEF AccountsBut
  <2>4. Consistent(s)
    BY <1>2, <1>3, <1>5, <2>2, <2>3, <2>3a, StoppedLemma DEF SameControl
  <2>5. Steady(k) => Steady(s)
    BY <1>5, <2>1 DEF Steady, SameControl
  <2>6. ~Deferred \/ IsrCalls \subseteq {"resume"} => Steady(s)
    BY <2>5 DEF Sure
  <2>7. OrderKept(k, s)
    BY <1>5 DEF OrderKept, InOrder
  <2> QED
    BY <1>5, <1>8, <1>10, <2>3, <2>4, <2>6, <2>7
<1>9. CASE k.stat[t] = "BLOCK" /\ k' = nd_scheduler(nd_timer_stop(WaitRemove(s, t), t, FALSE))
  <2> DEFINE x == WaitRemove(s, t)
             r == nd_timer_stop(x, t, FALSE)
  <2>1. /\ x \in KernelState /\ OnlyWait(s, x) /\ Unlinked(s, x, t)
        /\ OrderKept(s, x)
    <3>1. x = WaitRemove(s, t) /\ \A q \in WaitQueue : IsInjective(s.wait[q])
      BY <1>2, <1>5
    <3> HIDE DEF x
    <3> QED
      BY ONLY <1>5, <3>1, t \in Thread, WaitRemoveLemma
  <2>2. r = nd_timer_stop(x, t, FALSE) /\ k' = nd_scheduler(r)
    BY <1>9
  <2> HIDE DEF x, r
  <2>3. /\ x.stat = z /\ x.timers = k.timers /\ x.ready = k.ready /\ x.bits = k.bits
        /\ x.prio = k.prio /\ SameControl(k, x) /\ Unlinked(k, x, t)
        /\ x.error = k.error /\ x.left = k.left /\ x.ran = k.ran
    BY <1>5, <2>1, OnlyWaitFrame DEF SameControl, Unlinked
  <2>4. /\ r \in KernelState /\ OnlyTimers(x, r) /\ OnceEach(r.timers)
        /\ InTime(x.timers) => InTime(r.timers)
        /\ \A e : Contains(r.timers, e) <=> Contains(x.timers, e) /\ ~SameTimer(e, t, FALSE)
    <3>1. OnceEach(x.timers) /\ FALSE \in BOOLEAN
      BY <1>2, <2>3
    <3> QED
      BY ONLY <2>1, <2>2, <3>1, t \in Thread, TimerStopLemma
  <2>5. /\ r.stat = z /\ r.wait = x.wait /\ r.ready = k.ready /\ r.bits = k.bits
        /\ r.prio = k.prio /\ SameControl(k, r) /\ r.error = k.error
        /\ r.left = k.left /\ r.ran = k.ran
    BY <2>1, <2>3, <2>4, OnlyTimersFrame DEF SameControl
  <2>6. Unlinked(k, r, t) /\ Untimed(k, r, t)
    BY <2>3, <2>4, <2>5 DEF Unlinked, Untimed, SameTimer
  <2>7. ReadyAgree(r)
    BY <1>2, <1>3, <1>9, <2>5 DEF ReadyAgree
  <2>7a. AccountsBut(k, r, t)
    BY <2>3, <2>4, <2>5 DEF AccountsBut
  <2>8. Consistent(r)
    BY <1>2, <1>3, <2>4, <2>5, <2>6, <2>7, <2>7a, StoppedLemma DEF SameControl
  <2>9. ~Deferred \/ IsrCalls \subseteq {"resume"} => Steady(r)
    BY <1>1, <2>5 DEF Steady, SameControl
  <2>10. OrderKept(k, r)
    BY <1>5, <2>1, <2>3, <2>5 DEF OrderKept, InOrder
  <2> QED
    BY <1>9, <1>10, <2>2, <2>5, <2>6, <2>8, <2>9, <2>10
<1> QED
  BY <1>6, <1>7, <1>8, <1>9

\* nd_thread_halt up to its loop keeps the kernel part: the dead thread is on no list and
\* in no timer.
LEMMA AbortStep ==
  ASSUME Sure(k), NEW t \in Thread, nd_thread_abort(t)
  PROVE  /\ Sure(k') /\ (Urgent(k) => Urgent(k')) /\ k'.halting = t /\ WaitsKept(k, k', t)
         /\ k'.stat[t] = "DEAD" /\ k'.cur = k.cur /\ k'.pendsv = k.pendsv
         /\ k'.expiring = k.expiring /\ Ranked(k, k')
<1> DEFINE s1 == CASE k.stat[t] = "READY" -> nd_thread_ready_remove(k, t)
                   [] k.stat[t] = "BLOCK" -> WaitRemove(k, t)
                   [] OTHER -> k
           s2 == nd_timer_stop(s1, t, FALSE)
           s3 == nd_timer_stop(s2, t, TRUE)
           z == [k.stat EXCEPT ![t] = "DEAD"]
           r == [s3 EXCEPT !.stat = z, !.halting = t]
<1>1. /\ ~Masked(k) /\ t # Idle
      /\ ~Deferred \/ IsrCalls \subseteq {"resume"} => ~k.pendsv /\ ~k.fault
  BY StopsLemma DEF nd_thread_abort, Handle
<1>2. /\ k \in KernelState /\ Agree(k) /\ ReadyAgree(k) /\ WaitsAgree(k) /\ TimersAgree(k)
      /\ OnceEach(k.timers) /\ Consistent(k) /\ Settled(k)
      /\ k.stat \in [Thread -> Stat] /\ k.halting = NoThread /\ t \in Thread \ {Idle}
      /\ \A q \in WaitQueue : IsInjective(k.wait[q])
      /\ k.cur \in Thread \cup {NoThread} /\ NoThread \notin Thread
  BY <1>1, UnmaskedLemma DEF Agree, TimersAgree, WaitsAgree, Sure
<1>3. k' = [s3 EXCEPT !.stat[t] = "DEAD", !.halting = t]
  BY DEF nd_thread_abort, Halt
<1>4. /\ z \in [Thread -> Stat] /\ z[t] = "DEAD" /\ \A u \in Thread : u # t => z[u] = k.stat[u]
      /\ z = [k.stat EXCEPT ![t] = z[t]]
  BY <1>2 DEF Stat
<1>5. /\ s1 \in KernelState /\ ReadyBut(s1, t) /\ s1.stat = k.stat /\ s1.timers = k.timers
      /\ s1.prio = k.prio /\ s1.cur = k.cur /\ s1.next = k.next /\ s1.pendsv = k.pendsv
      /\ s1.nest = k.nest /\ s1.try = k.try /\ s1.isr = k.isr /\ s1.halting = k.halting
      /\ s1.fault = k.fault /\ Unlinked(k, s1, t) /\ s1.error = k.error
      /\ s1.expiring = k.expiring /\ OrderKept(k, s1) /\ Thinned(k, s1)
      /\ s1.left = k.left /\ s1.ran = k.ran
  <2>1. CASE k.stat[t] = "READY"
    <3> DEFINE x == s1
    <3>1. x = nd_thread_ready_remove(k, t) /\ ReadyMaybe(k, t)
      BY <1>2, <2>1 DEF ReadyAgree, ReadyMaybe
    <3> HIDE DEF x
    <3>2. /\ x \in KernelState /\ OnlyReadyOrFault(k, x) /\ ReadyBut(x, t)
          /\ x.fault <=> k.fault \/ ~Contains(k.ready[k.prio[t]], t)
      BY ONLY <1>2, <3>1, t \in Thread, ReadyRemoveLemma
    <3>3. Contains(k.ready[k.prio[t]], t)
      BY <1>2, <2>1 DEF ReadyAgree, KernelState
    <3>4. x.fault = k.fault
      <4>1. x.fault \in BOOLEAN /\ k.fault \in BOOLEAN
        BY <1>2, <3>2 DEF KernelState
      <4> QED
        BY <3>2, <3>3, <4>1
    <3>5. /\ x.stat = k.stat /\ x.timers = k.timers /\ x.wait = k.wait
          /\ x.prio = k.prio /\ x.cur = k.cur /\ x.next = k.next /\ x.pendsv = k.pendsv
          /\ x.nest = k.nest /\ x.try = k.try /\ x.isr = k.isr /\ x.halting = k.halting
          /\ x.error = k.error /\ x.expiring = k.expiring
          /\ x.left = k.left /\ x.ran = k.ran
      BY <1>2, <3>2, OnlyReadyOrFaultFrame
    <3>6. Unlinked(k, x, t)
      BY <1>2, <2>1, <3>5, FreeLemma
    <3>7. OrderKept(k, x)
      BY <3>5 DEF OrderKept, InOrder
    <3>8. Thinned(k, x)
      BY <1>2, <3>1, ThinnedRemoved DEF ReadyAgree
    <3> QED
      BY <3>2, <3>4, <3>5, <3>6, <3>7, <3>8 DEF x
  <2>2. CASE k.stat[t] = "BLOCK"
    <3> DEFINE x == s1
    <3>1. x = WaitRemove(k, t)
      BY <2>2
    <3> HIDE DEF x
    <3>2. /\ x \in KernelState /\ OnlyWait(k, x) /\ Unlinked(k, x, t)
          /\ OrderKept(k, x)
      BY ONLY <1>2, <3>1, t \in Thread, WaitRemoveLemma
    <3>3. /\ x.stat = k.stat /\ x.timers = k.timers /\ x.ready = k.ready /\ x.bits = k.bits
          /\ x.prio = k.prio /\ x.cur = k.cur /\ x.next = k.next /\ x.pendsv = k.pendsv
          /\ x.nest = k.nest /\ x.try = k.try /\ x.isr = k.isr /\ x.halting = k.halting
          /\ x.fault = k.fault /\ x.error = k.error /\ x.expiring = k.expiring
          /\ x.left = k.left /\ x.ran = k.ran
      BY <1>2, <3>2, OnlyWaitFrame
    <3>4. ReadyBut(x, t)
      BY <1>2, <2>2, <3>3 DEF ReadyAgree, ReadyBut
    <3> QED
      BY <3>2, <3>3, <3>4 DEF x, Thinned
  <2>3. CASE k.stat[t] \notin {"READY", "BLOCK"}
    <3>1. s1 = k
      BY <2>3
    <3>2. ReadyBut(k, t)
      BY <1>2, <2>3 DEF ReadyAgree, ReadyBut
    <3>3. Unlinked(k, k, t) /\ OrderKept(k, k)
      BY <1>2, <2>3, FreeLemma DEF OrderKept
    <3> QED
      BY <1>2, <3>1, <3>2, <3>3 DEF Thinned
  <2> QED
    BY <2>1, <2>2, <2>3
<1> HIDE DEF s1
<1>6. /\ s2 \in KernelState /\ OnlyTimers(s1, s2) /\ OnceEach(s2.timers)
      /\ InTime(s1.timers) => InTime(s2.timers)
      /\ \A e : Contains(s2.timers, e) <=> Contains(s1.timers, e) /\ ~SameTimer(e, t, FALSE)
  <2>1. s2 = nd_timer_stop(s1, t, FALSE) /\ OnceEach(s1.timers) /\ FALSE \in BOOLEAN
    BY <1>2, <1>5
  <2> HIDE DEF s2
  <2> QED
    BY ONLY <1>5, <2>1, t \in Thread, TimerStopLemma
<1> HIDE DEF s2
<1>7. /\ s3 \in KernelState /\ OnlyTimers(s2, s3) /\ OnceEach(s3.timers)
      /\ InTime(s2.timers) => InTime(s3.timers)
      /\ \A e : Contains(s3.timers, e) <=> Contains(s2.timers, e) /\ ~SameTimer(e, t, TRUE)
  <2>1. s3 = nd_timer_stop(s2, t, TRUE) /\ TRUE \in BOOLEAN
    OBVIOUS
  <2> HIDE DEF s3
  <2> QED
    BY ONLY <1>6, <2>1, t \in Thread, TimerStopLemma
<1> HIDE DEF s3
<1>8. /\ s3.stat = k.stat /\ s3.wait = s1.wait /\ s3.ready = s1.ready /\ s3.bits = s1.bits
      /\ s3.prio = k.prio /\ s3.cur = k.cur /\ s3.next = k.next /\ s3.pendsv = k.pendsv
      /\ s3.nest = k.nest /\ s3.try = k.try /\ s3.isr = k.isr /\ s3.halting = k.halting
      /\ s3.fault = k.fault /\ s3.error = k.error /\ s3.expiring = k.expiring
      /\ s3.left = k.left /\ s3.ran = k.ran
  BY <1>5, <1>6, <1>7, OnlyTimersFrame
<1>9. k' = r
  BY <1>3, <1>7, <1>8 DEF KernelState
<1> HIDE DEF z
<1>10. /\ r \in KernelState /\ r.stat = z /\ r.halting = t /\ r.timers = s3.timers
       /\ r.wait = s3.wait /\ r.ready = s3.ready /\ r.bits = s3.bits
       /\ r.prio = s3.prio /\ r.cur = s3.cur /\ r.next = s3.next /\ r.pendsv = s3.pendsv
       /\ r.nest = s3.nest /\ r.try = s3.try /\ r.isr = s3.isr /\ r.fault = s3.fault
       /\ r.error = s3.error /\ r.expiring = s3.expiring
       /\ r.left = s3.left /\ r.ran = s3.ran
  BY <1>4, <1>7 DEF KernelState
<1> HIDE DEF r
<1>11. ReadyAgree(r)
  BY <1>4, <1>5, <1>8, <1>10 DEF ReadyBut, ReadyAgree
<1>12. Unlinked(k, r, t) /\ Untimed(k, r, t)
  BY <1>5, <1>6, <1>7, <1>8, <1>10 DEF Unlinked, Untimed, SameTimer
<1>12a. AccountsBut(k, r, t)
  BY <1>5, <1>6, <1>7, <1>8, <1>10 DEF AccountsBut
<1>13. Consistent(r)
  BY <1>2, <1>4, <1>8, <1>10, <1>11, <1>12, <1>12a, StoppedLemma
<1>14. Settled(r)
  <2>1. ASSUME r.cur # NoThread, r.stat[r.cur] # "RUNNING"
        PROVE  r.pendsv \/ r.try \/ r.halting = r.cur
    <3>1. CASE k.cur = t
      BY <1>8, <1>10, <3>1
    <3>2. CASE k.cur # t
      BY <1>2, <1>4, <1>8, <1>10, <2>1, <3>2 DEF Settled, Booted
    <3> QED
      BY <3>1, <3>2
  <2> QED
    BY <1>2, <1>8, <1>10, <2>1 DEF Settled, Booted
<1>15. ~Deferred \/ IsrCalls \subseteq {"resume"} => Steady(r)
  BY <1>1, <1>8, <1>10 DEF Steady
<1>16. WaitsKept(k, r, t)
  <2>1. OrderKept(k, r)
    BY <1>5, <1>8, <1>10 DEF OrderKept, InOrder
  <2>2. \A u \in Thread \ {t} : r.stat[u] = k.stat[u] /\ r.error[u] = k.error[u]
    BY <1>4, <1>8, <1>10
  <2>3. r.prio = k.prio
    BY <1>8, <1>10
  <2> QED
    BY <1>12, <2>1, <2>2, <2>3, WaitsUntiedLemma
<1>17. Urgent(k) => Urgent(r)
  <2>1. \A u \in Thread : z[u] = "READY" => k.stat[u] = "READY"
    BY <1>4
  <2>2. k.cur # NoThread /\ z[k.cur] = "RUNNING" => k.stat[k.cur] = "RUNNING"
    BY <1>2, <1>4
  <2> QED
    BY <1>8, <1>10, <2>1, <2>2 DEF Urgent, MostUrgent
<1>18. Ranked(k, r)
  <2>1. Thinned(k, r)
    BY <1>5, <1>8, <1>10 DEF Thinned
  <2> QED
    BY <2>1, RankedThinned
<1> QED
  BY <1>4, <1>8, <1>9, <1>10, <1>13, <1>14, <1>15, <1>16, <1>17, <1>18 DEF Sure

\* Every turn of the loop of nd_thread_halt keeps the kernel part; when it ends nobody
\* waits for the dead thread.
LEMMA HaltLoopStep ==
  ASSUME Sure(k), HaltLoop
  PROVE  /\ Sure(k')
         /\ k.wait[k.halting] # <<>> =>
              Readied(k, k', Head(k.wait[k.halting])) /\ k'.error[Head(k.wait[k.halting])] = "EOK"
         /\ k.wait[k.halting] = <<>> => WaitsKept(k, k', NoThread) /\ k'.halting = NoThread
         /\ k.wait[k.halting] = <<>> /\ k.halting = k.cur => Urgent(k')
         /\ Ranked(k, k')
<1> DEFINE t == k.halting
           s == [k EXCEPT !.halting = NoThread]
<1>1. /\ t # NoThread
      /\ k' = IF k.wait[t] # <<>> THEN nd_thread_wakeup(k, t)
              ELSE IF t = k.cur THEN nd_scheduler(s) ELSE s
  BY DEF HaltLoop
<1>2. /\ k \in KernelState /\ Agree(k) /\ Consistent(k) /\ Settled(k) /\ t \in WaitQueue
      /\ t \in Thread /\ NoThread \notin Thread /\ Thread \subseteq WaitQueue
      /\ k.cur \in Thread \cup {NoThread}
  BY <1>1, ThreadAssumption DEF Sure, Consistent, KernelState, WaitQueue
<1>3. CASE k.wait[t] # <<>>
  <2> DEFINE r == nd_thread_wakeup(k, t)
  <2>1. Readied(k, r, Head(k.wait[t])) /\ r.error[Head(k.wait[t])] = "EOK"
    <3> HIDE DEF t
    <3>1. r = nd_thread_wakeup(k, t)
      OBVIOUS
    <3> HIDE DEF r
    <3> QED
      BY ONLY <1>2, <1>3, <3>1, WakeupLemma
  <2> HIDE DEF r
  <2> QED
    BY <1>1, <1>2, <1>3, <2>1, RankedBehind DEF Readied, Sure, r
<1>4. CASE k.wait[t] = <<>>
  <2>1. /\ s \in KernelState /\ s.stat = k.stat /\ s.wait = k.wait /\ s.timers = k.timers
        /\ s.ready = k.ready /\ s.bits = k.bits /\ s.prio = k.prio /\ s.cur = k.cur
        /\ s.next = k.next /\ s.pendsv = k.pendsv /\ s.nest = k.nest /\ s.try = k.try
        /\ s.isr = k.isr /\ s.fault = k.fault /\ s.halting = NoThread
        /\ s.error = k.error /\ s.expiring = k.expiring /\ s.left = k.left /\ s.ran = k.ran
    BY <1>2 DEF KernelState
  <2> HIDE DEF s
  <2>1a. SlicesAgree(s)
    BY <1>2, <2>1, SlicesKeptLemma DEF Agree
  <2>2. Agree(s)
    BY <1>2, <2>1, <2>1a DEF Agree, ReadyAgree, WaitsAgree, TimersAgree, TimerAgrees, Linked,
                      CurrentAgrees, SwitchAgrees
  <2>3. DeadUnwaited(s)
    BY <1>2, <1>4, <2>1 DEF Consistent, DeadUnwaited
  <2>4. Consistent(s) /\ (Steady(k) => Steady(s))
    BY <1>2, <2>1, <2>2, <2>3 DEF Consistent, NestCounts, Open, Steady
  <2>7. WaitsKept(k, s, NoThread)
    BY <2>1, WaitsSameLemma
  <2>8. ReadyAgree(k) /\ Behind(k, s)
    BY <1>2, <2>1, BehindSame DEF Agree
  <2>5. CASE t = k.cur
    <3>1. ~Deferred \/ IsrCalls \subseteq {"resume"} => Steady(s)
      BY <2>4 DEF Sure
    <3>2. k' = nd_scheduler(s)
      BY <1>1, <1>4, <2>5
    <3>3. /\ Sure(k') /\ Urgent(k') /\ k'.halting = s.halting
          /\ WaitsKept(k, k', NoThread) /\ Ranked(k, k')
      BY <2>4, <2>7, <2>8, <3>1, <3>2, ThenStep
    <3> QED
      BY <1>4, <2>1, <3>3
  <2>6. CASE t # k.cur
    <3>1. Settled(s)
      BY <1>2, <2>1, <2>6 DEF Settled, Booted
    <3> QED
      BY <1>1, <1>4, <2>1, <2>4, <2>6, <2>7, <2>8, <3>1, RankedBehind DEF Sure
  <2> QED
    BY <2>5, <2>6
<1> QED
  BY <1>3, <1>4

-----------------------------------------------------------------------------
(* Interrupts *)

\* A step of a handler, of the timer loop or of PendSV changes the kernel to r.
LEMMA InterruptStep ==
  ASSUME Sure(k), Consistent(k'), Settled(k'), Steady(k) => Steady(k')
  PROVE  Sure(k')
  BY DEF Sure

\* What interrupts do beside keeping the tables: they let a timer end a wait, or switch.
Calm(s, r) ==
  /\ Urgent(s) => Urgent(r)
  /\ r.halting = s.halting
  /\ Expired(s, r) \/ Switched(s, r)

\* Entry of the tick and of device handlers, every turn of timer_expired, the exit of a
\* handler, its tail and PendSV keep the kernel part.
LEMMA InterruptsStep ==
  ASSUME Sure(k),
         EnterTick \/ EnterDevice \/ TimerLoop \/ Exit \/ ExitTail \/ PendSV
  PROVE  /\ Sure(k') /\ Calm(k, k')
<1> DEFINE s == k
           r == k'
<1>1. Consistent(s) /\ Settled(s)
  BY DEF Sure
<1>2. CASE EnterTick
  <2>1. r = TickInterrupt(s) /\ ~s.expiring
    BY <1>2 DEF EnterTick, CanTick, CanEnter, Masked
  <2> HIDE DEF s, r
  <2>2. Consistent(r) /\ Settled(r) /\ (Steady(s) => Steady(r)) /\ Calm(s, r)
    BY <1>1, <2>1, TickLemma DEF Calm, Expired
  <2> QED
    BY <2>2, InterruptStep DEF Calm, s, r
<1>3. CASE EnterDevice
  <2>1. r = nd_enter_interrupt(s, "dev")
    BY <1>3 DEF EnterDevice
  <2> HIDE DEF s, r
  <2>2. Consistent(r) /\ Settled(r) /\ (Steady(s) => Steady(r)) /\ Calm(s, r)
    BY <1>1, <2>1, EnterLemma DEF Calm, Expired
  <2> QED
    BY <2>2, InterruptStep DEF Calm, s, r
<1>4. CASE TimerLoop
  <2>1. r = ExpireOne(s)
    BY <1>4 DEF TimerLoop
  <2> HIDE DEF s, r
  <2>2. Consistent(r) /\ Settled(r) /\ (Steady(s) => Steady(r)) /\ Calm(s, r)
    BY <1>1, <2>1, ExpireLemma DEF Calm, Expired
  <2> QED
    BY <2>2, InterruptStep DEF Calm, s, r
<1>5. CASE Exit
  <2>1. r = nd_exit_interrupt(s) /\ InHandler(s)
    BY <1>5 DEF Exit
  <2> HIDE DEF s, r
  <2>2. Consistent(r) /\ Settled(r) /\ (Steady(s) => Steady(r)) /\ Calm(s, r)
    BY <1>1, <2>1, ExitLemma DEF Calm, Expired
  <2> QED
    BY <2>2, InterruptStep DEF Calm, s, r
<1>6. CASE ExitTail
  <2>1. r = HandlerTail(s) /\ AtTail(s)
    BY <1>6 DEF ExitTail
  <2> HIDE DEF s, r
  <2>2. Consistent(r) /\ Settled(r) /\ (Steady(s) => Steady(r)) /\ Calm(s, r)
    BY <1>1, <2>1, HandlerTailLemma DEF Calm, Expired
  <2> QED
    BY <2>2, InterruptStep DEF Calm, s, r
<1>7. CASE PendSV
  <2>1. r = isr_pendsv(s) /\ CanPendSV(s)
    BY <1>7 DEF PendSV
  <2> HIDE DEF s, r
  <2>2. Consistent(r) /\ Settled(r) /\ (Steady(s) => Steady(r)) /\ Calm(s, r)
    BY <1>1, <2>1, PendSVLemma DEF Calm, Expired
  <2> QED
    BY <2>2, InterruptStep DEF Calm, s, r
<1> QED
  BY <1>2, <1>3, <1>4, <1>5, <1>6, <1>7

-----------------------------------------------------------------------------
(* Where each thread waits *)

\* t, inside the blocking call of q, is on the list of q or on none; it is BLOCK only on
\* that list, or inside no call with its delay timer armed.
WaitsWhere(s, t, q) ==
  /\ \A p \in WaitQueue : Contains(s.wait[p], t) => p = q
  /\ s.stat[t] = "BLOCK" => IF q = NoThread THEN Delayed(s, t)
                            ELSE q \in WaitQueue /\ Contains(s.wait[q], t)
  /\ s.stat[t] \in {"INIT", "DEAD"} => q = NoThread

Placed(s, where) == \A t \in Thread : WaitsWhere(s, t, where[t])

\* What a step of the scheduler may do to a thread that is inside the call of an object:
\* nothing, end its wait by a timeout, resume it, suspend it, or abort it.
Alike(t)     == inside'[t] = inside[t] /\ WaitsAlike(k, k', t)
Elsewhere(t) == inside[t] \notin Object /\ inside'[t] \notin Object
TimesOut(t)  == /\ inside'[t] = inside[t] /\ k.stat[t] = "BLOCK"
                /\ k'.stat[t] \in {"READY", "RUNNING"} /\ k'.error[t] = "ETIMEOUT"
Resumes(t)   == /\ inside'[t] = inside[t] /\ k.stat[t] = "SUSPEND"
                /\ k'.stat[t] \in {"READY", "RUNNING"} /\ k'.error[t] = k.error[t]
Suspends(t)  == /\ "suspend" \in Calls \cup IsrCalls
                /\ inside'[t] = inside[t] /\ k'.stat[t] = "SUSPEND" /\ k'.error[t] = k.error[t]
Aborts(t)    == /\ "abort" \in Calls \cup IsrCalls
                /\ inside'[t] = NoThread /\ k'.stat[t] = "DEAD"

Moves(t) ==
  Alike(t) \/ Elsewhere(t) \/ TimesOut(t) \/ Resumes(t) \/ Suspends(t) \/ Aborts(t)

\* Its priority is the one it had, or the one it is created with.
Dated(t) ==
  /\ \/ k'.prio[t] = k.prio[t]
     \/ k'.prio[t] \in PrioChoice[t] /\ k.stat[t] = "INIT"
     \/ /\ k'.prio[t] \in PrioChoice[t] /\ k.stat[t] = "DEAD" /\ "recreate" \in Calls
  /\ k.stat[t] = "INIT" /\ k'.stat[t] # "INIT" => k'.prio[t] \in PrioChoice[t]
  /\ k'.stat[t] = "INIT" => k.stat[t] = "INIT"

Moved ==
  /\ Placed(k', inside')
  /\ \A t \in Thread : Moves(t) /\ Dated(t)
  /\ OrderKept(k, k')

\* A thread that is not BLOCK may be inside any call, unless it is dead or not yet there.
LEMMA FreeWhereLemma ==
  ASSUME NEW s, Sure(s), NEW t \in Thread, s.stat[t] # "BLOCK", NEW q,
         s.stat[t] \in {"INIT", "DEAD"} => q = NoThread
  PROVE  /\ WaitsWhere(s, t, q) /\ ~Delayed(s, t)
         /\ \A p \in WaitQueue : ~Contains(s.wait[p], t)
<1>1. s \in KernelState /\ WaitsAgree(s) /\ TimersAgree(s)
  BY DEF Sure, Consistent, Agree
<1>2. \A p \in WaitQueue : ~Contains(s.wait[p], t)
  BY <1>1 DEF WaitsAgree, Linked
<1>3. ~Delayed(s, t)
  <2> SUFFICES ASSUME NEW e, Contains(s.timers, e), e.who = t, e.cb = "delay" PROVE FALSE
    BY DEF Delayed
  <2>1. TimerAgrees(s, e)
    BY <1>1, TimersForm
  <2> QED
    BY <2>1 DEF TimerAgrees
<1> QED
  BY <1>2, <1>3 DEF WaitsWhere

\* When all but t wait as before, it is enough to look at t: for where everybody waits,
LEMMA PlacedLemma ==
  ASSUME Placed(k, inside), NEW t,
         \A u \in Thread \ {t} : WaitsAlike(k, k', u) /\ inside'[u] = inside[u],
         t \in Thread => WaitsWhere(k', t, inside'[t])
  PROVE  Placed(k', inside')
<1> SUFFICES ASSUME NEW u \in Thread \ {t} PROVE WaitsWhere(k', u, inside'[u])
  BY DEF Placed
<1>1. WaitsWhere(k, u, inside[u]) /\ WaitsAlike(k, k', u) /\ inside'[u] = inside[u]
  BY DEF Placed
<1> QED
  BY <1>1 DEF WaitsWhere, WaitsAlike

\* and for how everybody has moved.
LEMMA MovedLemma ==
  ASSUME Sure(k), Sure(k'), Placed(k, inside), NEW t,
         \A u \in Thread \ {t} : WaitsAlike(k, k', u) /\ inside'[u] = inside[u]
                                   /\ k'.prio[u] = k.prio[u],
         OrderKept(k, k'),
         t \in Thread => WaitsWhere(k', t, inside'[t]) /\ Moves(t) /\ Dated(t)
  PROVE  Moved
<1>1. ASSUME NEW u \in Thread \ {t} PROVE Moves(u) /\ Dated(u)
  BY <1>1 DEF Moves, Alike, Dated, WaitsAlike
<1>2. Placed(k', inside')
  BY PlacedLemma
<1> QED
  BY <1>1, <1>2 DEF Moved

\* The same, when priorities and calls stay as they are.
LEMMA KeptMovedLemma ==
  ASSUME Sure(k), Sure(k'), Placed(k, inside), NEW t, WaitsKept(k, k', t), UNCHANGED inside,
         t \in Thread => /\ WaitsWhere(k', t, inside'[t]) /\ Moves(t)
                         /\ (k.stat[t] = "INIT" <=> k'.stat[t] = "INIT")
  PROVE  Moved
<1>1. /\ \A u \in Thread \ {t} : WaitsAlike(k, k', u) /\ inside'[u] = inside[u]
                                   /\ k'.prio[u] = k.prio[u]
      /\ OrderKept(k, k')
      /\ k'.prio = k.prio
  BY DEF WaitsKept
<1>2. t \in Thread => Dated(t)
  BY <1>1 DEF Dated
<1> QED
  BY <1>1, <1>2, MovedLemma

-----------------------------------------------------------------------------
(* What the objects need of the scheduler *)

\* A call that wakes the first waiter of q and then runs the scheduler, the kernel having
\* been changed to x before.
LEMMA WakeStep ==
  ASSUME NEW x, Consistent(x), ~Deferred \/ IsrCalls \subseteq {"resume"} => Steady(x),
         NEW q \in WaitQueue, x.wait[q] # <<>>, NEW h, h = Head(x.wait[q]),
         k' = nd_scheduler(nd_thread_wakeup(x, q))
  PROVE  /\ Sure(k') /\ WaitsKept(x, k', h)
         /\ h \in Thread /\ Contains(x.wait[q], h) /\ x.stat[h] = "BLOCK"
         /\ k'.stat[h] \in {"READY", "RUNNING"} /\ k'.error[h] = "EOK"
<1> DEFINE r == nd_thread_wakeup(x, q)
           v == k'
<1>0. x.wait[q] \in Seq(Thread) /\ WaitsAgree(x) /\ x.stat \in [Thread -> Stat]
  BY DEF Consistent, Agree, KernelState
<1>1. h \in Thread /\ Contains(x.wait[q], h) /\ x.stat[h] = "BLOCK"
  BY <1>0, EmptyLemma DEF WaitsAgree, Linked
<1>2. r = nd_thread_wakeup(x, q) /\ v = nd_scheduler(r)
  OBVIOUS
<1> HIDE DEF r
<1>3. Readied(x, r, h) /\ r.error[h] = "EOK"
  BY <1>2, WakeupLemma
<1>4. /\ Consistent(r) /\ (Steady(x) => Steady(r)) /\ WaitsKept(x, r, h)
      /\ r.stat[h] = "READY"
  BY <1>0, <1>1, <1>3 DEF Readied
<1>5. Sure(v) /\ WaitsKept(r, v, NoThread)
  BY <1>2, <1>4, CallStep
<1> HIDE DEF v
<1>6. WaitsKept(x, v, h)
  BY <1>4, <1>5, WaitsThenLemma
<1>7. WaitsAlike(r, v, h)
  BY <1>1, <1>5, ThreadAssumption DEF WaitsKept, WaitQueue
<1>8. v.stat[h] \in {"READY", "RUNNING"} /\ v.error[h] = "EOK"
  BY <1>3, <1>4, <1>7 DEF WaitsAlike
<1> QED
  BY <1>1, <1>5, <1>6, <1>8 DEF v

\* The scheduler's own steps add nobody to the waiters of an object.
LEMMA NoNewWaiterLemma ==
  ASSUME Sure(k'), Moved, NEW q \in Object, NEW t \in Thread, Contains(k'.wait[q], t)
  PROVE  Contains(k.wait[q], t) /\ Alike(t)
<1>1. k'.stat[t] = "BLOCK" /\ q \in WaitQueue
  BY DEF Sure, Consistent, Agree, WaitsAgree, Linked, WaitQueue
<1>2. inside'[t] = q
  BY <1>1 DEF Moved, Placed, WaitsWhere
<1>3. Alike(t)
  BY <1>1, <1>2 DEF Moved, Moves, Elsewhere, TimesOut, Resumes, Suspends, Aborts
<1> QED
  BY <1>1, <1>3 DEF Alike, WaitsAlike

\* An object nobody waits for is left alone by them.
LEMMA StaysEmptyLemma ==
  ASSUME Sure(k'), Moved, NEW q \in Object, k.wait[q] = <<>>
  PROVE  k'.wait[q] = <<>>
<1>1. k'.wait[q] \in Seq(Thread)
  BY DEF Sure, Consistent, KernelState, WaitQueue
<1>2. \A t \in Thread : ~Contains(k'.wait[q], t)
  BY NoNewWaiterLemma DEF Contains
<1>3. \A t : ~Contains(k'.wait[q], t)
  BY <1>1, <1>2 DEF Contains
<1> QED
  BY <1>1, <1>3, EmptyLemma

-----------------------------------------------------------------------------
(* The invariant and what follows from it *)

\* The scheduler's own calls put a thread inside the join list of a thread, or nowhere.
LEMMA InsideLemma ==
  ASSUME NEW S, Thread \cup {NoThread} \subseteq S, inside \in [Thread -> S], Next
  PROVE  inside' \in [Thread -> S]
<1>1. CASE UNCHANGED inside
  BY <1>1
<1>2. CASE \E t \in Thread : inside' = [inside EXCEPT ![t] = NoThread]
  BY <1>2
<1>3. ASSUME NEW t \in Thread, inside' = [inside EXCEPT ![k.cur] = t]
      PROVE  inside' \in [Thread -> S]
  BY <1>3
<1>4. ASSUME JoinReturn
      PROVE  inside' \in [Thread -> S]
  BY <1>4 DEF JoinReturn
<1> QED
  BY <1>1, <1>2, <1>3, <1>4
  DEF Next, Others, nd_scheduler_start, nd_thread_create, nd_thread_abort, nd_thread_suspend,
      nd_thread_resume, nd_thread_join, HaltLoop, nd_thread_yield, nd_thread_delay,
      EnterTick, EnterDevice, TimerLoop, Exit, ExitTail, PendSV

\* Every step keeps the kernel part.
LEMMA SureStep ==
  ASSUME Sure(k), Next PROVE Sure(k')
<1>1. ASSUME nd_scheduler_start PROVE Sure(k')
  BY <1>1, StartStep
<1>2. ASSUME NEW t \in Thread, NEW p \in PrioChoice[t], nd_thread_create(t, p)
      PROVE  Sure(k')
  BY <1>2, CreateStep
<1>3. ASSUME NEW t \in Thread, nd_thread_abort(t) PROVE Sure(k')
  BY <1>3, AbortStep
<1>4. ASSUME NEW t \in Thread, nd_thread_suspend(t) PROVE Sure(k')
  BY <1>4, SuspendStep
<1>5. ASSUME NEW t \in Thread, nd_thread_resume(t) PROVE Sure(k')
  BY <1>5, ResumeStep
<1>6. ASSUME NEW t \in Thread, NEW timeout \in 1..MaxDelay \cup {Forever},
             nd_thread_join(t, timeout)
      PROVE  Sure(k')
  BY <1>6, JoinStep
<1>7. ASSUME HaltLoop PROVE Sure(k')
  BY <1>7, HaltLoopStep
<1>8. ASSUME nd_thread_yield PROVE Sure(k')
  BY <1>8, YieldStep
<1>9. ASSUME NEW d \in 0..MaxDelay, nd_thread_delay(d) PROVE Sure(k')
  BY <1>9, DelayStep
<1>10. ASSUME JoinReturn PROVE Sure(k')
  BY <1>10 DEF JoinReturn
<1>11. ASSUME EnterTick \/ EnterDevice \/ TimerLoop \/ Exit \/ ExitTail \/ PendSV PROVE Sure(k')
  BY <1>11, InterruptsStep
<1> QED
  BY ONLY Next, <1>1, <1>2, <1>3, <1>4, <1>5, <1>6, <1>7, <1>8, <1>9, <1>10, <1>11 DEF Next, Others

\* Every step leaves each thread where it waits, or moves it in one of the ways listed.
LEMMA MovedStep ==
  ASSUME Sure(k), inside \in [Thread -> WaitQueue \cup {NoThread}], Placed(k, inside), Next
  PROVE  Moved
<1>0. /\ NoThread \notin Object /\ NoThread \notin Thread /\ Object \cap Thread = {}
      /\ Thread \subseteq WaitQueue /\ k \in KernelState /\ k.prio \in [Thread -> Prio]
      /\ k.stat \in [Thread -> Stat] /\ WaitsAgree(k)
  BY ThreadAssumption, ObjectAssumption DEF WaitQueue, Sure, Consistent, KernelState, Agree
<1>1. ASSUME UNCHANGED inside, Sure(k'), WaitsKept(k, k', NoThread) PROVE Moved
  BY <1>0, <1>1, KeptMovedLemma
<1>2. CASE nd_scheduler_start
  BY <1>1, <1>2, StartStep DEF nd_scheduler_start
<1>3. ASSUME NEW t \in Thread, NEW p \in PrioChoice[t], nd_thread_create(t, p) PROVE Moved
  <2>1. /\ Sure(k') /\ k'.prio = [k.prio EXCEPT ![t] = p]
        /\ \A u \in Thread \ {t} : WaitsAlike(k, k', u)
        /\ OrderKept(k, k')
        /\ k.stat[t] = "INIT" \/ (k.stat[t] = "DEAD" /\ "recreate" \in Calls)
        /\ k'.stat[t] \in {"READY", "RUNNING"}
    BY <1>3, CreateStep
  <2>2. inside' = [inside EXCEPT ![t] = NoThread]
    BY <1>3 DEF nd_thread_create
  <2>3. inside[t] = NoThread /\ inside'[t] = NoThread
    BY <2>1, <2>2 DEF Placed, WaitsWhere
  <2>4. WaitsWhere(k', t, inside'[t])
    BY <2>1, FreeWhereLemma
  <2>5. Moves(t)
    BY <1>0, <2>3 DEF Moves, Elsewhere
  <2>6. Dated(t)
    BY <1>0, <2>1 DEF Dated
  <2>7. \A u \in Thread \ {t} : WaitsAlike(k, k', u) /\ inside'[u] = inside[u]
                                 /\ k'.prio[u] = k.prio[u]
    BY <1>0, <2>1, <2>2
  <2> QED
    BY <2>1, <2>4, <2>5, <2>6, <2>7, MovedLemma
<1>4. ASSUME NEW t \in Thread, nd_thread_abort(t) PROVE Moved
  <2>1. Sure(k') /\ WaitsKept(k, k', t) /\ k'.stat[t] = "DEAD"
    BY <1>4, AbortStep
  <2>2. inside' = [inside EXCEPT ![t] = NoThread] /\ k.stat[t] # "INIT"
    BY <1>4 DEF nd_thread_abort, Handle
  <2>3. inside'[t] = NoThread
    BY <2>2
  <2>4. WaitsWhere(k', t, inside'[t])
    BY <2>1, <2>3, FreeWhereLemma
  <2>5. Moves(t)
    <3>1. CASE "abort" \in Calls \cup IsrCalls
      BY <2>1, <2>3, <3>1 DEF Moves, Aborts
    <3>2. CASE "abort" \notin Calls \cup IsrCalls
      BY <1>0, <1>4, <2>3, <3>2
         DEF nd_thread_abort, ThreadCalls, HandlerCalls, InOwnCode, Moves, Elsewhere
    <3> QED
      BY <3>1, <3>2
  <2>6. Dated(t)
    BY <2>1, <2>2 DEF Dated, WaitsKept
  <2>7. \A u \in Thread \ {t} : WaitsAlike(k, k', u) /\ inside'[u] = inside[u]
                                 /\ k'.prio[u] = k.prio[u]
    BY <2>1, <2>2 DEF WaitsKept
  <2>8. OrderKept(k, k')
    BY <2>1 DEF WaitsKept
  <2> QED
    BY <2>1, <2>4, <2>5, <2>6, <2>7, <2>8, MovedLemma
<1>5. ASSUME NEW t \in Thread, nd_thread_suspend(t) PROVE Moved
  <2>1. /\ Sure(k') /\ WaitsKept(k, k', t) /\ k'.stat[t] = "SUSPEND"
        /\ k'.error[t] = k.error[t] /\ k.stat[t] \in {"READY", "RUNNING", "BLOCK"}
    BY <1>5, SuspendStep
  <2>2. UNCHANGED inside /\ "suspend" \in Calls \cup IsrCalls
    BY <1>5 DEF nd_thread_suspend, ThreadCalls, HandlerCalls
  <2>3. WaitsWhere(k', t, inside'[t])
    BY <2>1, FreeWhereLemma
  <2>4. Moves(t)
    BY <2>1, <2>2 DEF Moves, Suspends
  <2> QED
    BY <2>1, <2>2, <2>3, <2>4, KeptMovedLemma
<1>6. ASSUME NEW t \in Thread, nd_thread_resume(t) PROVE Moved
  <2>1. /\ Sure(k') /\ WaitsKept(k, k', t) /\ k.stat[t] = "SUSPEND"
        /\ k'.stat[t] \in {"READY", "RUNNING"} /\ k'.error[t] = k.error[t]
    BY <1>6, ResumeStep
  <2>2. UNCHANGED inside
    BY <1>6 DEF nd_thread_resume
  <2>3. WaitsWhere(k', t, inside'[t])
    BY <2>1, FreeWhereLemma
  <2>4. Moves(t)
    BY <2>1, <2>2 DEF Moves, Resumes
  <2> QED
    BY <2>1, <2>2, <2>3, <2>4, KeptMovedLemma
<1>7. ASSUME NEW t \in Thread, NEW timeout \in 1..MaxDelay \cup {Forever},
             nd_thread_join(t, timeout)
      PROVE  Moved
  <2> DEFINE c == k.cur
  <2>1. /\ Sure(k') /\ WaitsKept(k, k', c) /\ k'.stat[c] = "BLOCK"
        /\ \A p \in WaitQueue : Contains(k'.wait[p], c) <=> p = t
    BY <1>7, JoinStep
  <2>2. inside' = [inside EXCEPT ![c] = t] /\ InThread(k) /\ inside[c] = NoThread
    BY <1>7 DEF nd_thread_join, ThreadCalls, InOwnCode
  <2>3. c \in Thread /\ k.stat[c] = "RUNNING"
    BY <2>2, InThreadLemma
  <2> HIDE DEF c
  <2>4. inside'[c] = t /\ t \in WaitQueue
    BY <1>0, <2>2, <2>3
  <2>5. WaitsWhere(k', c, inside'[c])
    BY <1>0, <2>1, <2>4 DEF WaitsWhere
  <2>6. Moves(c)
    BY <1>0, <2>2, <2>4 DEF Moves, Elsewhere
  <2>7. Dated(c)
    BY <2>1, <2>3 DEF Dated, WaitsKept
  <2>8. \A u \in Thread \ {c} : WaitsAlike(k, k', u) /\ inside'[u] = inside[u]
                                 /\ k'.prio[u] = k.prio[u]
    BY <2>1, <2>2 DEF WaitsKept
  <2>9. OrderKept(k, k')
    BY <2>1 DEF WaitsKept
  <2> QED
    BY <2>1, <2>5, <2>6, <2>7, <2>8, <2>9, MovedLemma
<1>8. CASE HaltLoop
  <2>0. UNCHANGED inside /\ Sure(k') /\ k.halting \in Thread
    BY <1>0, <1>8, HaltLoopStep DEF HaltLoop, KernelState
  <2>1. CASE k.wait[k.halting] = <<>>
    BY <1>1, <1>8, <2>0, <2>1, HaltLoopStep
  <2>2. CASE k.wait[k.halting] # <<>>
    <3> DEFINE q == k.halting
               h == Head(k.wait[q])
    <3>1. Readied(k, k', h)
      BY <1>8, <2>2, HaltLoopStep
    <3>2. h \in Thread /\ Contains(k.wait[q], h) /\ q \in WaitQueue
      <4>1. k.wait[q] \in Seq(Thread) /\ q \in WaitQueue
        BY <1>0, <2>0 DEF KernelState
      <4> QED
        BY <2>2, <4>1, EmptyLemma
    <3> HIDE DEF q, h
    <3>3. inside[h] = q /\ k.stat[h] = "BLOCK"
      BY <1>0, <3>2 DEF Placed, WaitsWhere, WaitsAgree, Linked
    <3>4. k'.stat[h] = "READY" /\ WaitsKept(k, k', h)
      BY <1>0, <3>1, <3>2 DEF Readied
    <3>5. WaitsWhere(k', h, inside'[h])
      BY <2>0, <3>2, <3>4, FreeWhereLemma
    <3>6. Moves(h)
      BY <1>0, <2>0, <3>3 DEF Moves, Elsewhere, q
    <3> QED
      BY <2>0, <3>2, <3>3, <3>4, <3>5, <3>6, KeptMovedLemma
  <2> QED
    BY <2>1, <2>2
<1>9. CASE nd_thread_yield
  BY <1>1, <1>9, YieldStep DEF nd_thread_yield
<1>10. ASSUME NEW d \in 0..MaxDelay, nd_thread_delay(d) PROVE Moved
  <2> DEFINE c == k.cur
  <2>1. /\ Sure(k') /\ WaitsKept(k, k', c) /\ k'.stat[c] = "BLOCK" /\ Delayed(k', c)
        /\ \A q \in WaitQueue : ~Contains(k'.wait[q], c)
    BY <1>10, DelayStep
  <2>2. UNCHANGED inside /\ InThread(k) /\ inside[c] = NoThread
    BY <1>10 DEF nd_thread_delay, ThreadCalls, InOwnCode
  <2>3. c \in Thread /\ k.stat[c] = "RUNNING"
    BY <2>2, InThreadLemma
  <2> HIDE DEF c
  <2>4. WaitsWhere(k', c, inside'[c])
    BY <2>1, <2>2 DEF WaitsWhere
  <2>5. Moves(c)
    BY <1>0, <2>2 DEF Moves, Elsewhere
  <2> QED
    BY <2>1, <2>2, <2>3, <2>4, <2>5, KeptMovedLemma
<1>11. CASE JoinReturn
  <2> DEFINE c == k.cur
  <2>1. /\ InThread(k) /\ inside[c] \in Thread /\ UNCHANGED k
        /\ inside' = [inside EXCEPT ![c] = NoThread]
    BY <1>11 DEF JoinReturn
  <2>2. c \in Thread /\ k.stat[c] = "RUNNING"
    BY <2>1, InThreadLemma
  <2> HIDE DEF c
  <2>3. inside'[c] = NoThread /\ Sure(k') /\ k'.stat[c] = "RUNNING"
    BY <2>1, <2>2
  <2>4. WaitsWhere(k', c, inside'[c])
    BY <2>2, <2>3, FreeWhereLemma
  <2>5. Moves(c)
    BY <1>0, <2>1, <2>3 DEF Moves, Elsewhere
  <2>6. Dated(c)
    BY <2>1 DEF Dated
  <2>7. \A u \in Thread \ {c} : WaitsAlike(k, k', u) /\ inside'[u] = inside[u]
                                 /\ k'.prio[u] = k.prio[u]
    BY <2>1 DEF WaitsAlike
  <2>8. OrderKept(k, k')
    BY <2>1 DEF OrderKept
  <2> QED
    BY <2>3, <2>4, <2>5, <2>6, <2>7, <2>8, MovedLemma
<1>12. CASE EnterTick \/ EnterDevice \/ TimerLoop \/ Exit \/ ExitTail \/ PendSV
  <2>0. UNCHANGED inside /\ Sure(k') /\ Calm(k, k')
    BY <1>12, InterruptsStep DEF EnterTick, EnterDevice, TimerLoop, Exit, ExitTail, PendSV
  <2>1. CASE WaitsKept(k, k', NoThread)
    BY <1>1, <2>0, <2>1
  <2>2. ASSUME NEW t \in Thread, WaitsKept(k, k', t), Awoken(k, k', t) PROVE Moved
    <3>1. k.stat[t] = "BLOCK" /\ k'.stat[t] \in {"READY", "RUNNING"}
      BY <2>2 DEF Awoken
    <3>2. WaitsWhere(k', t, inside'[t])
      BY <2>0, <3>1, FreeWhereLemma
    <3>3. Moves(t)
      <4>1. CASE Linked(k, t)
        BY <2>0, <2>2, <3>1, <4>1 DEF Awoken, Moves, TimesOut
      <4>2. CASE ~Linked(k, t)
        BY <1>0, <2>0, <3>1, <4>2 DEF Placed, WaitsWhere, Linked, Moves, Elsewhere
      <4> QED
        BY <4>1, <4>2
    <3> QED
      BY <2>0, <2>2, <3>1, <3>2, <3>3, KeptMovedLemma
  <2>3. ASSUME NEW t \in Thread, WaitsKept(k, k', t), k.stat[t] \notin {"INIT", "BLOCK"},
               k'.stat[t] = "RUNNING", k'.error = k.error
        PROVE  Moved
    <3>1. WaitsWhere(k', t, inside'[t]) /\ ~Delayed(k', t)
          /\ \A q \in WaitQueue : ~Contains(k'.wait[q], t)
      BY <2>0, <2>3, FreeWhereLemma
    <3>2. Moves(t)
      <4>1. CASE k.stat[t] \in {"READY", "RUNNING"}
        <5>1. /\ ~Delayed(k, t) /\ \A q \in WaitQueue : ~Contains(k.wait[q], t)
              /\ k.stat[t] # "BLOCK"
          BY <4>1, FreeWhereLemma
        <5> QED
          BY <2>0, <2>3, <3>1, <4>1, <5>1 DEF WaitsAlike, Moves, Alike
      <4>2. CASE k.stat[t] = "SUSPEND"
        BY <2>0, <2>3, <4>2 DEF Moves, Resumes
      <4>3. CASE k.stat[t] = "DEAD"
        BY <1>0, <2>0, <4>3 DEF Placed, WaitsWhere, Moves, Elsewhere
      <4> QED
        BY <1>0, <2>3, <4>1, <4>2, <4>3 DEF Stat
    <3> QED
      BY <2>0, <2>3, <3>1, <3>2, KeptMovedLemma
  <2> QED
    BY <2>0, <2>1, <2>2, <2>3 DEF Calm, Expired, Switched
<1> QED
  BY ONLY Next, <1>2, <1>3, <1>4, <1>5, <1>6, <1>7, <1>8, <1>9, <1>10, <1>11, <1>12
     DEF Next, Others

\* KernelInv of the next state.
LEMMA KernelInvNext ==
  ASSUME Sure(k'), inside' \in [Thread -> WaitQueue \cup {NoThread}]
  PROVE  KernelInv'
  BY DEF KernelInv, Sure, TypeOK, Consistent, Settled

\* Every step keeps KernelInv.
LEMMA NextLemma == KernelInv /\ [Next]_vars => KernelInv'
<1> SUFFICES ASSUME KernelInv, [Next]_vars PROVE KernelInv'
  OBVIOUS
<1>0. Sure(k) /\ inside \in [Thread -> WaitQueue \cup {NoThread}]
  BY KernelInvForm
<1>1. CASE UNCHANGED vars
  BY <1>1 DEF vars, KernelInv, TypeOK
<1>2. CASE Next
  <2>1. Sure(k')
    BY <1>0, <1>2, SureStep
  <2>2. inside' \in [Thread -> WaitQueue \cup {NoThread}]
    <3>1. Thread \cup {NoThread} \subseteq WaitQueue \cup {NoThread}
      BY DEF WaitQueue
    <3> QED
      BY <1>0, <1>2, <3>1, InsideLemma
  <2> QED
    BY <2>1, <2>2, KernelInvNext
<1> QED
  BY <1>1, <1>2

\* The kernel's tables agree and every switch that is owed is on its way, in every state
\* that threads and interrupts can bring about.
THEOREM KernelInvariant == Spec => []KernelInv
<1>1. Init => KernelInv
  BY InitLemma
<1>2. KernelInv /\ [Next]_vars => KernelInv'
  BY NextLemma
<1> QED
  BY <1>1, <1>2, PTL DEF Spec

\* The structures of the kernel keep their types.
THEOREM TypesHold == Spec => []TypeOK
<1>1. KernelInv => TypeOK
  BY DEF KernelInv
<1> QED
  BY <1>1, KernelInvariant, PTL

\* Ready lists, bitmap and thread states agree after every call, timer and interrupt.
THEOREM ReadyQueues == Spec => []ReadyQueuesAgree
<1>1. KernelInv => ReadyQueuesAgree
  BY DEF KernelInv, Agree, ReadyQueuesAgree
<1> QED
  BY <1>1, KernelInvariant, PTL

\* Only nd_current_thread is RUNNING, and it is whenever it executes its own code.
THEOREM CurrentRuns == Spec => []OnlyCurrentRuns
<1>1. ASSUME KernelInv PROVE OnlyCurrentRuns
  <2>1. Sure(k) /\ \A t \in Thread : k.stat[t] = "RUNNING" => t = k.cur
    BY <1>1, KernelInvForm DEF KernelInv, Agree, CurrentAgrees
  <2> QED
    BY <2>1, InThreadLemma DEF OnlyCurrentRuns
<1> QED
  BY <1>1, KernelInvariant, PTL

\* No armed timer serves a thread that no longer waits for it.
THEOREM TimersServe == Spec => []TimersServeWaiters
<1>1. KernelInv => TimersServeWaiters
  BY DEF KernelInv, Agree, TimersServeWaiters
<1> QED
  BY <1>1, KernelInvariant, PTL

\* While its thread runs, what a slice timer has left is what slice_left and slice_start
\* say is left, and no thread has more than its slice: charging on a switch, rearming on a
\* tick and the expiry itself never take or grant time twice.
THEOREM SliceAccounts == Spec => []SliceAccountsAgree
<1>1. ASSUME KernelInv PROVE SliceAccountsAgree
  <2>1. SlicesAgree(k)
    BY <1>1 DEF KernelInv, Agree
  <2> QED
    BY <2>1 DEF SliceAccountsAgree, SlicesAgree, SliceAgrees, SliceTimer, SameTimer
<1> QED
  BY <1>1, KernelInvariant, PTL

\* No reschedule requested inside a handler is lost, and a thread that may not go on has
\* its switch pending.
THEOREM ReschedulesKept == Spec => []NoLostReschedule
<1>1. ASSUME KernelInv PROVE NoLostReschedule
  <2>1. Settled(k) /\ k \in KernelState /\ NoThread \notin Thread
    BY <1>1, ThreadAssumption DEF KernelInv, TypeOK, WaitQueue
  <2> QED
    BY <2>1 DEF NoLostReschedule, Settled, Masked, Booted
<1> QED
  BY <1>1, KernelInvariant, PTL

-----------------------------------------------------------------------------
(* Wait lists and blocked threads *)

\* With what KernelInv leaves open: where each thread waits, in which order, and that the
\* calls of NdSched wait for threads only.
WaitInv ==
  /\ KernelInv /\ Placed(k, inside) /\ Sorted(k)
  /\ inside \in [Thread -> Thread \cup {NoThread}]

\* After nd_scheduler_init nobody waits, and nobody is inside a call.
LEMMA WaitInitLemma == Init => WaitInv
<1> SUFFICES ASSUME Init PROVE WaitInv
  OBVIOUS
<1>1. /\ inside = [t \in Thread |-> NoThread] /\ k.wait = [q \in WaitQueue |-> <<>>]
      /\ k.stat = [t \in Thread |-> IF t = Idle THEN "READY" ELSE "INIT"]
  BY DEF Init
<1>2. Placed(k, inside)
  BY <1>1 DEF Placed, WaitsWhere, Contains
<1>3. Sorted(k)
  BY <1>1 DEF Sorted, InOrder
<1> QED
  BY <1>1, <1>2, <1>3, InitLemma DEF WaitInv

\* Every thread is where its call put it, after every step.
THEOREM WaitInvariant == Spec => []WaitInv
<1>1. Init => WaitInv
  BY WaitInitLemma
<1>2. ASSUME WaitInv, [Next]_vars PROVE WaitInv'
  <2>0. KernelInv' /\ Sure(k) /\ inside \in [Thread -> WaitQueue \cup {NoThread}]
    BY <1>2, NextLemma, KernelInvForm DEF WaitInv
  <2>1. CASE UNCHANGED vars
    BY <1>2, <2>0, <2>1 DEF vars, WaitInv
  <2>2. CASE Next
    <3>1. Moved
      BY <1>2, <2>0, <2>2, MovedStep DEF WaitInv
    <3>2. inside' \in [Thread -> Thread \cup {NoThread}]
      BY <1>2, <2>2, InsideLemma DEF WaitInv
    <3> QED
      BY <1>2, <2>0, <3>1, <3>2 DEF Moved, WaitInv, Sorted, OrderKept
  <2> QED
    BY <1>2, <2>1, <2>2
<1> QED
  BY <1>1, <1>2, PTL DEF Spec

\* The wait lists hold exactly the threads blocked in the call that waits there, most
\* urgent first.
THEOREM WaitLists == Spec => []WaitListsAgree
<1>1. WaitInv => WaitListsAgree
  BY DEF WaitInv, KernelInv, Agree, Placed, WaitsWhere, Sorted, InOrder,
         WaitListsAgree
<1> QED
  BY <1>1, WaitInvariant, PTL

\* Whoever is BLOCK waits for a thread that is still alive or is waking its joiners, or
\* has its delay timer armed: no call, timeout or abort leaves a thread that nothing wakes.
THEOREM NobodyStranded == Spec => []BlockedCanWake
<1>1. ASSUME WaitInv PROVE BlockedCanWake
  <2> SUFFICES ASSUME NEW t \in Thread, k.stat[t] = "BLOCK"
               PROVE  \/ \E u \in Thread : /\ Contains(k.wait[u], t)
                                           /\ k.stat[u] # "DEAD" \/ k.halting = u
                      \/ \E i \in ThreadTimer(t) : k.timers[i].cb = "delay"
    BY DEF BlockedCanWake
  <2>0. WaitsWhere(k, t, inside[t]) /\ DeadUnwaited(k) /\ inside[t] \in Thread \cup {NoThread}
    BY <1>1 DEF WaitInv, KernelInv, Placed
  <2>1. CASE inside[t] = NoThread
    <3>1. PICK e : Contains(k.timers, e) /\ e.who = t /\ e.cb = "delay"
      BY <2>0, <2>1 DEF WaitsWhere, Delayed
    <3>2. PICK i \in DOMAIN k.timers : k.timers[i] = e
      BY <3>1 DEF Contains
    <3>3. i \in ThreadTimer(t)
      BY <3>1, <3>2 DEF ThreadTimer, SameTimer
    <3> QED
      BY <3>1, <3>2, <3>3
  <2>2. CASE inside[t] # NoThread
    <3> DEFINE u == inside[t]
    <3>1. u \in Thread /\ Contains(k.wait[u], t)
      BY <2>0, <2>2 DEF WaitsWhere
    <3>2. k.wait[u] # <<>>
      BY <3>1 DEF Contains
    <3>3. k.stat[u] # "DEAD" \/ k.halting = u
      BY <2>0, <3>1, <3>2 DEF DeadUnwaited
    <3> QED
      BY <3>1, <3>3
  <2> QED
    BY <2>1, <2>2
<1> QED
  BY <1>1, WaitInvariant, PTL

-----------------------------------------------------------------------------
(* The order of the ready queues *)

\* Entering and leaving a handler touch no ready list; PendSV takes the thread it was
\* prepared for off its list.
LEMMA InterruptRanks ==
  ASSUME Sure(k),
         EnterTick \/ EnterDevice \/ TimerLoop \/ Exit \/ ExitTail \/ PendSV
  PROVE  Ranked(k, k')
<1> DEFINE s == k
           r == k'
<1>1. Consistent(s) /\ Settled(s) /\ s \in KernelState /\ ReadyAgree(s)
  BY DEF Sure, Consistent, Agree
<1>2. CASE EnterTick \/ EnterDevice \/ Exit
  <2>1. r = TickInterrupt(s) \/ r = nd_enter_interrupt(s, "dev") \/ r = nd_exit_interrupt(s)
    BY <1>2 DEF EnterTick, EnterDevice, Exit
  <2> HIDE DEF s, r
  <2>2. r.ready = s.ready /\ r.stat = s.stat
    BY <1>1, <2>1
       DEF TickInterrupt, TickPasses, nd_enter_interrupt, nd_exit_interrupt, KernelState
  <2>3. Ranked(s, r)
    BY <2>2, BehindSame, RankedBehind
  <2> QED
    BY <2>3 DEF s, r
<1>3. CASE TimerLoop
  <2>1. r = ExpireOne(s)
    BY <1>3 DEF TimerLoop
  <2> HIDE DEF s, r
  <2>2. Ranked(s, r)
    BY ONLY <1>1, <2>1, ExpireLemma
  <2> QED
    BY <2>2 DEF s, r
<1>4. CASE ExitTail
  <2>1. r = HandlerTail(s) /\ AtTail(s)
    BY <1>4 DEF ExitTail
  <2> HIDE DEF s, r
  <2>2. Ranked(s, r)
    BY ONLY <1>1, <2>1, HandlerTailLemma
  <2> QED
    BY <2>2 DEF s, r
<1>5. CASE PendSV
  <2> DEFINE x == [s EXCEPT !.pendsv = FALSE]
             n == s.next
  <2>1. r = nd_context_switch_cb(x, n) /\ s.pendsv
    BY <1>5 DEF PendSV, isr_pendsv, CanPendSV
  <2> HIDE DEF s, r
  <2>2. x \in KernelState /\ x.ready = s.ready
    BY <1>1 DEF KernelState
  <2>3. n \in Thread
    <3>1. SwitchAgrees(s) /\ s.next \in Thread \cup {NoThread}
      BY <1>1 DEF Consistent, Agree, KernelState
    <3> QED
      BY <2>1, <3>1 DEF SwitchAgrees
  <2> HIDE DEF x, n
  <2>4. r.ready = nd_thread_ready_remove(x, n).ready
    BY ONLY <2>1, <2>2, <2>3, SwitchRemoves
  <2>5. \A p \in Prio : IsInjective(x.ready[p])
    BY <1>1, <2>2 DEF ReadyAgree
  <2>6. Thinned(s, r)
    BY ONLY <2>2, <2>3, <2>4, <2>5, ThinnedRemoved
  <2> QED
    BY <2>6, RankedThinned DEF s, r
<1> QED
  BY <1>2, <1>3, <1>4, <1>5

\* nd_scheduler_start takes the first thread off its list.
LEMMA StartRanks ==
  ASSUME Sure(k), nd_scheduler_start
  PROVE  Ranked(k, k')
<1> DEFINE s == k
           r == k'
           n == nd_get_highest_priority_thread(s)
<1>1. s \in KernelState /\ Agree(s) /\ ReadyAgree(s)
  BY DEF Sure, Consistent, Agree
<1>2. s.cur = NoThread /\ r = nd_context_switch_cb(s, n)
  BY DEF nd_scheduler_start, InBoot, Booted
<1>3. s.stat[Idle] = "READY" /\ Idle \in Thread
  BY <1>1, <1>2, ThreadAssumption DEF Agree, CurrentAgrees, WaitQueue
<1> HIDE DEF s, r
<1>4. n \in Thread
  BY <1>1, <1>3, HighestLemma
<1> HIDE DEF n
<1>5. r.ready = nd_thread_ready_remove(s, n).ready
  BY ONLY <1>1, <1>2, <1>4, SwitchRemoves
<1>6. \A p \in Prio : IsInjective(s.ready[p])
  BY <1>1 DEF ReadyAgree
<1>7. Thinned(s, r)
  BY ONLY <1>1, <1>4, <1>5, <1>6, ThinnedRemoved
<1> QED
  BY <1>7, RankedThinned DEF s, r

\* Every step queues whoever becomes READY where it belongs.
LEMMA RanksStep ==
  ASSUME Sure(k), Next PROVE Ranked(k, k')
<1>1. ASSUME nd_scheduler_start PROVE Ranked(k, k')
  BY <1>1, StartRanks
<1>2. ASSUME NEW t \in Thread, NEW p \in PrioChoice[t], nd_thread_create(t, p)
      PROVE  Ranked(k, k')
  BY <1>2, CreateStep
<1>3. ASSUME NEW t \in Thread, nd_thread_abort(t) PROVE Ranked(k, k')
  BY <1>3, AbortStep
<1>4. ASSUME NEW t \in Thread, nd_thread_suspend(t) PROVE Ranked(k, k')
  BY <1>4, SuspendStep
<1>5. ASSUME NEW t \in Thread, nd_thread_resume(t) PROVE Ranked(k, k')
  BY <1>5, ResumeStep
<1>6. ASSUME NEW t \in Thread, NEW timeout \in 1..MaxDelay \cup {Forever},
             nd_thread_join(t, timeout)
      PROVE  Ranked(k, k')
  BY <1>6, JoinStep
<1>7. ASSUME HaltLoop PROVE Ranked(k, k')
  BY <1>7, HaltLoopStep
<1>8. ASSUME nd_thread_yield PROVE Ranked(k, k')
  BY <1>8, YieldStep
<1>9. ASSUME NEW d \in 0..MaxDelay, nd_thread_delay(d) PROVE Ranked(k, k')
  BY <1>9, DelayStep
<1>10. ASSUME JoinReturn PROVE Ranked(k, k')
  <2>1. k' = k
    BY <1>10 DEF JoinReturn
  <2>2. Behind(k, k)
    BY BehindSame
  <2> QED
    BY <2>1, <2>2, RankedBehind
<1>11. ASSUME EnterTick \/ EnterDevice \/ TimerLoop \/ Exit \/ ExitTail \/ PendSV
       PROVE  Ranked(k, k')
  BY <1>11, InterruptRanks
<1> QED
  BY ONLY Next, <1>1, <1>2, <1>3, <1>4, <1>5, <1>6, <1>7, <1>8, <1>9, <1>10, <1>11 DEF Next, Others

\* Two READY threads of the same priority stand on the list of it, in the order of their
\* positions.
LEMMA PositionLemma ==
  ASSUME NEW s \in KernelState, ReadyAgree(s), NEW p \in Prio, NEW t \in Thread,
         NEW u \in Thread, s.stat[t] = "READY", s.prio[t] = p, s.stat[u] = "READY", s.prio[u] = p
  PROVE  /\ Contains(s.ready[p], t) /\ Contains(s.ready[p], u)
         /\ Ahead(s.ready[p], t, u) <=> Position(s, t) < Position(s, u)
<1> DEFINE l == s.ready[p]
<1>1. l \in Seq(Thread) /\ IsInjective(l) /\ Contains(l, t) /\ Contains(l, u)
  BY DEF ReadyAgree, KernelState
<1>2. /\ Position(s, t) = CHOOSE i \in DOMAIN l : l[i] = t
      /\ Position(s, u) = CHOOSE i \in DOMAIN l : l[i] = u
  BY DEF Position
<1> HIDE DEF l
<1>3. Ahead(l, t, u) <=> (CHOOSE i \in DOMAIN l : l[i] = t) < (CHOOSE i \in DOMAIN l : l[i] = u)
  BY ONLY <1>1, AheadPositions
<1> QED
  BY <1>1, <1>2, <1>3 DEF l

\* Round robin is fair, and a preempted thread loses nothing: whoever becomes READY queues
\* behind its peers, but a thread preempted by a more urgent one in front of them, and
\* threads that stay READY never change places.
THEOREM OrderKeptInQueues == Spec => ReadyOrderKept
<1>1. ASSUME WaitInv, Next PROVE ReadyOrder
  <2>0. Sure(k) /\ Sure(k') /\ Ranked(k, k') /\ Moved
    BY <1>1, KernelInvForm, SureStep, RanksStep, MovedStep DEF WaitInv
  <2>1. /\ k \in KernelState /\ ReadyAgree(k) /\ k' \in KernelState /\ ReadyAgree(k')
        /\ k'.prio \in [Thread -> Prio]
    BY <2>0 DEF Sure, Consistent, Agree, KernelState
  <2> SUFFICES ASSUME NEW t \in Thread, NEW u \in Thread, k'.stat[t] = "READY",
                      k.stat[u] = "READY", k'.stat[u] = "READY", t # u, k'.prio[t] = k'.prio[u]
               PROVE  Position(k', t) < Position(k', u) <=>
                        IF k.stat[t] = "READY" THEN Position(k, t) < Position(k, u)
                        ELSE /\ k.stat[t] = "RUNNING"
                             /\ \E v \in Thread : k'.stat[v] \in Runnable /\ k'.prio[v] < k'.prio[t]
    BY DEF ReadyOrder
  <2> DEFINE s == k
             r == k'
             p == r.prio[t]
  <2>2. p \in Prio /\ r.prio[u] = p /\ s.prio[u] = p /\ (s.stat[t] = "READY" => s.prio[t] = p)
    BY <2>0, <2>1 DEF Moved, Dated
  <2>3. /\ s \in KernelState /\ ReadyAgree(s) /\ r \in KernelState /\ ReadyAgree(r)
        /\ Ranked(s, r) /\ r.stat[t] = "READY" /\ s.stat[u] = "READY" /\ r.stat[u] = "READY"
        /\ r.prio[t] = p
    BY <2>0, <2>1
  <2> HIDE DEF s, r, p
  <2>4. /\ Contains(r.ready[p], t) /\ Contains(r.ready[p], u)
        /\ Ahead(r.ready[p], t, u) <=> Position(r, t) < Position(r, u)
    BY ONLY <2>2, <2>3, t \in Thread, u \in Thread, PositionLemma
  <2>5. Contains(s.ready[p], u) /\ (Contains(s.ready[p], t) => s.stat[t] = "READY")
    BY <2>2, <2>3 DEF ReadyAgree
  <2>6. Ahead(r.ready[p], t, u) <=>
          IF Contains(s.ready[p], t) THEN Ahead(s.ready[p], t, u)
          ELSE s.stat[t] = "RUNNING" /\ Urged(r, t)
    BY <2>2, <2>3, <2>4, <2>5 DEF Ranked
  <2>7. CASE s.stat[t] = "READY"
    <3>1. /\ Contains(s.ready[p], t)
          /\ Ahead(s.ready[p], t, u) <=> Position(s, t) < Position(s, u)
      BY ONLY <2>2, <2>3, <2>7, t \in Thread, u \in Thread, PositionLemma
    <3> QED
      BY <2>4, <2>6, <2>7, <3>1 DEF s, r
  <2>8. CASE s.stat[t] # "READY"
    BY <2>4, <2>5, <2>6, <2>8 DEF s, r, Urged
  <2> QED
    BY <2>7, <2>8
<1> QED
  BY <1>1, WaitInvariant, PTL DEF Spec, ReadyOrderKept

-----------------------------------------------------------------------------
(* The most urgent thread runs *)

\* Where no thread aborts another, only the thread that runs halts, and it is switched
\* away when the joiners it woke are all READY.
HaltsItself(s) ==
  s.halting # NoThread => /\ s.halting = s.cur /\ s.stat[s.cur] = "DEAD"
                          /\ ~s.pendsv /\ ~s.expiring

UrgentInv == KernelInv /\ Urgent(k) /\ HaltsItself(k)

\* Every step of the scheduler keeps UrgentInv, when no thread is aborted by another.
LEMMA UrgentStep ==
  ASSUME "abort" \notin Calls \cup IsrCalls, Sure(k), Urgent(k), HaltsItself(k), Next
  PROVE  Urgent(k') /\ HaltsItself(k')
<1>0. k \in KernelState /\ NoThread \notin Thread /\ WaitsAgree(k)
  BY ThreadAssumption DEF Sure, Consistent, Agree, WaitQueue
<1>1. ASSUME Urgent(k'), k'.halting = k.halting, k.halting = NoThread
      PROVE  Urgent(k') /\ HaltsItself(k')
  BY <1>1 DEF HaltsItself
<1>2. ASSUME ThreadCalls("suspend") \/ HandlerCalls("suspend") \/ InOwnCode \/ InBoot(k)
              \/ HandlerCalls("resume") \/ HandlerCalls("abort")
      PROVE  k.halting = NoThread
  BY <1>2 DEF ThreadCalls, HandlerCalls, InOwnCode, InThread, InHandler, InBoot, Masked
<1>3. CASE nd_scheduler_start
  <2>1. MostUrgent(k') /\ k'.halting = k.halting
    BY <1>3, StartStep
  <2> QED
    BY <1>1, <1>2, <1>3, <2>1 DEF nd_scheduler_start, Urgent
<1>4. ASSUME NEW t \in Thread, NEW p \in PrioChoice[t], nd_thread_create(t, p)
      PROVE  Urgent(k') /\ HaltsItself(k')
  BY <1>1, <1>2, <1>4, CreateStep DEF nd_thread_create, ThreadCalls
<1>5. ASSUME NEW t \in Thread, nd_thread_abort(t) PROVE Urgent(k') /\ HaltsItself(k')
  <2>1. InThread(k) /\ t = k.cur
    BY <1>5 DEF nd_thread_abort, ThreadCalls, HandlerCalls, InOwnCode
  <2>2. /\ Urgent(k') /\ k'.halting = t /\ k'.stat[t] = "DEAD"
        /\ k'.cur = k.cur /\ k'.pendsv = k.pendsv /\ k'.expiring = k.expiring
    BY <1>5, AbortStep
  <2>3. ~k.pendsv /\ ~k.expiring
    BY <2>1 DEF InThread, Masked
  <2> QED
    BY <2>1, <2>2, <2>3 DEF HaltsItself
<1>6. ASSUME NEW t \in Thread, nd_thread_suspend(t) PROVE Urgent(k') /\ HaltsItself(k')
  BY <1>1, <1>2, <1>6, SuspendStep DEF nd_thread_suspend
<1>7. ASSUME NEW t \in Thread, nd_thread_resume(t) PROVE Urgent(k') /\ HaltsItself(k')
  BY <1>1, <1>2, <1>7, ResumeStep DEF nd_thread_resume, ThreadCalls
<1>8. ASSUME NEW t \in Thread, NEW timeout \in 1..MaxDelay \cup {Forever},
             nd_thread_join(t, timeout)
      PROVE  Urgent(k') /\ HaltsItself(k')
  BY <1>1, <1>2, <1>8, JoinStep DEF nd_thread_join, ThreadCalls
<1>9. CASE HaltLoop
  <2> DEFINE q == k.halting
             h == Head(k.wait[q])
  <2>1. q \in Thread /\ q = k.cur /\ k.stat[q] = "DEAD" /\ ~k.pendsv /\ ~k.expiring
    BY <1>0, <1>9 DEF HaltLoop, HaltsItself, KernelState
  <2>2. CASE k.wait[q] = <<>>
    BY <1>9, <2>1, <2>2, HaltLoopStep DEF HaltsItself
  <2>3. CASE k.wait[q] # <<>>
    <3>1. Readied(k, k', h)
      BY <1>9, <2>3, HaltLoopStep
    <3>2. h \in Thread /\ k.stat[h] = "BLOCK"
      <4>1. k.wait[q] \in Seq(Thread) /\ q \in WaitQueue
        BY <1>0, <2>1 DEF KernelState, WaitQueue
      <4>2. h \in Thread /\ Contains(k.wait[q], h)
        BY <2>3, <4>1, EmptyLemma
      <4> QED
        BY <1>0, <4>1, <4>2 DEF WaitsAgree, Linked
    <3> HIDE DEF h
    <3>3. k'.stat[q] = "DEAD"
      BY <1>0, <2>1, <3>1, <3>2 DEF Readied, KernelState
    <3>4. /\ k'.halting = q /\ k'.cur = k.cur /\ k'.pendsv = k.pendsv
          /\ k'.expiring = k.expiring
      BY <3>1 DEF Readied, SameControl
    <3> QED
      BY <2>1, <3>3, <3>4 DEF HaltsItself, Urgent, MostUrgent
  <2> QED
    BY <2>2, <2>3
<1>10. CASE nd_thread_yield
  BY <1>1, <1>2, <1>10, YieldStep DEF nd_thread_yield, ThreadCalls
<1>11. ASSUME NEW d \in 0..MaxDelay, nd_thread_delay(d) PROVE Urgent(k') /\ HaltsItself(k')
  BY <1>1, <1>2, <1>11, DelayStep DEF nd_thread_delay, ThreadCalls
<1>12. CASE JoinReturn
  BY <1>12 DEF JoinReturn
<1>13. CASE EnterTick \/ EnterDevice \/ TimerLoop \/ Exit \/ ExitTail \/ PendSV
  <2>1. Calm(k, k')
    BY <1>13, InterruptsStep
  <2>2. k.halting = NoThread
    BY <1>13 DEF EnterTick, EnterDevice, TimerLoop, Exit, ExitTail, PendSV, CanTick, CanEnter,
                 InHandler, AtTail, CanPendSV, Masked, HaltsItself
  <2> QED
    BY <1>1, <2>1, <2>2 DEF Calm
<1> QED
  BY ONLY Next, <1>3, <1>4, <1>5, <1>6, <1>7, <1>8, <1>9, <1>10, <1>11, <1>12, <1>13
     DEF Next, Others

\* Whoever executes its own code is at least as urgent as every READY thread, where no
\* thread aborts another: preemption is immediate.
THEOREM UrgentFirst ==
  ASSUME "abort" \notin Calls \cup IsrCalls
  PROVE  Spec => []MostUrgentRuns
<1>1. ASSUME Init PROVE UrgentInv
  BY <1>1, InitLemma DEF Init, UrgentInv, Urgent, MostUrgent, HaltsItself
<1>2. ASSUME UrgentInv, [Next]_vars PROVE UrgentInv'
  <2>0. KernelInv' /\ Sure(k)
    BY <1>2, NextLemma, KernelInvForm DEF UrgentInv
  <2>1. CASE UNCHANGED vars
    BY <1>2, <2>0, <2>1 DEF vars, UrgentInv
  <2>2. CASE Next
    BY <1>2, <2>0, <2>2, UrgentStep DEF UrgentInv
  <2> QED
    BY <1>2, <2>1, <2>2
<1>3. ASSUME UrgentInv PROVE MostUrgentRuns
  <2>1. SUFFICES ASSUME InThread(k) PROVE MostUrgent(k) /\ k.stat[k.cur] = "RUNNING"
    BY DEF MostUrgentRuns, MostUrgent, InThread, Booted
  <2>2. Sure(k) /\ ~k.try
    BY <1>3, <2>1, KernelInvForm DEF UrgentInv, Sure, Settled, InThread
  <2> QED
    BY <1>3, <2>1, <2>2, InThreadLemma DEF UrgentInv, Urgent
<1> QED
  BY <1>1, <1>2, <1>3, PTL DEF Spec

-----------------------------------------------------------------------------
(* Control: a thread that starts to run does so outside handlers and loops *)

\* The fields that say what the processor is doing.
ControlFields == {"isr", "nest", "expiring", "halting"}

\* r is a record like s that says so too.
Quiet(s, r) ==
  /\ DOMAIN r = DOMAIN s
  /\ r.isr = s.isr /\ r.nest = s.nest /\ r.expiring = s.expiring /\ r.halting = s.halting

\* ... and in which the same thread is current.
Still(s, r) == Quiet(s, r) /\ r.cur = s.cur

\* A kernel record has these fields.
HasControl(s) == ControlFields \cup {"cur"} \subseteq DOMAIN s

\* What the internal functions of the kernel leave alone.
LEMMA StillLemma ==
  ASSUME NEW s, HasControl(s), NEW t, NEW q, NEW n, NEW b, NEW cb, NEW timeout
  PROVE  /\ Still(s, nd_thread_ready_add_tail(s, t))
         /\ Still(s, nd_thread_ready_add_head(s, t))
         /\ Still(s, nd_thread_ready_remove(s, t))
         /\ Still(s, nd_timer_stop(s, t, b))
         /\ Still(s, nd_timer_start(s, t, cb, timeout))
         /\ Still(s, WaitInsert(s, q, t))
         /\ Still(s, WaitRemove(s, t)) /\ Still(s, WaitUnlink(s, t))
<1>1. /\ Still(s, nd_thread_ready_add_tail(s, t))
      /\ Still(s, nd_thread_ready_add_head(s, t))
  BY DEF Still, Quiet, HasControl, ControlFields, nd_thread_ready_add_tail,
         nd_thread_ready_add_head
<1>2. Still(s, nd_thread_ready_remove(s, t))
  BY DEF Still, Quiet, HasControl, ControlFields, nd_thread_ready_remove
<1>3. \A c : Still(s, nd_timer_stop(s, t, c))
  BY DEF Still, Quiet, HasControl, ControlFields, nd_timer_stop
<1>4. Still(s, nd_timer_start(s, t, cb, timeout))
  <2> DEFINE s1 == nd_timer_stop(s, t, cb = "slice")
             e == [who |-> t, cb |-> cb, left |-> timeout]
  <2>1. Still(s, s1)
    BY <1>3
  <2>2. nd_timer_start(s, t, cb, timeout) = [s1 EXCEPT !.timers = TimerInsert(@, e)]
    BY DEF nd_timer_start
  <2> HIDE DEF s1, e
  <2> QED
    BY <2>1, <2>2 DEF Still, Quiet, HasControl, ControlFields
<1>5. /\ Still(s, WaitInsert(s, q, t)) /\ Still(s, WaitRemove(s, t))
      /\ Still(s, WaitUnlink(s, t))
  BY DEF Still, Quiet, HasControl, ControlFields, WaitInsert, WaitRemove, WaitUnlink
<1> QED
  BY <1>1, <1>2, <1>3, <1>4, <1>5

\* A field that does not say it may be set besides.
LEMMA AlsoStill ==
  ASSUME NEW s, HasControl(s), NEW x, Still(s, x)
  PROVE  /\ HasControl(x)
         /\ \A r : Still(x, r) => Still(s, r)
         /\ \A r : Quiet(x, r) => Quiet(s, r)
  BY DEF Still, Quiet, HasControl

\* A thread waits or is woken.
LEMMA PendStill ==
  ASSUME NEW s, HasControl(s), NEW q, NEW timeout
  PROVE  Still(s, nd_thread_pend(s, q, timeout)) /\ Still(s, nd_thread_wakeup(s, q))
<1>1. Still(s, nd_thread_pend(s, q, timeout))
  <2> DEFINE c == s.cur
             s0 == WaitInsert(s, q, c)
             s1 == [s0 EXCEPT !.error[c] = "EOK", !.stat[c] = "BLOCK"]
  <2>1. Still(s, s0)
    BY StillLemma
  <2>2. nd_thread_pend(s, q, timeout)
          = IF timeout = Forever THEN s1 ELSE nd_timer_start(s1, c, "pend", timeout)
    BY DEF nd_thread_pend
  <2> HIDE DEF s0, c
  <2>3. Still(s, s1)
    BY <2>1 DEF Still, Quiet, HasControl, ControlFields
  <2> HIDE DEF s1
  <2>4. Still(s1, nd_timer_start(s1, c, "pend", timeout))
    BY <2>3, AlsoStill, StillLemma
  <2> QED
    BY <2>2, <2>3, <2>4, AlsoStill
<1>2. Still(s, nd_thread_wakeup(s, q))
  <2> DEFINE t == Head(s.wait[q])
             s0 == nd_timer_stop(s, t, FALSE)
             s1 == [s0 EXCEPT !.error[t] = "EOK", !.stat[t] = "READY"]
             s2 == WaitRemove(s1, t)
  <2>1. Still(s, s0)
    BY StillLemma
  <2>2. nd_thread_wakeup(s, q) = nd_thread_ready_add_tail(s2, t)
    BY DEF nd_thread_wakeup
  <2> HIDE DEF s0, t
  <2>3. Still(s, s1)
    BY <2>1 DEF Still, Quiet, HasControl, ControlFields
  <2> HIDE DEF s1
  <2>4. Still(s1, s2)
    BY <2>3, AlsoStill, StillLemma
  <2> HIDE DEF s2
  <2>5. Still(s, s2)
    BY <2>3, <2>4, AlsoStill
  <2>6. Still(s2, nd_thread_ready_add_tail(s2, t))
    BY <2>5, AlsoStill, StillLemma
  <2> QED
    BY <2>2, <2>5, <2>6, AlsoStill
<1> QED
  BY <1>1, <1>2

\* The context switch changes who is current, and nothing else of control.
LEMMA SwitchQuiet ==
  ASSUME NEW s, HasControl(s), NEW n
  PROVE  /\ Quiet(s, nd_context_switch_cb(s, n))
         /\ nd_context_switch_cb(s, n).cur = IF n = NoThread THEN s.cur ELSE n
<1> DEFINE s0 == nd_thread_ready_remove(s, n)
           c == s.cur
           spent == [s0 EXCEPT !.left[c] = IF s0.ran[c] = -1 \/ @ = 0 THEN @
                                          ELSE IF s0.ran[c] >= @ THEN 0 ELSE @ - s0.ran[c]]
           s1 == SettleSlice(s0, c)
           s2 == [s1 EXCEPT !.next = NoThread, !.cur = n, !.stat[n] = "RUNNING"]
           r == StartSlice(s2, n)
<1>1. Still(s, s0)
  BY StillLemma
<1>2. Still(s0, s1)
  <2>1. HasControl(s0)
    BY <1>1, AlsoStill
  <2>2. \/ s1 = s0
        \/ s1 = [nd_timer_stop(spent, c, TRUE) EXCEPT !.ran[c] = -1]
    BY DEF SettleSlice
  <2> HIDE DEF s0, c
  <2>3. Still(s0, spent)
    BY <2>1 DEF Still, Quiet, HasControl, ControlFields
  <2> HIDE DEF spent
  <2> DEFINE u == nd_timer_stop(spent, c, TRUE)
  <2>4. Still(s0, u)
    BY <2>1, <2>3, AlsoStill, StillLemma
  <2> HIDE DEF u
  <2>5. Still(s0, [u EXCEPT !.ran[c] = -1]) /\ Still(s0, s0)
    BY <2>1, <2>4 DEF Still, Quiet, HasControl, ControlFields
  <2> HIDE DEF s1
  <2> QED
    BY <2>2, <2>5 DEF u
<1>3. nd_context_switch_cb(s, n) = IF n = NoThread THEN s ELSE r
  BY DEF nd_context_switch_cb
<1> HIDE DEF s0, c, spent
<1>4. Still(s, s1)
  BY <1>1, <1>2, AlsoStill
<1> HIDE DEF s1
<1>5. Quiet(s, s2) /\ s2.cur = n /\ HasControl(s2)
  BY <1>4 DEF Still, Quiet, HasControl, ControlFields
<1> HIDE DEF s2
<1>6. Still(s2, r)
  <2> DEFINE budget == IF s2.left[n] = 0 \/ s2.left[n] > Slice[n] THEN Slice[n] ELSE s2.left[n]
             a == [s2 EXCEPT !.left[n] = budget, !.ran[n] = IF s2.tick0 THEN -1 ELSE 0]
             b == nd_timer_stop(s2, n, TRUE)
  <2>1. \/ r = s2
        \/ r = nd_timer_start(a, n, "slice", budget)
        \/ r = [b EXCEPT !.left[n] = Slice[n], !.ran[n] = -1]
    BY DEF StartSlice
  <2> HIDE DEF budget
  <2>2. Still(s2, a) /\ Still(s2, s2)
    BY <1>5 DEF Still, Quiet, HasControl, ControlFields
  <2> HIDE DEF a
  <2>3. Still(s2, nd_timer_start(a, n, "slice", budget))
    BY <1>5, <2>2, AlsoStill, StillLemma
  <2>4. Still(s2, b)
    BY <1>5, StillLemma
  <2> HIDE DEF b
  <2>5. Still(s2, [b EXCEPT !.left[n] = Slice[n], !.ran[n] = -1])
    BY <1>5, <2>4 DEF Still, Quiet, HasControl, ControlFields
  <2> HIDE DEF r
  <2> QED
    BY <2>1, <2>2, <2>3, <2>5
<1> HIDE DEF r
<1> QED
  BY <1>3, <1>5, <1>6 DEF Still, Quiet

\* The scheduler too, which inside a handler changes nothing of it.
LEMMA SchedulerQuiet ==
  ASSUME NEW s, HasControl(s)
  PROVE  /\ Quiet(s, nd_schedule_core(s)) /\ Quiet(s, nd_scheduler(s))
         /\ s.nest > 0 => nd_scheduler(s).cur = s.cur
         /\ nd_schedule_core(s).cur = NoThread => s.cur = NoThread
         /\ nd_scheduler(s).cur = NoThread => s.cur = NoThread
         /\ s.cur = NoThread => nd_schedule_core(s).cur = NoThread /\ nd_scheduler(s).cur = NoThread
<1> DEFINE n == nd_get_highest_priority_thread(s)
           c == s.cur
           q == Requeue(s, n)
           r == nd_schedule_core(s)
<1>1. CASE ~nd_should_switch(s, n)
  <2>1. r = s
    BY <1>1 DEF nd_schedule_core
  <2>2. Quiet(s, r) /\ r.cur = s.cur
    BY <2>1 DEF Quiet
  <2>3. nd_scheduler(s) = r \/ (s.nest > 0 /\ nd_scheduler(s) = [s EXCEPT !.try = TRUE])
    BY DEF nd_scheduler
  <2> HIDE DEF r
  <2> QED
    BY <2>2, <2>3 DEF Quiet, HasControl, ControlFields, nd_scheduler, r
<1>2. CASE nd_should_switch(s, n)
  <2>1. n # NoThread /\ s.cur # NoThread
    BY <1>2 DEF nd_should_switch
  <2>2. r = nd_hw_do_switch(q, n)
    BY <1>2 DEF nd_schedule_core
  <2>3. Still(s, q)
    <3> DEFINE s1 == [s EXCEPT !.yield[c] = @ /\ ~Rotates(s, n)]
               s2 == [s1 EXCEPT !.stat[c] = "READY"]
               s3 == IF Rotates(s, n) /\ Slice[c] # 0
                     THEN [s2 EXCEPT !.left[c] = Slice[c], !.ran[c] = -1] ELSE s2
    <3>1. q = s1 \/ q = nd_thread_ready_add_head(s3, c) \/ q = nd_thread_ready_add_tail(s3, c)
      BY DEF Requeue
    <3>2. Still(s, s1)
      BY DEF Still, Quiet, HasControl, ControlFields
    <3> HIDE DEF s1, c
    <3>3. Still(s, s2)
      BY <3>2 DEF Still, Quiet, HasControl, ControlFields
    <3> HIDE DEF s2
    <3>4. Still(s, s3)
      BY <3>3 DEF Still, Quiet, HasControl, ControlFields
    <3> HIDE DEF s3
    <3>5. Still(s, nd_thread_ready_add_head(s3, c)) /\ Still(s, nd_thread_ready_add_tail(s3, c))
      BY <3>4, AlsoStill, StillLemma
    <3> HIDE DEF q
    <3> QED
      BY <3>1, <3>2, <3>5
  <2> HIDE DEF n, q
  <2>4. Quiet(s, r) /\ r.cur # NoThread
    <3>1. HasControl(q)
      BY <2>3, AlsoStill
    <3>2. CASE Deferred
      <4>1. r = [q EXCEPT !.next = n, !.pendsv = TRUE]
        BY <2>2, <3>2 DEF nd_hw_do_switch
      <4> HIDE DEF r
      <4> QED
        BY <2>1, <2>3, <3>1, <4>1 DEF Still, Quiet, HasControl, ControlFields
    <3>3. CASE ~Deferred
      <4>1. r = nd_context_switch_cb(q, n)
        BY <2>2, <3>3 DEF nd_hw_do_switch
      <4> HIDE DEF r
      <4> QED
        BY <2>1, <2>3, <3>1, <4>1, SwitchQuiet, AlsoStill
    <3> QED
      BY <3>2, <3>3
  <2>5. nd_scheduler(s) = IF s.nest > 0 THEN [s EXCEPT !.try = TRUE] ELSE r
    BY DEF nd_scheduler
  <2> HIDE DEF r
  <2>6. Quiet(s, [s EXCEPT !.try = TRUE]) /\ [s EXCEPT !.try = TRUE].cur = s.cur
    BY DEF Quiet, HasControl, ControlFields
  <2> QED
    BY <2>1, <2>4, <2>5, <2>6 DEF r
<1> QED
  BY <1>1, <1>2

\* A handler that has not called nd_exit_interrupt is the innermost one.
InUse(s) == s.isr # <<>> /\ ~Last(s.isr).done

\* The loops run under the lock of a handler that goes on afterwards or, for an abort,
\* of a thread; and there is one handler at a time.
Control(s) ==
  /\ Len(s.isr) <= 1
  /\ ~Booted(s) => s.isr = <<>>
  /\ s.expiring => InUse(s)
  /\ s.halting # NoThread => ~s.expiring /\ (s.isr = <<>> \/ InUse(s))

\* Whoever becomes current goes on in its own code at once.
GoesOn(s, r) == r.cur # s.cur => InThread(r)

\* A kernel record has the fields, and inside a handler its nest count is not zero.
LEMMA FieldsLemma ==
  ASSUME NEW s, Sure(s)
  PROVE  /\ HasControl(s) /\ (InUse(s) => s.nest > 0) /\ (s.isr = <<>> => s.nest = 0)
         /\ s.isr \in Seq(Frame) /\ s.cur \in Thread \cup {NoThread} /\ s.nest \in Nat
         /\ (~Deferred => ~s.pendsv /\ ~s.fault)
<1>1. s \in KernelState /\ NestCounts(s) /\ SwitchAgrees(s) /\ (~Deferred => Steady(s))
  BY DEF Sure, Consistent, Agree
<1>2. HasControl(s)
  BY <1>1 DEF KernelState, HasControl, ControlFields
<1>3. s.isr \in Seq(Frame) /\ s.nest \in Nat /\ s.cur \in Thread \cup {NoThread}
  BY <1>1 DEF KernelState
<1>4. InUse(s) => s.nest > 0
  <2>1. InUse(s) => Len(s.isr) \in DOMAIN s.isr /\ Last(s.isr) = s.isr[Len(s.isr)]
    BY <1>3 DEF InUse, Last
  <2>2. InUse(s) => Open(s) # {}
    BY <2>1 DEF Open, InUse
  <2> QED
    BY <1>1, <2>2, NestLemma
<1>5. s.isr = <<>> => s.nest = 0
  BY <1>1, <1>3, NestLemma
<1> QED
  BY <1>1, <1>2, <1>3, <1>4, <1>5 DEF SwitchAgrees, Steady

\* What a step that leaves the fields alone keeps.
LEMMA QuietControl ==
  ASSUME NEW s, NEW r, Control(s), Quiet(s, r), r.cur = NoThread => s.cur = NoThread
  PROVE  Control(r)
  BY DEF Control, Quiet, Booted, InUse

\* A call that changes a kernel record s outside the loops to x and then runs the
\* scheduler.
LEMMA ScheduleControl ==
  ASSUME ~Deferred, Sure(k'), NEW s, HasControl(s), Control(s), InUse(s) => s.nest > 0,
         ~s.expiring, s.halting = NoThread, s.isr = <<>> \/ InUse(s),
         NEW x, Still(s, x), k' = nd_scheduler(x)
  PROVE  Control(k') /\ GoesOn(s, k')
<1>1. HasControl(x) /\ x.cur = s.cur /\ x.nest = s.nest
  BY AlsoStill DEF Still, Quiet
<1> DEFINE r == k'
<1>2. r = nd_scheduler(x) /\ (~Deferred => ~r.pendsv /\ ~r.fault)
  BY FieldsLemma
<1> HIDE DEF r
<1>3. /\ Quiet(x, r) /\ (x.nest > 0 => r.cur = x.cur)
      /\ (r.cur = NoThread => x.cur = NoThread) /\ (x.cur = NoThread => r.cur = NoThread)
  BY <1>1, <1>2, SchedulerQuiet
<1>4. Quiet(s, r)
  BY <1>1, <1>3, AlsoStill
<1>5. Control(r)
  BY <1>1, <1>3, <1>4, QuietControl
<1>6. r.cur # s.cur => InThread(r)
  <2> SUFFICES ASSUME r.cur # s.cur PROVE InThread(r)
    OBVIOUS
  <2>1. ~InUse(s)
    BY <1>1, <1>3
  <2>2. r.isr = <<>> /\ ~r.expiring /\ r.halting = NoThread
    BY <1>4, <2>1 DEF Quiet
  <2>3. r.cur # NoThread
    BY <1>1, <1>3
  <2> QED
    BY <1>2, <2>2, <2>3 DEF InThread, Booted, Masked
<1> QED
  BY <1>5, <1>6 DEF GoesOn, r

\* In particular a call of a thread or of a handler.
LEMMA CallControl ==
  ASSUME ~Deferred, Sure(k), Sure(k'), Control(k), ~Masked(k),
         k.isr = <<>> \/ InUse(k), NEW x, Still(k, x), k' = nd_scheduler(x)
  PROVE  Control(k') /\ GoesOn(k, k')
<1> DEFINE s == k
<1>1. HasControl(s) /\ (InUse(s) => s.nest > 0) /\ ~s.expiring /\ s.halting = NoThread
  BY FieldsLemma DEF Masked
<1> HIDE DEF s
<1>2. Control(k') /\ GoesOn(s, k')
  BY <1>1, ScheduleControl DEF s
<1> QED
  BY <1>2 DEF s

\* Who calls, and from where.
LEMMA CallerLemma ==
  ASSUME Sure(k), Control(k)
  PROVE  /\ InThread(k) => ~Masked(k) /\ k.isr = <<>> /\ Booted(k)
         /\ InHandler(k) => ~Masked(k) /\ InUse(k) /\ Booted(k)
         /\ InBoot(k) => ~Masked(k) /\ k.isr = <<>>
         /\ \A c : ThreadCalls(c) => InThread(k)
         /\ \A c : HandlerCalls(c) => InHandler(k)
  BY DEF InThread, InHandler, InBoot, Control, InUse, ThreadCalls, HandlerCalls, InOwnCode

\* One call of a thread or of a handler.
LEMMA ApiControl ==
  ASSUME ~Deferred, Sure(k), Sure(k'), Control(k), NEW t \in Thread,
         \/ \E p \in Prio : nd_thread_create(t, p)
         \/ nd_thread_resume(t)
         \/ \E timeout : nd_thread_join(t, timeout)
         \/ nd_thread_yield
         \/ \E d : nd_thread_delay(d)
         \/ nd_thread_suspend(t)
  PROVE  Control(k') /\ GoesOn(k, k')
<1>0. HasControl(k)
  BY FieldsLemma
<1>1. ASSUME NEW p \in Prio, nd_thread_create(t, p) PROVE Control(k') /\ GoesOn(k, k')
  <2> DEFINE s1 == [k EXCEPT !.prio[t] = p, !.left[t] = Slice[t], !.ran[t] = -1,
                             !.yield[t] = FALSE, !.wait[t] = <<>>, !.stat[t] = "READY"]
             x == Fresh(t, p)
  <2>1. Still(k, s1)
    BY <1>0 DEF Still, Quiet, HasControl, ControlFields
  <2>2. x = nd_thread_ready_add_tail(s1, t)
    BY DEF Fresh
  <2>3. ~Masked(k) /\ (k.isr = <<>> \/ InUse(k)) /\ k' = nd_scheduler(x)
    BY <1>1, CallerLemma DEF nd_thread_create
  <2> HIDE DEF s1, x
  <2>4. Still(k, x)
    BY <1>0, <2>1, <2>2, AlsoStill, StillLemma
  <2> QED
    BY <2>3, <2>4, CallControl
<1>2. CASE nd_thread_resume(t)
  <2> DEFINE s1 == [k EXCEPT !.stat[t] = "READY"]
             x == nd_thread_ready_add_tail(s1, t)
  <2>1. Still(k, s1)
    BY <1>0 DEF Still, Quiet, HasControl, ControlFields
  <2>3. ~Masked(k) /\ (k.isr = <<>> \/ InUse(k)) /\ k' = nd_scheduler(x)
    BY <1>2, CallerLemma DEF nd_thread_resume
  <2> HIDE DEF s1
  <2>4. Still(k, x)
    BY <1>0, <2>1, AlsoStill, StillLemma
  <2> HIDE DEF x
  <2> QED
    BY <2>3, <2>4, CallControl
<1>3. ASSUME NEW timeout, nd_thread_join(t, timeout) PROVE Control(k') /\ GoesOn(k, k')
  <2> DEFINE x == nd_thread_pend(k, t, timeout)
  <2>1. Still(k, x)
    BY <1>0, PendStill
  <2>2. ~Masked(k) /\ (k.isr = <<>> \/ InUse(k)) /\ k' = nd_scheduler(x)
    BY <1>3, CallerLemma DEF nd_thread_join
  <2> HIDE DEF x
  <2> QED
    BY <2>1, <2>2, CallControl
<1>4. CASE nd_thread_yield
  <2> DEFINE x == [k EXCEPT !.yield[k.cur] = TRUE]
  <2>1. Still(k, x)
    BY <1>0 DEF Still, Quiet, HasControl, ControlFields
  <2>2. ~Masked(k) /\ (k.isr = <<>> \/ InUse(k)) /\ k' = nd_scheduler(x)
    BY <1>4, CallerLemma DEF nd_thread_yield
  <2> HIDE DEF x
  <2> QED
    BY <2>1, <2>2, CallControl
<1>5. ASSUME NEW d, nd_thread_delay(d) PROVE Control(k') /\ GoesOn(k, k')
  <2> DEFINE c == k.cur
             s0 == nd_timer_stop(k, c, TRUE)
             s1 == IF Slice[c] = 0 THEN k ELSE [s0 EXCEPT !.left[c] = Slice[c], !.ran[c] = -1]
             s2 == [s1 EXCEPT !.stat[c] = "BLOCK"]
             x == nd_timer_start(s2, c, "delay", d)
  <2>1. ~Masked(k) /\ (k.isr = <<>> \/ InUse(k)) /\ k' = nd_scheduler(x)
    BY <1>5, CallerLemma DEF nd_thread_delay
  <2>2. Still(k, s0)
    BY <1>0, StillLemma
  <2> HIDE DEF s0, c
  <2>3. Still(k, s1)
    BY <1>0, <2>2 DEF Still, Quiet, HasControl, ControlFields
  <2> HIDE DEF s1
  <2>4. Still(k, s2)
    BY <1>0, <2>3 DEF Still, Quiet, HasControl, ControlFields
  <2> HIDE DEF s2
  <2>5. Still(k, x)
    BY <1>0, <2>4, AlsoStill, StillLemma
  <2> HIDE DEF x
  <2> QED
    BY <2>1, <2>5, CallControl
<1>6. CASE nd_thread_suspend(t)
  <2> DEFINE s == [k EXCEPT !.stat[t] = "SUSPEND"]
             s1 == WaitRemove(s, t)
             x == nd_timer_stop(s1, t, FALSE)
             y == nd_thread_ready_remove(s, t)
  <2>1. /\ ~Masked(k) /\ (k.isr = <<>> \/ InUse(k))
        /\ k' = y \/ k' = nd_scheduler(s) \/ k' = nd_scheduler(x)
    BY <1>6, CallerLemma DEF nd_thread_suspend
  <2>2. Still(k, s)
    BY <1>0 DEF Still, Quiet, HasControl, ControlFields
  <2> HIDE DEF s
  <2>3. Still(k, s1) /\ Still(k, y)
    BY <1>0, <2>2, AlsoStill, StillLemma
  <2> HIDE DEF s1, y
  <2>4. Still(k, x)
    BY <1>0, <2>3, AlsoStill, StillLemma
  <2> HIDE DEF x
  <2>5. CASE k' = y
    <3>1. Still(k, k')
      BY <2>3, <2>5
    <3> QED
      BY <3>1, QuietControl DEF Still, GoesOn
  <2> QED
    BY <2>1, <2>2, <2>4, <2>5, CallControl
<1> QED
  BY <1>1, <1>2, <1>3, <1>4, <1>5, <1>6

\* The start of the scheduler, and the two halves of an abort.
LEMMA LifeControl ==
  ASSUME ~Deferred, Sure(k), Sure(k'), Control(k),
         \/ nd_scheduler_start
         \/ \E t \in Thread : nd_thread_abort(t)
         \/ HaltLoop
  PROVE  Control(k') /\ GoesOn(k, k')
<1>0. HasControl(k)
  BY FieldsLemma
<1>1. CASE nd_scheduler_start
  <2> DEFINE n == nd_get_highest_priority_thread(k)
             r == nd_context_switch_cb(k, n)
  <2>1. ~Masked(k) /\ k.isr = <<>> /\ k' = r
    BY <1>1, CallerLemma DEF nd_scheduler_start
  <2>2. Quiet(k, r) /\ r.cur = IF n = NoThread THEN k.cur ELSE n
    BY <1>0, SwitchQuiet
  <2>3. Control(r)
    <3>1. Quiet(k, r) /\ (r.cur = NoThread => k.cur = NoThread)
      BY <2>2
    <3> HIDE DEF r
    <3> QED
      BY <3>1, QuietControl
  <2>4. GoesOn(k, k')
    <3>1. ~k'.pendsv /\ ~k'.fault
      BY FieldsLemma
    <3>2. k'.isr = <<>> /\ ~k'.expiring /\ k'.halting = NoThread
      BY <2>1, <2>2 DEF Quiet, Masked
    <3>3. k'.cur # k.cur => k'.cur # NoThread
      BY <2>1, <2>2
    <3> QED
      BY <3>1, <3>2, <3>3 DEF GoesOn, InThread, Masked, Booted
  <2> QED
    BY <2>1, <2>3, <2>4
<1>2. ASSUME NEW t \in Thread, nd_thread_abort(t) PROVE Control(k') /\ GoesOn(k, k')
  <2> DEFINE s0 == nd_thread_ready_remove(k, t)
             s1 == CASE k.stat[t] = "READY" -> s0
                     [] k.stat[t] = "BLOCK" -> WaitRemove(k, t)
                     [] OTHER -> k
             s2 == nd_timer_stop(s1, t, FALSE)
             s3 == nd_timer_stop(s2, t, TRUE)
             r == k'
  <2>1. ~Masked(k) /\ (k.isr = <<>> \/ InUse(k)) /\ Booted(k)
    BY <1>2, CallerLemma DEF nd_thread_abort
  <2>2. r = [s3 EXCEPT !.stat[t] = "DEAD", !.halting = t]
    BY <1>2 DEF nd_thread_abort, Halt
  <2>3. Still(k, s0) /\ Still(k, WaitRemove(k, t)) /\ Still(k, k)
    BY <1>0, StillLemma DEF Still, Quiet
  <2> HIDE DEF s0
  <2>4. Still(k, s1)
    BY <2>3
  <2> HIDE DEF s1
  <2>5. Still(k, s2)
    BY <1>0, <2>4, AlsoStill, StillLemma
  <2> HIDE DEF s2
  <2>6. Still(k, s3)
    BY <1>0, <2>5, AlsoStill, StillLemma
  <2> HIDE DEF s3, r
  <2>7. r.isr = k.isr /\ r.nest = k.nest /\ r.expiring = k.expiring /\ r.cur = k.cur
    BY <1>0, <2>2, <2>6 DEF Still, Quiet, HasControl, ControlFields
  <2>8. Control(r) /\ GoesOn(k, r)
    BY <2>1, <2>7 DEF Control, GoesOn, Booted, Masked, InUse
  <2> QED
    BY <2>8 DEF r
<1>3. CASE HaltLoop
  <2> DEFINE t == k.halting
             s == [k EXCEPT !.halting = NoThread]
             w == nd_thread_wakeup(k, t)
  <2>1. t # NoThread /\ (k' = w \/ k' = nd_scheduler(s) \/ k' = s)
    BY <1>3 DEF HaltLoop
  <2>2. ~k.expiring /\ (k.isr = <<>> \/ InUse(k)) /\ (InUse(k) => k.nest > 0)
    BY <2>1, FieldsLemma DEF Control
  <2>3. CASE k' = w
    <3>1. Still(k, k')
      BY <1>0, <2>3, PendStill
    <3> QED
      BY <3>1, QuietControl DEF Still, GoesOn
  <2>4. /\ HasControl(s) /\ Control(s) /\ Still(s, s) /\ (InUse(s) => s.nest > 0) /\ ~s.expiring
        /\ s.halting = NoThread /\ (s.isr = <<>> \/ InUse(s)) /\ s.cur = k.cur
    BY <1>0, <2>2 DEF HasControl, ControlFields, Control, InUse, Booted, Still, Quiet
  <2> HIDE DEF s
  <2>5. CASE k' = s
    BY <2>4, <2>5 DEF GoesOn
  <2>6. CASE k' = nd_scheduler(s)
    <3>1. Control(k') /\ GoesOn(s, k')
      BY <2>4, <2>6, ScheduleControl
    <3> QED
      BY <2>4, <3>1 DEF GoesOn
  <2> QED
    BY <2>1, <2>3, <2>5, <2>6
<1> QED
  BY <1>1, <1>2, <1>3

\* A turn of timer_expired, which runs in the handler of the tick.
LEMMA ExpireControl ==
  ASSUME Sure(k), Control(k), TimerLoop
  PROVE  Control(k') /\ GoesOn(k, k')
<1>1. HasControl(k) /\ k.expiring /\ InUse(k) /\ k.nest > 0 /\ k' = ExpireOne(k)
  BY FieldsLemma DEF TimerLoop, Control
<1>2. k.halting = NoThread
  BY <1>1 DEF Control
<1> DEFINE e == Head(k.timers)
           t == e.who
           y == [k EXCEPT !.expiring = FALSE]
           s == [k EXCEPT !.timers = Tail(@)]
           a == [s EXCEPT !.yield[t] = TRUE, !.left[t] = 0, !.ran[t] = -1]
           b0 == [s EXCEPT !.stat[t] = "READY", !.error[t] = "ETIMEOUT"]
           b1 == WaitUnlink(b0, t)
           b == nd_thread_ready_add_tail(b1, t)
           d0 == [s EXCEPT !.stat[t] = "READY",
                           !.left[t] = IF Slice[t] # 0 THEN Slice[t] ELSE @,
                           !.ran[t] = IF Slice[t] # 0 THEN -1 ELSE @]
           d == nd_thread_ready_add_tail(d0, t)
<1>3. ~(k.timers = <<>> \/ (k.timers # <<>> /\ e.left > 0)) => e.cb \in {"slice", "pend", "delay"}
  <2>1. k.timers \in Seq(Timer)
    BY DEF Sure, Consistent, KernelState
  <2>2. k.timers # <<>> => e \in Timer
    BY <2>1
  <2> QED
    BY <2>2 DEF Timer
<1>4. \/ k' = y \/ k' = s \/ k' = nd_scheduler(a)
      \/ k' = nd_scheduler(b) \/ k' = nd_scheduler(d)
  BY <1>1, <1>3
     DEF ExpireOne, nd_thread_slice_timeout, nd_thread_pend_timeout, thread_timer_callback
<1>5. /\ y.isr = k.isr /\ y.cur = k.cur /\ ~y.expiring /\ y.halting = NoThread
      /\ Still(k, s)
  BY <1>1, <1>2 DEF HasControl, ControlFields, Still, Quiet
<1> HIDE DEF e, t, y, s
<1>6. HasControl(s)
  BY <1>1, <1>5, AlsoStill
<1>7. Still(s, a) /\ Still(s, b0) /\ Still(s, d0)
  BY <1>6 DEF HasControl, ControlFields, Still, Quiet
<1> HIDE DEF a, b0, d0
<1>8. Still(s, b1) /\ Still(s, d)
  BY <1>6, <1>7, AlsoStill, StillLemma
<1> HIDE DEF b1, d
<1>9. Still(s, b)
  BY <1>6, <1>8, AlsoStill, StillLemma
<1> HIDE DEF b
<1>10. ASSUME NEW x, Still(s, x), k' = nd_scheduler(x) PROVE Still(k, k')
  <2>1. Still(k, x) /\ HasControl(x)
    BY <1>1, <1>5, <1>6, <1>10, AlsoStill
  <2>2. Quiet(x, nd_scheduler(x)) /\ (x.nest > 0 => nd_scheduler(x).cur = x.cur)
    BY <2>1, SchedulerQuiet
  <2>3. x.nest > 0
    BY <1>1, <2>1 DEF Still, Quiet
  <2>4. Still(x, k')
    BY <1>10, <2>2, <2>3 DEF Still
  <2> QED
    BY <1>1, <2>1, <2>4, AlsoStill
<1>11. k' = y \/ Still(k, k')
  BY <1>4, <1>5, <1>7, <1>8, <1>9, <1>10
<1>12. CASE Still(k, k')
  BY <1>12, QuietControl DEF Still, GoesOn
<1>13. CASE k' = y
  BY <1>5, <1>13 DEF Control, GoesOn, Booted
<1> QED
  BY <1>11, <1>12, <1>13

\* The other steps of interrupts.
LEMMA InterruptControl ==
  ASSUME ~Deferred, Sure(k), Sure(k'), Control(k),
         EnterTick \/ EnterDevice \/ Exit \/ ExitTail \/ PendSV
  PROVE  Control(k') /\ GoesOn(k, k')
<1>0. HasControl(k) /\ k.isr \in Seq(Frame) /\ ~k.pendsv /\ ~k'.pendsv /\ ~k'.fault /\ MaxNest = 1
  BY FieldsLemma, NestAssumption
<1>1. ASSUME NEW src, CanEnter(k), k'.isr = Append(k.isr, [src |-> src, done |-> FALSE]),
             k'.cur = k.cur, k'.halting = k.halting
      PROVE  Control(k') /\ GoesOn(k, k')
  <2>1. k.isr = <<>> /\ k.halting = NoThread /\ Booted(k)
    BY <1>0, <1>1 DEF CanEnter, Masked
  <2>2. k'.isr = <<[src |-> src, done |-> FALSE]>>
    BY <1>1, <2>1
  <2>3. Len(k'.isr) = 1 /\ k'.isr # <<>> /\ ~Last(k'.isr).done
    BY <2>2 DEF Last
  <2> QED
    BY <1>1, <2>1, <2>3 DEF Control, GoesOn, InUse, Booted
<1>2. CASE EnterTick
  <2> DEFINE s == nd_enter_interrupt(k, "tick")
  <2>1. /\ CanEnter(k) /\ k' = [TickPasses(s) EXCEPT !.expiring = TRUE]
    BY <1>2 DEF EnterTick, CanTick, TickInterrupt
  <2>2. s.isr = Append(k.isr, [src |-> "tick", done |-> FALSE]) /\ HasControl(s)
        /\ s.cur = k.cur /\ s.halting = k.halting
    BY <1>0 DEF nd_enter_interrupt, HasControl, ControlFields
  <2> HIDE DEF s
  <2>3. k'.isr = s.isr /\ k'.cur = s.cur /\ k'.halting = s.halting
    BY <2>1, <2>2 DEF TickPasses, HasControl, ControlFields
  <2> QED
    BY <1>1, <2>1, <2>2, <2>3
<1>3. CASE EnterDevice
  <2>1. /\ CanEnter(k) /\ k'.isr = Append(k.isr, [src |-> "dev", done |-> FALSE])
        /\ k'.cur = k.cur /\ k'.halting = k.halting
    BY <1>0, <1>3 DEF EnterDevice, nd_enter_interrupt, HasControl, ControlFields
  <2> QED
    BY <1>1, <2>1
<1>4. CASE Exit
  <2>1. /\ k.isr # <<>> /\ ~k.expiring /\ k.halting = NoThread /\ Booted(k)
        /\ k'.isr = Append(Front(k.isr), [Last(k.isr) EXCEPT !.done = TRUE])
        /\ k'.cur = k.cur /\ k'.halting = k.halting /\ k'.expiring = k.expiring
    BY <1>0, <1>4, CallerLemma
       DEF Exit, InHandler, Masked, nd_exit_interrupt, HasControl, ControlFields
  <2>2. Len(k.isr) = 1 /\ Front(k.isr) = <<>>
    <3> DEFINE n == Len(k.isr)
    <3>1. n \in Nat /\ n <= 1 /\ n # 0
      BY <1>0, <2>1 DEF Control
    <3> HIDE DEF n
    <3>2. n = 1
      BY ONLY <3>1
    <3> QED
      BY <1>0, <3>2 DEF n, Front
  <2>3. Len(k'.isr) = 1
    BY <2>1, <2>2
  <2> QED
    BY <2>1, <2>3 DEF Control, GoesOn, Booted
<1>5. CASE ExitTail
  <2> DEFINE s == [k EXCEPT !.isr = Front(@)]
             x == [s EXCEPT !.try = FALSE]
  <2>1. AtTail(k) /\ (k' = s \/ k' = nd_schedule_core(x))
    BY <1>5 DEF ExitTail, HandlerTail
  <2>2. k.isr # <<>> /\ ~k.expiring /\ k.halting = NoThread /\ Booted(k)
    BY <2>1 DEF AtTail, Masked, Control
  <2>3. Front(k.isr) = <<>>
    BY <1>0, <2>2 DEF Control, Front
  <2>4. /\ s.isr = <<>> /\ s.cur = k.cur /\ ~s.expiring /\ s.halting = NoThread
        /\ x.isr = <<>> /\ x.cur = k.cur /\ ~x.expiring /\ x.halting = NoThread
        /\ HasControl(x)
    BY <1>0, <2>2, <2>3 DEF HasControl, ControlFields
  <2> HIDE DEF s, x
  <2>5. CASE k' = s
    BY <2>4, <2>5 DEF Control, GoesOn
  <2>6. CASE k' = nd_schedule_core(x)
    <3>1. Quiet(x, k') /\ (k'.cur = NoThread => x.cur = NoThread)
      BY <2>4, <2>6, SchedulerQuiet
    <3>2. k'.isr = <<>> /\ ~k'.expiring /\ k'.halting = NoThread /\ k'.cur # NoThread
      BY <2>2, <2>4, <3>1 DEF Quiet, Booted
    <3> QED
      BY <1>0, <3>2 DEF Control, GoesOn, InThread, Masked, Booted
  <2> QED
    BY <2>1, <2>5, <2>6
<1>6. CASE PendSV
  BY <1>0, <1>6 DEF PendSV, CanPendSV
<1> QED
  BY <1>2, <1>3, <1>4, <1>5, <1>6

\* Every step of the scheduler keeps Control.
LEMMA ControlStep ==
  ASSUME ~Deferred, Sure(k), Control(k), Next
  PROVE  Control(k') /\ GoesOn(k, k')
<1>1. Sure(k')
  BY SureStep
<1>2. CASE JoinReturn
  BY <1>2 DEF JoinReturn, GoesOn
<1>3. \A t \in Thread : PrioChoice[t] \subseteq Prio
  BY PrioChoiceAssumption
<1>4. CASE \/ nd_scheduler_start
           \/ \E t \in Thread : nd_thread_abort(t)
           \/ HaltLoop
  BY <1>1, <1>4, LifeControl
<1>5. CASE \/ \E t \in Thread, p \in Prio : nd_thread_create(t, p)
           \/ \E t \in Thread : nd_thread_resume(t)
           \/ \E t \in Thread : \E timeout : nd_thread_join(t, timeout)
           \/ nd_thread_yield
           \/ \E d : nd_thread_delay(d)
           \/ \E t \in Thread : nd_thread_suspend(t)
  BY <1>1, <1>5, ApiControl, ThreadAssumption
<1>6. CASE TimerLoop
  BY <1>6, ExpireControl
<1>7. CASE EnterTick \/ EnterDevice \/ Exit \/ ExitTail \/ PendSV
  BY <1>1, <1>7, InterruptControl
<1> QED
  BY <1>2, <1>3, <1>4, <1>5, <1>6, <1>7 DEF Next, Others

-----------------------------------------------------------------------------
(* Calls that wait in a loop: the queue and the block pool *)

\* The current thread is in the loop of such a call.
InLoop == Booted(k) /\ inside[k.cur] \in Object

\* The kernel under such calls: as WaitInv, but threads may be inside the loops, and the
\* one that runs is in its loop alone.
LoopPlaces ==
  /\ Sure(k) /\ Placed(k, inside) /\ Sorted(k) /\ Control(k)
  /\ inside \in [Thread -> WaitQueue \cup {NoThread}] /\ inside[Idle] \notin Object
  /\ InLoop => InThread(k)

\* Objects are wait queues, and no threads.
LEMMA ObjectLemma ==
  /\ NoThread \notin Object /\ Object \subseteq WaitQueue /\ Object \cap Thread = {}
  /\ NoThread \notin Thread /\ Thread \subseteq WaitQueue /\ Idle \in Thread
  BY ObjectAssumption, ThreadAssumption DEF WaitQueue

\* A thread waits for q, for the first time or again.
WaitsIn(q, timeout) ==
  /\ InThread(k) /\ k.cur # Idle /\ inside[k.cur] \in {NoThread, q}
  /\ k' = nd_scheduler(nd_thread_pend(k, q, timeout))
  /\ inside' = [inside EXCEPT ![k.cur] = q]

\* A thread returns without touching the kernel.
LeavesLoop ==
  /\ InThread(k) /\ k.cur # Idle /\ k' = k
  /\ inside' = [inside EXCEPT ![k.cur] = NoThread]

\* The first waiter of q is woken, by a thread that returns, which is not inside a call
\* on q itself, or by a handler.
HandsOn(q) == k' = IF k.wait[q] = <<>> THEN k ELSE nd_scheduler(nd_thread_wakeup(k, q))

ComesBack(q) ==
  \/ /\ InThread(k) /\ k.cur # Idle /\ inside[k.cur] # q
     /\ inside' = [inside EXCEPT ![k.cur] = NoThread]
  \/ InHandler(k) /\ UNCHANGED inside

\* A step of the scheduler, while nobody is in a loop.
LEMMA LoopNext ==
  ASSUME ~Deferred, LoopPlaces, ~InLoop, Next
  PROVE  LoopPlaces' /\ Moved
<1>1. /\ Sure(k) /\ Placed(k, inside) /\ Sorted(k) /\ Control(k)
      /\ inside \in [Thread -> WaitQueue \cup {NoThread}] /\ inside[Idle] \notin Object
  BY DEF LoopPlaces
<1>2. Moved /\ Sure(k')
  BY <1>1, MovedStep, SureStep
<1>3. inside' \in [Thread -> WaitQueue \cup {NoThread}]
  <2>1. Thread \cup {NoThread} \subseteq WaitQueue \cup {NoThread}
    BY ObjectLemma
  <2> QED
    BY <1>1, <2>1, InsideLemma
<1>4. Control(k') /\ GoesOn(k, k')
  BY <1>1, ControlStep
<1>5. \A t \in Thread : inside'[t] \in Object => inside[t] \in Object
  BY <1>2, ObjectLemma DEF Moved, Moves, Alike, Elsewhere, TimesOut, Resumes, Suspends, Aborts
<1>6. InLoop' => InThread(k')
  <2> SUFFICES ASSUME InLoop', k'.cur = k.cur PROVE FALSE
    BY <1>4 DEF GoesOn
  <2>1. k'.cur # NoThread /\ inside'[k'.cur] \in Object
    BY DEF InLoop, Booted
  <2>2. k.cur \in Thread \cup {NoThread}
    BY <1>1, FieldsLemma
  <2>3. InLoop
    BY <1>5, <2>1, <2>2 DEF InLoop, Booted
  <2> QED
    BY <2>3
<1> QED
  BY <1>1, <1>2, <1>3, <1>4, <1>5, <1>6, ObjectLemma DEF LoopPlaces, Moved, Sorted, OrderKept

\* The running thread waits, and gives way.
LEMMA LoopWaits ==
  ASSUME ~Deferred, LoopPlaces, NEW q \in Object, NEW timeout \in 0..MaxDelay \cup {Forever},
         WaitsIn(q, timeout)
  PROVE  /\ LoopPlaces'
         /\ k.cur \in Thread /\ k.stat[k.cur] = "RUNNING" /\ k'.stat[k.cur] = "BLOCK"
         /\ \A p \in WaitQueue : Contains(k'.wait[p], k.cur) <=> p = q
         /\ \A u \in Thread \ {k.cur} : WaitsAlike(k, k', u) /\ inside'[u] = inside[u]
<1> DEFINE c == k.cur
<1>1. /\ InThread(k) /\ c # Idle /\ k' = nd_scheduler(nd_thread_pend(k, q, timeout))
      /\ inside' = [inside EXCEPT ![c] = q]
  BY DEF WaitsIn
<1>2. /\ Sure(k) /\ Placed(k, inside) /\ Sorted(k) /\ Control(k)
      /\ inside \in [Thread -> WaitQueue \cup {NoThread}] /\ inside[Idle] \notin Object
  BY DEF LoopPlaces
<1>3. c \in Thread \ {Idle} /\ k.stat[c] = "RUNNING" /\ Consistent(k)
  BY <1>1, <1>2, InThreadLemma DEF Sure
<1>4. timeout \in Nat \cup {Forever} /\ q \in WaitQueue /\ q \notin Thread
  BY ObjectLemma, DelayAssumption
<1>5. /\ Sure(k') /\ WaitsKept(k, k', c) /\ k'.stat[c] = "BLOCK"
      /\ \A p \in WaitQueue : Contains(k'.wait[p], c) <=> p = q
  <2>1. ~Deferred \/ IsrCalls \subseteq {"resume"} => Steady(k)
    BY <1>2 DEF Sure
  <2> QED
    BY <1>1, <1>3, <1>4, <2>1, PendStep
<1>6. Control(k') /\ GoesOn(k, k')
  <2> DEFINE x == nd_thread_pend(k, q, timeout)
  <2>1. Still(k, x)
    BY <1>2, FieldsLemma, PendStill
  <2>2. k' = nd_scheduler(x) /\ ~Masked(k) /\ k.isr = <<>>
    BY <1>1 DEF InThread
  <2> HIDE DEF x
  <2> QED
    BY <1>2, <1>5, <2>1, <2>2, CallControl
<1>7. k'.cur # c
  <2>1. Quiet(k, k')
    <3> DEFINE x == nd_thread_pend(k, q, timeout)
    <3>1. HasControl(k) /\ Still(k, x)
      BY <1>2, FieldsLemma, PendStill
    <3>2. k' = nd_scheduler(x)
      BY <1>1
    <3> HIDE DEF x
    <3>3. HasControl(x) /\ Quiet(x, k')
      BY <3>1, <3>2, AlsoStill, SchedulerQuiet
    <3> QED
      BY <3>1, <3>3, AlsoStill
  <2>2. k'.isr = <<>> /\ k'.halting = NoThread
    BY <1>1, <2>1 DEF InThread, Masked, Quiet
  <2>3. ~k'.pendsv /\ Settled(k')
    BY <1>5, FieldsLemma DEF Sure
  <2>4. k'.cur = c => Booted(k') /\ k'.stat[k'.cur] # "RUNNING" /\ k'.halting # k'.cur
    BY <1>3, <1>5, <2>2, ObjectLemma DEF Booted
  <2> QED
    BY <2>2, <2>3, <2>4 DEF Settled
<1> HIDE DEF c
<1>8. inside'[c] = q /\ inside' \in [Thread -> WaitQueue \cup {NoThread}] /\ inside'[Idle] = inside[Idle]
  BY <1>1, <1>2, <1>3, <1>4
<1>9. WaitsWhere(k', c, inside'[c])
  BY <1>4, <1>5, <1>8, ObjectLemma DEF WaitsWhere
<1>10. \A u \in Thread \ {c} : WaitsAlike(k, k', u) /\ inside'[u] = inside[u]
  BY <1>1, <1>2, <1>5 DEF WaitsKept
<1>11. Placed(k', inside') /\ Sorted(k')
  BY <1>2, <1>5, <1>9, <1>10, PlacedLemma DEF WaitsKept, Sorted, OrderKept
<1>12. InLoop' => InThread(k')
  BY <1>6, <1>7 DEF GoesOn, c
<1>13. LoopPlaces'
  BY <1>2, <1>5, <1>6, <1>8, <1>11, <1>12 DEF LoopPlaces
<1> QED
  BY <1>3, <1>5, <1>10, <1>13 DEF c

\* A thread leaves its loop.
LEMMA LoopLeaves ==
  ASSUME LoopPlaces, LeavesLoop
  PROVE  LoopPlaces' /\ k.cur \in Thread
<1> DEFINE c == k.cur
<1>1. InThread(k) /\ inside' = [inside EXCEPT ![c] = NoThread] /\ k' = k
  BY DEF LeavesLoop
<1>2. /\ Sure(k) /\ Placed(k, inside) /\ Sorted(k) /\ Control(k)
      /\ inside \in [Thread -> WaitQueue \cup {NoThread}] /\ inside[Idle] \notin Object
  BY DEF LoopPlaces
<1>3. c \in Thread /\ k.stat[c] = "RUNNING"
  BY <1>1, <1>2, InThreadLemma
<1>4. /\ inside'[c] = NoThread /\ inside' \in [Thread -> WaitQueue \cup {NoThread}]
      /\ inside'[Idle] \notin Object
  BY <1>1, <1>2, <1>3, ObjectLemma
<1>5. InLoop' => InThread(k')
  BY <1>1
<1> HIDE DEF c
<1>6. WaitsWhere(k', c, inside'[c])
  BY <1>1, <1>2, <1>3, <1>4, FreeWhereLemma
<1>7. \A u \in Thread \ {c} : WaitsAlike(k, k', u) /\ inside'[u] = inside[u]
  BY <1>1, <1>2 DEF WaitsAlike
<1>8. Placed(k', inside')
  BY <1>2, <1>6, <1>7, PlacedLemma
<1> QED
  BY <1>1, <1>2, <1>3, <1>4, <1>5, <1>8 DEF LoopPlaces, c

\* It, and nobody else but the thread that returns, moves.
WokeFirst(q) ==
  /\ k.wait[q] = <<>> => k' = k
  /\ k.wait[q] # <<>> =>
       LET h == Head(k.wait[q])
       IN /\ h \in Thread /\ k.stat[h] = "BLOCK" /\ inside[h] = q
          /\ k'.stat[h] \in Runnable /\ k'.error[h] = "EOK"
          /\ \A u \in Thread \ {h} : WaitsAlike(k, k', u)

\* A message or a slot is handed on.
LEMMA LoopHands ==
  ASSUME ~Deferred, LoopPlaces, NEW q \in Object, HandsOn(q), ComesBack(q)
  PROVE  /\ LoopPlaces' /\ WokeFirst(q)
         /\ InThread(k) => k.cur \in Thread /\ k.stat[k.cur] = "RUNNING"
<1> DEFINE c == k.cur
           h == Head(k.wait[q])
<1>1. /\ Sure(k) /\ Placed(k, inside) /\ Sorted(k) /\ Control(k) /\ Consistent(k)
      /\ inside \in [Thread -> WaitQueue \cup {NoThread}] /\ inside[Idle] \notin Object
      /\ ~Deferred \/ IsrCalls \subseteq {"resume"} => Steady(k)
  BY DEF LoopPlaces, Sure
<1>2. /\ k.wait[q] = <<>> => k' = k
      /\ k.wait[q] # <<>> => k' = nd_scheduler(nd_thread_wakeup(k, q))
  BY DEF HandsOn
<1>3. /\ InThread(k) => c \in Thread /\ k.stat[c] = "RUNNING"
      /\ ~Masked(k) /\ (k.isr = <<>> \/ InUse(k)) /\ q \in WaitQueue
  BY <1>1, InThreadLemma, CallerLemma, ObjectLemma DEF ComesBack
<1>4. k.wait[q] # <<>> =>
        /\ Sure(k') /\ WaitsKept(k, k', h)
        /\ h \in Thread /\ Contains(k.wait[q], h) /\ k.stat[h] = "BLOCK"
        /\ k'.stat[h] \in Runnable /\ k'.error[h] = "EOK"
  BY <1>1, <1>2, <1>3, WakeStep DEF Runnable
<1>5. k.wait[q] # <<>> => inside[h] = q
  BY <1>1, <1>3, <1>4 DEF Placed, WaitsWhere
<1>6. WokeFirst(q)
  BY <1>2, <1>4, <1>5 DEF WokeFirst, WaitsKept
<1>7. Sure(k')
  BY <1>1, <1>2, <1>4
<1>8. Control(k') /\ GoesOn(k, k')
  <2>1. CASE k' = k
    BY <1>1, <2>1 DEF GoesOn
  <2>2. CASE k' # k
    <3> DEFINE x == nd_thread_wakeup(k, q)
    <3>1. Still(k, x)
      BY <1>1, FieldsLemma, PendStill
    <3>2. k' = nd_scheduler(x)
      BY <1>2, <2>2
    <3> HIDE DEF x
    <3> QED
      BY <1>1, <1>3, <1>7, <3>1, <3>2, CallControl
  <2> QED
    BY <2>1, <2>2
<1> HIDE DEF h
<1>9. Sorted(k')
  BY <1>1, <1>2, <1>4 DEF WaitsKept, Sorted, OrderKept
<1>10. /\ inside' \in [Thread -> WaitQueue \cup {NoThread}] /\ inside'[Idle] \notin Object
       /\ \/ InHandler(k) /\ inside' = inside
          \/ InThread(k) /\ inside'[c] = NoThread
       /\ \A u \in Thread : inside'[u] = inside[u] \/ (InThread(k) /\ u = c /\ inside'[u] = NoThread)
  <2>1. CASE InThread(k) /\ inside' = [inside EXCEPT ![c] = NoThread] /\ c # Idle
    BY <1>1, <1>3, <2>1, ObjectLemma
  <2>2. CASE InHandler(k) /\ inside' = inside
    BY <1>1, <2>2
  <2> QED
    BY <2>1, <2>2 DEF ComesBack
<1>11. InLoop' => InThread(k')
  <2> SUFFICES ASSUME InLoop', k'.cur = c PROVE InThread(k')
    BY <1>8 DEF GoesOn
  <2>1. Booted(k) /\ inside'[c] \in Object
    BY DEF InLoop, Booted
  <2>2. InHandler(k) /\ inside' = inside
    BY <1>10, <2>1, ObjectLemma
  <2>3. InLoop
    BY <2>1, <2>2 DEF InLoop
  <2> QED
    BY <2>2, <2>3 DEF LoopPlaces, InThread, InHandler
<1>12. \A u \in Thread : WaitsAlike(k, k', u) \/ k'.stat[u] \in Runnable
  BY <1>2, <1>4 DEF WaitsKept, WaitsAlike
<1> HIDE DEF c
<1>13. Placed(k', inside')
  <2> SUFFICES ASSUME NEW u \in Thread PROVE WaitsWhere(k', u, inside'[u])
    BY DEF Placed
  <2>1. CASE k'.stat[u] \in Runnable
    BY <1>7, <2>1, FreeWhereLemma DEF Runnable
  <2>2. CASE k'.stat[u] \notin Runnable
    <3>1. WaitsAlike(k, k', u) /\ WaitsWhere(k, u, inside[u])
      BY <1>1, <1>12, <2>2 DEF Placed
    <3>2. InThread(k) /\ u = c => k'.stat[u] \in Runnable
      BY <1>3, <3>1 DEF WaitsAlike, Runnable
    <3>3. inside'[u] = inside[u]
      BY <1>10, <2>2, <3>2
    <3> QED
      BY <3>1, <3>3 DEF WaitsWhere, WaitsAlike
  <2> QED
    BY <2>1, <2>2
<1>14. LoopPlaces'
  BY <1>7, <1>8, <1>9, <1>10, <1>11, <1>13 DEF LoopPlaces
<1> QED
  BY <1>3, <1>6, <1>14 DEF c

\* Those woken in a loop, who are about to test again what they wait for.
WokenIn(q) == {t \in Thread : inside[t] = q /\ k.stat[t] \in Runnable /\ k.error[t] = "EOK"}

\* Nobody inside a loop is suspended or dead.
CallersLive ==
  \A t \in Thread : inside[t] \in Object => k.stat[t] \in {"BLOCK", "READY", "RUNNING"}

\* How the threads woken for q change with a step.
Gains(q, h)  == h \notin WokenIn(q) /\ WokenIn(q)' = WokenIn(q) \cup {h}
AtMostLoses(q, c) == WokenIn(q)' \in {WokenIn(q), WokenIn(q) \ {c}}

\* The counts that follow.
LEMMA WokenLemma ==
  ASSUME NEW q, IsFiniteSet(WokenIn(q)), NEW t
  PROVE  /\ Cardinality(WokenIn(q)) \in Nat
         /\ Gains(q, t) => /\ IsFiniteSet(WokenIn(q)')
                           /\ Cardinality(WokenIn(q)') = Cardinality(WokenIn(q)) + 1
         /\ AtMostLoses(q, t) => /\ IsFiniteSet(WokenIn(q)')
                                 /\ Cardinality(WokenIn(q)') \in Nat
                                 /\ Cardinality(WokenIn(q)') >= Cardinality(WokenIn(q)) - 1
<1> DEFINE W == WokenIn(q)
<1>1. IsFiniteSet(W) /\ Cardinality(W) \in Nat
  BY FS_CardinalityType
<1>2. Gains(q, t) => t \notin W /\ WokenIn(q)' = W \cup {t}
  BY DEF Gains
<1>3. AtMostLoses(q, t) => WokenIn(q)' = W \/ WokenIn(q)' = W \ {t}
  BY DEF AtMostLoses
<1> HIDE DEF W
<1>4. t \notin W => IsFiniteSet(W \cup {t}) /\ Cardinality(W \cup {t}) = Cardinality(W) + 1
  BY <1>1, FS_AddElement
<1>5. t \in W => IsFiniteSet(W \ {t}) /\ Cardinality(W \ {t}) = Cardinality(W) - 1
  BY <1>1, FS_RemoveElement
<1>6. t \notin W => W \ {t} = W
  OBVIOUS
<1>7. IsFiniteSet(W \ {t}) /\ Cardinality(W \ {t}) \in Nat
  BY <1>1, <1>5, <1>6, FS_CardinalityType
<1>8. Cardinality(W \ {t}) >= Cardinality(W) - 1
  <2> DEFINE n == Cardinality(W)
             m == Cardinality(W \ {t})
  <2>1. n \in Nat /\ (m = n \/ m = n - 1)
    BY <1>1, <1>5, <1>6
  <2> HIDE DEF n, m
  <2>2. m >= n - 1
    BY <2>1
  <2> QED
    BY <2>2 DEF n, m
<1>9. Cardinality(W) >= Cardinality(W) - 1
  BY <1>1
<1> QED
  BY <1>1, <1>2, <1>3, <1>4, <1>7, <1>8, <1>9 DEF W

\* Whom a step leaves where it is stays woken, or not.
LEMMA StaysWokenLemma ==
  ASSUME NEW q, NEW t, WaitsAlike(k, k', t), inside'[t] = inside[t]
  PROVE  t \in WokenIn(q) <=> t \in WokenIn(q)'
  BY DEF WaitsAlike, WokenIn, Runnable

\* A list somebody is on is not empty, and the other way round.
LEMMA ListedLemma ==
  ASSUME NEW s, Sure(s), NEW q \in Object
  PROVE  s.wait[q] # <<>> <=> \E t \in Thread : Contains(s.wait[q], t)
<1>1. s.wait[q] \in Seq(Thread)
  BY ObjectLemma DEF Sure, Consistent, KernelState
<1>2. s.wait[q] # <<>> => Head(s.wait[q]) \in Thread /\ Contains(s.wait[q], Head(s.wait[q]))
  BY <1>1, EmptyLemma
<1>3. s.wait[q] = <<>> => \A t : ~Contains(s.wait[q], t)
  BY DEF Contains
<1> QED
  BY <1>2, <1>3

\* Somebody is woken for q, if anybody waits there; of those woken for the other object
\* at most the thread that returns leaves.
LEMMA HandsCounts ==
  ASSUME ~Deferred, LoopPlaces, CallersLive, NEW q \in Object, HandsOn(q), ComesBack(q)
  PROVE  /\ CallersLive'
         /\ \A p \in Object : k'.wait[p] # <<>> => k.wait[p] # <<>>
         /\ k.wait[q] # <<>> => \E h : Gains(q, h)
         /\ k.wait[q] = <<>> => WokenIn(q)' = WokenIn(q)
         /\ \A p \in Object \ {q} : \E t : AtMostLoses(p, t)
<1> DEFINE c == k.cur
           h == Head(k.wait[q])
<1>1. /\ LoopPlaces' /\ WokeFirst(q) /\ (InThread(k) => c \in Thread /\ k.stat[c] = "RUNNING")
      /\ Sure(k) /\ Sure(k') /\ inside \in [Thread -> WaitQueue \cup {NoThread}]
  BY LoopHands DEF LoopPlaces
<1>2. /\ \A u \in Thread : inside'[u] = inside[u] \/ (InThread(k) /\ u = c /\ inside'[u] = NoThread)
      /\ InThread(k) => inside[c] # q
  BY <1>1 DEF ComesBack, InThread, InHandler
<1>3. NoThread \notin Object /\ \A p \in Object : p # NoThread
  BY ObjectLemma
<1>4. /\ k.wait[q] = <<>> => k' = k
      /\ k.wait[q] # <<>> => /\ h \in Thread /\ k.stat[h] = "BLOCK" /\ inside[h] = q
                             /\ k'.stat[h] \in Runnable /\ k'.error[h] = "EOK"
                             /\ \A u \in Thread \ {h} : WaitsAlike(k, k', u)
  BY <1>1 DEF WokeFirst
<1> HIDE DEF c, h
<1>5. k.wait[q] # <<>> => inside'[h] = q
  BY <1>1, <1>2, <1>4
<1>6. \A u \in Thread : WaitsAlike(k, k', u) \/ (k.wait[q] # <<>> /\ u = h)
  BY <1>4 DEF WaitsAlike
<1>7. \A t \in Thread : inside'[t] \in Object => k'.stat[t] \in {"BLOCK", "READY", "RUNNING"}
  <2> SUFFICES ASSUME NEW t \in Thread, inside'[t] \in Object
               PROVE  k'.stat[t] \in {"BLOCK", "READY", "RUNNING"}
    OBVIOUS
  <2>1. k.stat[t] \in {"BLOCK", "READY", "RUNNING"}
    BY <1>2, <1>3 DEF CallersLive
  <2> QED
    BY <1>4, <1>6, <2>1 DEF WaitsAlike, Runnable
<1>8. ASSUME NEW p \in Object, k'.wait[p] # <<>> PROVE k.wait[p] # <<>>
  <2>1. PICK t \in Thread : Contains(k'.wait[p], t)
    BY <1>1, <1>8, ListedLemma
  <2>2. CASE WaitsAlike(k, k', t)
    <3>1. Contains(k.wait[p], t)
      BY <2>1, <2>2, ObjectLemma DEF WaitsAlike
    <3> QED
      BY <1>1, <3>1, ListedLemma
  <2>3. CASE k.wait[q] # <<>> /\ t = h
    <3>1. k'.stat[t] \in Runnable /\ p \in WaitQueue
      BY <1>4, <2>3, ObjectLemma
    <3>2. k'.stat[t] = "BLOCK"
      BY <1>1, <2>1, <3>1 DEF Sure, Consistent, Agree, WaitsAgree, Linked
    <3> QED
      BY <3>1, <3>2 DEF Runnable
  <2> QED
    BY <1>6, <2>2, <2>3
<1>9. ASSUME NEW u \in Thread, WaitsAlike(k, k', u)
      PROVE  u \in WokenIn(q)' <=> u \in WokenIn(q)
  <2>1. CASE inside'[u] = inside[u]
    BY <1>9, <2>1, StaysWokenLemma
  <2>2. CASE inside'[u] # inside[u]
    BY <1>2, <1>3, <2>2 DEF WokenIn
  <2> QED
    BY <2>1, <2>2
<1>10. k.wait[q] # <<>> => Gains(q, h)
  <2> SUFFICES ASSUME k.wait[q] # <<>> PROVE Gains(q, h)
    OBVIOUS
  <2>1. h \notin WokenIn(q) /\ h \in WokenIn(q)'
    BY <1>4, <1>5 DEF WokenIn, Runnable
  <2>2. \A u \in Thread \ {h} : u \in WokenIn(q)' <=> u \in WokenIn(q)
    BY <1>6, <1>9
  <2>3. WokenIn(q) \subseteq Thread /\ WokenIn(q)' \subseteq Thread
    BY DEF WokenIn
  <2>4. WokenIn(q)' = WokenIn(q) \cup {h}
    BY <1>4, <2>1, <2>2, <2>3
  <2> QED
    BY <2>1, <2>4 DEF Gains
<1>11. k.wait[q] = <<>> => WokenIn(q)' = WokenIn(q)
  <2>1. k.wait[q] = <<>> => \A u \in Thread : u \in WokenIn(q)' <=> u \in WokenIn(q)
    BY <1>6, <1>9
  <2>2. WokenIn(q) \subseteq Thread /\ WokenIn(q)' \subseteq Thread
    BY DEF WokenIn
  <2> QED
    BY <2>1, <2>2
<1>12. ASSUME NEW p \in Object \ {q} PROVE AtMostLoses(p, c)
  <2>1. ASSUME NEW u \in Thread, inside'[u] = inside[u]
        PROVE  u \in WokenIn(p)' <=> u \in WokenIn(p)
    <3>1. CASE WaitsAlike(k, k', u)
      BY <2>1, <3>1, StaysWokenLemma
    <3>2. CASE k.wait[q] # <<>> /\ u = h
      BY <1>4, <2>1, <3>2 DEF WokenIn
    <3> QED
      BY <1>6, <3>1, <3>2
  <2>2. WokenIn(p) \subseteq Thread /\ WokenIn(p)' \subseteq Thread
    BY DEF WokenIn
  <2>3. CASE \A u \in Thread : inside'[u] = inside[u]
    <3>1. WokenIn(p)' = WokenIn(p)
      BY <2>1, <2>2, <2>3
    <3> QED
      BY <3>1 DEF AtMostLoses
  <2>4. CASE ~\A u \in Thread : inside'[u] = inside[u]
    <3>1. c \in Thread /\ inside'[c] = NoThread /\ \A u \in Thread \ {c} : inside'[u] = inside[u]
      BY <1>2, <2>4
    <3>2. c \notin WokenIn(p)'
      BY <1>3, <3>1 DEF WokenIn
    <3>3. WokenIn(p)' = WokenIn(p) \ {c}
      BY <2>1, <2>2, <3>1, <3>2
    <3> QED
      BY <3>3 DEF AtMostLoses
  <2> QED
    BY <2>3, <2>4
<1> QED
  BY <1>7, <1>8, <1>10, <1>11, <1>12 DEF CallersLive

\* Where nobody is suspended or aborted inside a call, a step of the scheduler wakes
\* nobody for an object and takes back no wakeup.
LEMMA NextCounts ==
  ASSUME ~Deferred, {"suspend", "abort"} \cap (Calls \cup IsrCalls) = {},
         LoopPlaces, CallersLive, ~InLoop, Next
  PROVE  /\ CallersLive'
         /\ \A q \in Object : /\ WokenIn(q)' = WokenIn(q)
                              /\ k'.wait[q] # <<>> => k.wait[q] # <<>>
<1>1. Moved /\ Sure(k') /\ Sure(k)
  BY LoopNext DEF LoopPlaces
<1>2. ASSUME NEW t \in Thread
      PROVE  Alike(t) \/ Elsewhere(t) \/ TimesOut(t) \/ Resumes(t)
  BY <1>1 DEF Moved, Moves, Suspends, Aborts
<1>3. ASSUME NEW t \in Thread, inside[t] \in Object PROVE Alike(t) \/ TimesOut(t)
  <2>1. k.stat[t] # "SUSPEND"
    BY <1>3 DEF CallersLive
  <2> QED
    BY <1>2, <1>3, <2>1 DEF Elsewhere, Resumes
<1>4. ASSUME NEW t \in Thread, inside'[t] \in Object PROVE inside[t] \in Object
  BY <1>2, <1>4, ObjectLemma DEF Alike, Elsewhere, TimesOut, Resumes
<1>5. CallersLive'
  <2> SUFFICES ASSUME NEW t \in Thread, inside'[t] \in Object
               PROVE  k'.stat[t] \in {"BLOCK", "READY", "RUNNING"}
    BY DEF CallersLive
  <2>1. inside[t] \in Object /\ k.stat[t] \in {"BLOCK", "READY", "RUNNING"}
    BY <1>4 DEF CallersLive
  <2> QED
    BY <1>3, <2>1 DEF Alike, WaitsAlike, TimesOut
<1>6. ASSUME NEW q \in Object PROVE WokenIn(q)' = WokenIn(q)
  <2>1. ASSUME NEW t \in Thread PROVE t \in WokenIn(q)' <=> t \in WokenIn(q)
    <3>1. CASE inside[t] \in Object /\ Alike(t)
      BY <3>1, StaysWokenLemma DEF Alike
    <3>2. CASE inside[t] \in Object /\ TimesOut(t)
      BY <3>2 DEF TimesOut, WokenIn, Runnable
    <3>3. CASE inside[t] \notin Object
      BY <1>4, <3>3 DEF WokenIn
    <3> QED
      BY <1>3, <3>1, <3>2, <3>3
  <2>2. WokenIn(q) \subseteq Thread /\ WokenIn(q)' \subseteq Thread
    BY DEF WokenIn
  <2> QED
    BY <2>1, <2>2
<1>7. \A q \in Object : k'.wait[q] # <<>> => k.wait[q] # <<>>
  BY <1>1, StaysEmptyLemma
<1> QED
  BY <1>5, <1>6, <1>7

\* Who waits again is woken no longer; nobody else's place changes.
LEMMA WaitsCounts ==
  ASSUME ~Deferred, LoopPlaces, CallersLive, NEW q \in Object,
         NEW timeout \in 0..MaxDelay \cup {Forever}, WaitsIn(q, timeout)
  PROVE  /\ CallersLive' /\ AtMostLoses(q, k.cur)
         /\ \A p \in Object \ {q} : /\ WokenIn(p)' = WokenIn(p)
                                    /\ k'.wait[p] # <<>> => k.wait[p] # <<>>
<1> DEFINE c == k.cur
<1>1. /\ c \in Thread /\ k'.stat[c] = "BLOCK"
      /\ \A p \in WaitQueue : Contains(k'.wait[p], c) <=> p = q
      /\ \A u \in Thread \ {c} : WaitsAlike(k, k', u) /\ inside'[u] = inside[u]
      /\ Sure(k') /\ Sure(k)
  BY LoopWaits DEF LoopPlaces
<1>2. inside[c] \in {NoThread, q}
  BY DEF WaitsIn
<1> HIDE DEF c
<1>3. CallersLive'
  BY <1>1 DEF CallersLive, WaitsAlike
<1>4. ASSUME NEW p \in Object \ {q}
      PROVE  WokenIn(p)' = WokenIn(p) /\ (k'.wait[p] # <<>> => k.wait[p] # <<>>)
  <2>1. \A u \in Thread \ {c} : u \in WokenIn(p)' <=> u \in WokenIn(p)
    BY <1>1, StaysWokenLemma
  <2>2. c \notin WokenIn(p) /\ c \notin WokenIn(p)'
    BY <1>1, <1>2, ObjectLemma DEF WokenIn, Runnable
  <2>3. WokenIn(p) \subseteq Thread /\ WokenIn(p)' \subseteq Thread
    BY DEF WokenIn
  <2>4. ASSUME k'.wait[p] # <<>> PROVE k.wait[p] # <<>>
    <3>1. PICK t \in Thread : Contains(k'.wait[p], t)
      BY <1>1, <2>4, ListedLemma
    <3>2. t # c /\ p \in WaitQueue
      BY <1>1, <3>1, ObjectLemma
    <3>3. Contains(k.wait[p], t)
      BY <1>1, <3>1, <3>2 DEF WaitsAlike
    <3> QED
      BY <1>1, <3>3, ListedLemma
  <2> QED
    BY <2>1, <2>2, <2>3, <2>4
<1>5. AtMostLoses(q, c)
  <2>1. \A u \in Thread \ {c} : u \in WokenIn(q)' <=> u \in WokenIn(q)
    BY <1>1, StaysWokenLemma
  <2>2. c \notin WokenIn(q)'
    BY <1>1 DEF WokenIn, Runnable
  <2>3. WokenIn(q) \subseteq Thread /\ WokenIn(q)' \subseteq Thread
    BY DEF WokenIn
  <2>4. WokenIn(q)' = WokenIn(q) \ {c}
    BY <2>1, <2>2, <2>3
  <2> QED
    BY <2>4 DEF AtMostLoses
<1> QED
  BY <1>3, <1>4, <1>5 DEF c

\* Who returns is woken no longer, and was not if its time is over.
LEMMA LeavesCounts ==
  ASSUME LoopPlaces, CallersLive, LeavesLoop
  PROVE  /\ CallersLive'
         /\ \A q \in Object : /\ AtMostLoses(q, k.cur)
                              /\ (k.error[k.cur] = "ETIMEOUT" \/ inside[k.cur] # q)
                                  => WokenIn(q)' = WokenIn(q)
<1> DEFINE c == k.cur
<1>1. /\ c \in Thread /\ k' = k
      /\ inside' = [inside EXCEPT ![c] = NoThread]
      /\ inside \in [Thread -> WaitQueue \cup {NoThread}]
  BY LoopLeaves DEF LeavesLoop, LoopPlaces
<1> HIDE DEF c
<1>2. \A q \in Object : WokenIn(q)' = WokenIn(q) \ {c}
  <2> SUFFICES ASSUME NEW q \in Object PROVE WokenIn(q)' = WokenIn(q) \ {c}
    OBVIOUS
  <2>1. ASSUME NEW t \in Thread PROVE t \in WokenIn(q)' <=> t \in WokenIn(q) /\ t # c
    BY <1>1, ObjectLemma DEF WokenIn
  <2>2. WokenIn(q) \subseteq Thread /\ WokenIn(q)' \subseteq Thread
    BY DEF WokenIn
  <2> QED
    BY <2>1, <2>2
<1>3. \A q \in Object : (k.error[c] = "ETIMEOUT" \/ inside[c] # q) => c \notin WokenIn(q)
  BY DEF WokenIn
<1>4. CallersLive'
  BY <1>1, ObjectLemma DEF CallersLive
<1>5. \A q \in Object : AtMostLoses(q, c)
  BY <1>2 DEF AtMostLoses
<1>6. \A q \in Object : (k.error[c] = "ETIMEOUT" \/ inside[c] # q) => WokenIn(q)' = WokenIn(q)
  BY <1>2, <1>3
<1> QED
  BY <1>4, <1>5, <1>6 DEF c

-----------------------------------------------------------------------------
(* A switch that is left to PendSV *)

\* The fields that the kernel's functions read or write on the way to a switch.
TurnFields ==
  {"stat", "yield", "left", "ran", "error", "wait", "timers", "fault", "ready", "bits", "prio",
   "cur", "next", "pendsv", "try", "nest", "expiring", "halting"}
HasTurn(s) == TurnFields \subseteq DOMAIN s

\* r is a record like s in which the same switch is pending or asked for.
SameTurn(s, r) ==
  /\ DOMAIN r = DOMAIN s
  /\ r.cur = s.cur /\ r.next = s.next /\ r.pendsv = s.pendsv /\ r.try = s.try
  /\ r.nest = s.nest /\ r.expiring = s.expiring /\ r.halting = s.halting

SameLists(s, r) == r.ready = s.ready /\ r.bits = s.bits /\ r.prio = s.prio

\* The lists that are marked are those that have a first thread, of the list's priority.
HeadsFit(s) ==
  /\ s.bits \in SUBSET Prio /\ s.ready \in [Prio -> Seq(Thread)] /\ s.prio \in [Thread -> Prio]
  /\ s.cur \in Thread \cup {NoThread}
  /\ \A p \in Prio : p \in s.bits <=> s.ready[p] # <<>>
  /\ \A p \in s.bits : s.prio[Head(s.ready[p])] = p

\* The thread a pending switch was prepared for is the first one, unless a handler has
\* asked for another choice.
Prepared(s) == s.pendsv /\ ~s.try => s.next = nd_get_highest_priority_thread(s)

\* ... and no switch is pending in the loop of an abort, and the loop of timer_expired runs
\* inside a handler, where nd_scheduler only asks.
SwitchKept(s) ==
  /\ Prepared(s)
  /\ s.halting # NoThread => ~s.pendsv
  /\ s.expiring => s.nest > 0

\* What the internal functions of the kernel leave alone.
LEMMA TurnKept ==
  ASSUME NEW s, HasTurn(s), NEW t, NEW q, NEW b, NEW cb, NEW timeout
  PROVE  /\ SameTurn(s, nd_thread_ready_add_tail(s, t))
         /\ SameTurn(s, nd_thread_ready_add_head(s, t))
         /\ SameTurn(s, nd_thread_ready_remove(s, t))
         /\ SameTurn(s, nd_timer_stop(s, t, b)) /\ SameLists(s, nd_timer_stop(s, t, b))
         /\ SameTurn(s, nd_timer_start(s, t, cb, timeout))
         /\ SameLists(s, nd_timer_start(s, t, cb, timeout))
         /\ SameTurn(s, WaitInsert(s, q, t)) /\ SameLists(s, WaitInsert(s, q, t))
         /\ SameTurn(s, WaitRemove(s, t)) /\ SameLists(s, WaitRemove(s, t))
         /\ SameTurn(s, WaitUnlink(s, t)) /\ SameLists(s, WaitUnlink(s, t))
<1>1. /\ SameTurn(s, nd_thread_ready_add_tail(s, t))
      /\ SameTurn(s, nd_thread_ready_add_head(s, t))
  BY DEF SameTurn, HasTurn, TurnFields, nd_thread_ready_add_tail, nd_thread_ready_add_head
<1>2. SameTurn(s, nd_thread_ready_remove(s, t))
  BY DEF SameTurn, HasTurn, TurnFields, nd_thread_ready_remove
<1>3. \A c : SameTurn(s, nd_timer_stop(s, t, c)) /\ SameLists(s, nd_timer_stop(s, t, c))
  BY DEF SameTurn, SameLists, HasTurn, TurnFields, nd_timer_stop
<1>4. /\ SameTurn(s, nd_timer_start(s, t, cb, timeout))
      /\ SameLists(s, nd_timer_start(s, t, cb, timeout))
  <2> DEFINE s1 == nd_timer_stop(s, t, cb = "slice")
             e == [who |-> t, cb |-> cb, left |-> timeout]
  <2>1. SameTurn(s, s1) /\ SameLists(s, s1)
    BY <1>3
  <2>2. nd_timer_start(s, t, cb, timeout) = [s1 EXCEPT !.timers = TimerInsert(@, e)]
    BY DEF nd_timer_start
  <2> HIDE DEF s1, e
  <2> QED
    BY <2>1, <2>2 DEF SameTurn, SameLists, HasTurn, TurnFields
<1>5. SameTurn(s, WaitInsert(s, q, t)) /\ SameLists(s, WaitInsert(s, q, t))
  BY DEF SameTurn, SameLists, HasTurn, TurnFields, WaitInsert
<1>6. /\ SameTurn(s, WaitRemove(s, t)) /\ SameLists(s, WaitRemove(s, t))
      /\ SameTurn(s, WaitUnlink(s, t)) /\ SameLists(s, WaitUnlink(s, t))
  BY DEF SameTurn, SameLists, HasTurn, TurnFields, WaitRemove, WaitUnlink
<1> QED
  BY <1>1, <1>2, <1>3, <1>4, <1>5, <1>6

\* One function after another.
LEMMA TurnThen ==
  ASSUME NEW s, HasTurn(s), NEW x, SameTurn(s, x)
  PROVE  /\ HasTurn(x)
         /\ \A r : SameTurn(x, r) => SameTurn(s, r)
         /\ \A r : SameLists(s, x) /\ SameLists(x, r) => SameLists(s, r)
  BY DEF SameTurn, SameLists, HasTurn

\* The choice, and what it needs, are those of the ready lists.
LEMMA FitsAlike ==
  ASSUME NEW s, NEW r, SameLists(s, r)
  PROVE  /\ nd_get_highest_priority_thread(r) = nd_get_highest_priority_thread(s)
         /\ HeadsFit(s) /\ r.cur = s.cur => HeadsFit(r)
  BY DEF SameLists, HeadsFit, nd_get_highest_priority_thread

\* The choice is the head of the list of the least priority that is marked.
LEMMA ChoiceLemma ==
  ASSUME NEW s, HeadsFit(s), NEW n, n = nd_get_highest_priority_thread(s), n # NoThread
  PROVE  /\ s.prio[n] \in s.bits /\ n = Head(s.ready[s.prio[n]])
         /\ n \in Thread /\ \A p \in s.bits : s.prio[n] <= p
<1> DEFINE p == Min(s.bits)
<1>1. s.bits # {} /\ s.bits \subseteq Nat /\ n = Head(s.ready[p])
  BY PrioAssumption DEF nd_get_highest_priority_thread, HeadsFit, Prio
<1>2. p \in s.bits /\ \A q \in s.bits : p <= q
  BY <1>1, MinIsLeast
<1> HIDE DEF p
<1>3. p \in Prio /\ s.ready[p] \in Seq(Thread) /\ s.ready[p] # <<>> /\ s.prio[n] = p
  BY <1>1, <1>2 DEF HeadsFit
<1>4. n \in Thread
  BY <1>1, <1>3
<1> QED
  BY <1>1, <1>2, <1>3, <1>4

\* Whatever has a head of the least priority is what is chosen.
LEMMA ChosenLemma ==
  ASSUME NEW s, s.bits \subseteq Nat, NEW p \in s.bits, \A q \in s.bits : p <= q
  PROVE  nd_get_highest_priority_thread(s) = Head(s.ready[p])
<1>1. Min(s.bits) \in s.bits /\ \A q \in s.bits : Min(s.bits) <= q
  BY MinIsLeast
<1>2. Min(s.bits) = p
  <2> DEFINE m == Min(s.bits)
  <2>1. m \in Nat /\ p \in Nat /\ m <= p /\ p <= m
    BY <1>1
  <2> HIDE DEF m
  <2>2. m = p
    BY <2>1
  <2> QED
    BY <2>2 DEF m
<1> QED
  BY <1>2 DEF nd_get_highest_priority_thread

\* A thread linked at the tail becomes the first only where nobody was.
LEMMA AddedFits ==
  ASSUME NEW s, HasTurn(s), HeadsFit(s), NEW t \in Thread
  PROVE  HeadsFit(nd_thread_ready_add_tail(s, t))
<1> DEFINE p == s.prio[t]
           l == s.ready[p]
           r == nd_thread_ready_add_tail(s, t)
<1>1. p \in Prio /\ l \in Seq(Thread)
  BY DEF HeadsFit
<1>2. Append(l, t) \in Seq(Thread) /\ Append(l, t) # <<>> /\ Head(Append(l, t)) \in {Head(l), t}
      /\ (l # <<>> => Head(Append(l, t)) = Head(l)) /\ (l = <<>> => Head(Append(l, t)) = t)
  <2> HIDE DEF l
  <2> QED
    BY <1>1
<1>3. /\ r.ready = [s.ready EXCEPT ![p] = Append(l, t)] /\ r.bits = s.bits \cup {p}
      /\ r.prio = s.prio /\ r.cur = s.cur
  BY DEF nd_thread_ready_add_tail, HasTurn, TurnFields
<1> HIDE DEF r
<1>4. /\ r.bits \in SUBSET Prio /\ r.ready \in [Prio -> Seq(Thread)]
      /\ r.prio \in [Thread -> Prio] /\ r.cur \in Thread \cup {NoThread}
  BY <1>1, <1>2, <1>3 DEF HeadsFit
<1>5. ASSUME NEW q \in Prio PROVE q \in r.bits <=> r.ready[q] # <<>>
  <2>1. CASE q = p
    BY <1>1, <1>2, <1>3, <2>1 DEF HeadsFit
  <2>2. CASE q # p
    BY <1>3, <2>2 DEF HeadsFit
  <2> QED
    BY <2>1, <2>2
<1>6. ASSUME NEW q \in r.bits PROVE r.prio[Head(r.ready[q])] = q
  <2>1. CASE q = p
    <3>1. r.ready[q] = Append(l, t)
      BY <1>1, <1>3, <2>1 DEF HeadsFit
    <3>2. l # <<>> => s.prio[Head(l)] = p
      BY <1>1 DEF HeadsFit
    <3> HIDE DEF l
    <3>3. Head(Append(l, t)) = t \/ s.prio[Head(Append(l, t))] = p
      BY <1>2, <3>2
    <3> QED
      BY <1>3, <2>1, <3>1, <3>3
  <2>2. CASE q # p
    BY <1>3, <2>2 DEF HeadsFit
  <2> QED
    BY <2>1, <2>2
<1>7. HeadsFit(r)
  BY <1>4, <1>5, <1>6 DEF HeadsFit
<1> QED
  BY <1>7 DEF r

\* The thread that gives way is linked behind the one that was chosen.
LEMMA RequeueFirst ==
  ASSUME NEW s, HasTurn(s), HeadsFit(s), NEW n, n = nd_get_highest_priority_thread(s),
         nd_should_switch(s, n)
  PROVE  /\ SameTurn(s, Requeue(s, n))
         /\ nd_get_highest_priority_thread(Requeue(s, n)) = n
<1> DEFINE c == s.cur
           p == s.prio[n]
           s1 == [s EXCEPT !.yield[c] = @ /\ ~Rotates(s, n)]
           s2 == [s1 EXCEPT !.stat[c] = "READY"]
           s3 == IF Rotates(s, n) /\ Slice[c] # 0
                 THEN [s2 EXCEPT !.left[c] = Slice[c], !.ran[c] = -1] ELSE s2
           q == Requeue(s, n)
<1>1. /\ n # NoThread /\ c # NoThread
      /\ Preempts(s, n) \/ Rotates(s, n) \/ s.stat[c] # "RUNNING"
  BY DEF nd_should_switch
<1>2. /\ p \in s.bits /\ n = Head(s.ready[p]) /\ n \in Thread /\ \A m \in s.bits : p <= m
  BY <1>1, ChoiceLemma
<1>3. /\ s.bits \subseteq Prio /\ Prio \subseteq Nat /\ c \in Thread /\ s.prio[c] \in Prio
      /\ s.ready \in [Prio -> Seq(Thread)]
  BY <1>1, PrioAssumption DEF HeadsFit, Prio
<1>4. /\ SameTurn(s, s1) /\ SameLists(s, s1) /\ SameTurn(s, s3) /\ SameLists(s, s3)
  <2>1. SameTurn(s, s1) /\ SameLists(s, s1)
    BY DEF SameTurn, SameLists, HasTurn, TurnFields
  <2> HIDE DEF s1, c
  <2>2. SameTurn(s, s2) /\ SameLists(s, s2)
    BY <2>1 DEF SameTurn, SameLists, HasTurn, TurnFields
  <2> HIDE DEF s2
  <2>3. SameTurn(s, s3) /\ SameLists(s, s3)
    BY <2>2 DEF SameTurn, SameLists, HasTurn, TurnFields
  <2> QED
    BY <2>1, <2>3
<1>5. \/ q = s1
      \/ Preempts(s, n) /\ q = nd_thread_ready_add_head(s3, c)
      \/ Rotates(s, n) /\ q = nd_thread_ready_add_tail(s3, c)
  BY <1>1 DEF Requeue
<1> HIDE DEF s1, s3, q
<1>6. CASE q = s1
  BY <1>4, <1>6, FitsAlike DEF q
<1>7. HasTurn(s3)
  BY <1>4, TurnThen
<1>8. CASE Preempts(s, n) /\ q = nd_thread_ready_add_head(s3, c)
  <2>1. p < s.prio[c]
    BY <1>8 DEF Preempts
  <2>2. /\ q.ready = [s.ready EXCEPT ![s.prio[c]] = Cons(c, @)]
        /\ q.bits = s.bits \cup {s.prio[c]}
    BY <1>4, <1>7, <1>8
       DEF nd_thread_ready_add_head, SameLists, HasTurn, TurnFields
  <2>3. /\ q.bits \subseteq Nat /\ p \in q.bits /\ \A m \in q.bits : p <= m
        /\ q.ready[p] = s.ready[p]
    BY <1>2, <1>3, <2>1, <2>2
  <2>4. nd_get_highest_priority_thread(q) = Head(q.ready[p])
    BY <2>3, ChosenLemma
  <2>5. SameTurn(s, q)
    BY <1>4, <1>7, <1>8, TurnKept, TurnThen
  <2> QED
    BY <1>2, <2>3, <2>4, <2>5 DEF q
<1>9. CASE Rotates(s, n) /\ q = nd_thread_ready_add_tail(s3, c)
  <2>1. p = s.prio[c]
    BY <1>9 DEF Rotates
  <2>2. /\ q.ready = [s.ready EXCEPT ![p] = Append(@, c)] /\ q.bits = s.bits \cup {p}
    BY <1>4, <1>7, <1>9, <2>1
       DEF nd_thread_ready_add_tail, SameLists, HasTurn, TurnFields
  <2>3. /\ q.bits \subseteq Nat /\ p \in q.bits /\ \A m \in q.bits : p <= m
        /\ q.ready[p] = Append(s.ready[p], c)
    <3> HIDE DEF p, c
    <3>1. q.bits = s.bits /\ p \in Prio
      BY <1>2, <1>3, <2>2
    <3> QED
      BY <1>2, <1>3, <2>2, <3>1
  <2>4. nd_get_highest_priority_thread(q) = Head(q.ready[p])
    BY <2>3, ChosenLemma
  <2>5. Head(Append(s.ready[p], c)) = n
    <3>1. s.ready[p] \in Seq(Thread) /\ s.ready[p] # <<>>
      BY <1>2, <1>3 DEF HeadsFit
    <3> QED
      BY <1>2, <1>3, <3>1
  <2>6. SameTurn(s, q)
    BY <1>4, <1>7, <1>9, TurnKept, TurnThen
  <2> QED
    BY <2>3, <2>4, <2>5, <2>6 DEF q
<1> QED
  BY <1>5, <1>6, <1>8, <1>9

\* The switch that nd_schedule_core leaves to PendSV is to the first thread, before and after
\* the one that gives way is linked; and one that was pending is prepared anew.
LEMMA CoreFirst ==
  ASSUME Deferred, NEW s, HasTurn(s), HeadsFit(s),
         s.pendsv => nd_should_switch(s, nd_get_highest_priority_thread(s)),
         NEW r, r = nd_schedule_core(s)
  PROVE  /\ r.pendsv => r.next = nd_get_highest_priority_thread(r)
         /\ r.nest = s.nest /\ r.expiring = s.expiring /\ r.halting = s.halting
<1> DEFINE n == nd_get_highest_priority_thread(s)
           q == Requeue(s, n)
<1>1. CASE ~nd_should_switch(s, n)
  BY <1>1 DEF nd_schedule_core
<1>2. CASE nd_should_switch(s, n)
  <2>1. r = [q EXCEPT !.next = n, !.pendsv = TRUE]
    BY <1>2 DEF nd_schedule_core, nd_hw_do_switch
  <2>2. SameTurn(s, q) /\ nd_get_highest_priority_thread(q) = n
    BY <1>2, RequeueFirst
  <2> HIDE DEF n, q
  <2>3. /\ r.next = n /\ SameLists(q, r)
        /\ r.nest = s.nest /\ r.expiring = s.expiring /\ r.halting = s.halting
    BY <2>1, <2>2 DEF SameTurn, SameLists, HasTurn, TurnFields
  <2> QED
    BY <2>2, <2>3, FitsAlike
<1> QED
  BY <1>1, <1>2

\* nd_scheduler inside a handler only asks; elsewhere no switch was pending.
LEMMA SchedulerFirst ==
  ASSUME Deferred, NEW s, HasTurn(s), s.nest > 0 \/ (HeadsFit(s) /\ ~s.pendsv),
         NEW r, r = nd_scheduler(s)
  PROVE  Prepared(r) /\ r.nest = s.nest /\ r.expiring = s.expiring /\ r.halting = s.halting
<1>1. CASE s.nest > 0
  BY <1>1 DEF nd_scheduler, Prepared, HasTurn, TurnFields
<1>2. CASE ~(s.nest > 0)
  BY <1>2, CoreFirst DEF nd_scheduler, Prepared
<1> QED
  BY <1>1, <1>2

\* nd_context_switch_cb neither pends nor prepares a switch.
LEMMA SwitchPlain ==
  ASSUME NEW s, HasTurn(s), NEW n, NEW r, r = nd_context_switch_cb(s, n)
  PROVE  /\ r.pendsv = s.pendsv /\ r.nest = s.nest
         /\ r.expiring = s.expiring /\ r.halting = s.halting
<1> DEFINE s0 == nd_thread_ready_remove(s, n)
           c == s.cur
           spent == [s0 EXCEPT !.left[c] = IF s0.ran[c] = -1 \/ @ = 0 THEN @
                                          ELSE IF s0.ran[c] >= @ THEN 0 ELSE @ - s0.ran[c]]
           stopped == nd_timer_stop(spent, c, TRUE)
           s1 == SettleSlice(s0, c)
           s2 == [s1 EXCEPT !.next = NoThread, !.cur = n, !.stat[n] = "RUNNING"]
           budget == IF s2.left[n] = 0 \/ s2.left[n] > Slice[n] THEN Slice[n] ELSE s2.left[n]
           a == [s2 EXCEPT !.left[n] = budget, !.ran[n] = IF s2.tick0 THEN -1 ELSE 0]
           b == nd_timer_stop(s2, n, TRUE)
           z == StartSlice(s2, n)
<1>1. r = IF n = NoThread THEN s ELSE z
  BY DEF nd_context_switch_cb
<1>2. \/ z = s2 \/ z = nd_timer_start(a, n, "slice", budget)
      \/ z = [b EXCEPT !.left[n] = Slice[n], !.ran[n] = -1]
  BY DEF StartSlice
<1>3. s1 = s0 \/ s1 = [stopped EXCEPT !.ran[c] = -1]
  BY DEF SettleSlice
<1>4. SameTurn(s, s0) /\ HasTurn(s0)
  BY TurnKept, TurnThen
<1> HIDE DEF s0, c, z
<1>5. SameTurn(s0, spent) /\ HasTurn(spent)
  BY <1>4 DEF SameTurn, HasTurn, TurnFields
<1> HIDE DEF spent
<1>6. SameTurn(s0, stopped) /\ HasTurn(stopped)
  BY <1>4, <1>5, TurnKept, TurnThen
<1> HIDE DEF stopped
<1>7. SameTurn(s0, s1) /\ HasTurn(s1)
  <2> HIDE DEF s1
  <2> QED
    BY <1>3, <1>4, <1>6 DEF SameTurn, HasTurn, TurnFields
<1> HIDE DEF s1
<1>8. /\ s2.pendsv = s.pendsv /\ s2.nest = s.nest
      /\ s2.expiring = s.expiring /\ s2.halting = s.halting /\ HasTurn(s2)
  BY <1>4, <1>7 DEF SameTurn, HasTurn, TurnFields
<1> HIDE DEF s2, budget
<1>9. SameTurn(s2, a) /\ HasTurn(a)
  BY <1>8 DEF SameTurn, HasTurn, TurnFields
<1> HIDE DEF a
<1>10. SameTurn(s2, nd_timer_start(a, n, "slice", budget)) /\ SameTurn(s2, b) /\ HasTurn(b)
  BY <1>8, <1>9, TurnKept, TurnThen
<1> HIDE DEF b
<1>11. SameTurn(s2, [b EXCEPT !.left[n] = Slice[n], !.ran[n] = -1])
  BY <1>10 DEF SameTurn, HasTurn, TurnFields
<1> QED
  BY <1>1, <1>2, <1>8, <1>10, <1>11 DEF SameTurn

\* What a kernel record that keeps its tables in step tells.
LEMMA SureFits ==
  ASSUME Sure(k)
  PROVE  /\ HasTurn(k) /\ HeadsFit(k) /\ SameTurn(k, k) /\ SameLists(k, k)
         /\ k.pendsv => nd_should_switch(k, nd_get_highest_priority_thread(k))
         /\ ~Deferred => ~k.pendsv
<1>0. k \in KernelState /\ ReadyAgree(k) /\ CurrentAgrees(k) /\ SwitchAgrees(k)
  BY DEF Sure, Consistent, Agree
<1>1. HasTurn(k) /\ SameTurn(k, k) /\ SameLists(k, k)
  BY <1>0 DEF KernelState, HasTurn, TurnFields, SameTurn, SameLists
<1>2. HeadsFit(k)
  <2>1. /\ k.bits \in SUBSET Prio /\ k.ready \in [Prio -> Seq(Thread)]
        /\ k.prio \in [Thread -> Prio] /\ k.cur \in Thread \cup {NoThread}
    BY <1>0 DEF KernelState
  <2>2. ASSUME NEW p \in k.bits PROVE k.prio[Head(k.ready[p])] = p
    <3>1. p \in Prio /\ k.ready[p] \in Seq(Thread) /\ k.ready[p] # <<>>
      BY <1>0, <2>1 DEF ReadyAgree
    <3>2. Head(k.ready[p]) \in Thread /\ Contains(k.ready[p], Head(k.ready[p]))
      BY <3>1, EmptyLemma
    <3> QED
      BY <1>0, <3>1, <3>2 DEF ReadyAgree
  <2> QED
    BY <1>0, <2>1, <2>2 DEF HeadsFit, ReadyAgree
<1>3. ASSUME k.pendsv PROVE nd_should_switch(k, nd_get_highest_priority_thread(k))
  <2> DEFINE n == nd_get_highest_priority_thread(k)
  <2>1. /\ k.cur # NoThread /\ k.stat[k.cur] # "RUNNING"
        /\ k.stat[Idle] \in {"READY", "RUNNING"} /\ (k.stat[Idle] = "RUNNING" => Idle = k.cur)
        /\ Idle \in Thread /\ NoThread \notin Thread
    BY <1>0, <1>3, ThreadAssumption DEF SwitchAgrees, CurrentAgrees, WaitQueue
  <2>2. n # NoThread
    BY <1>0, <2>1, HighestLemma
  <2> QED
    BY <2>1, <2>2 DEF nd_should_switch
<1> QED
  BY <1>0, <1>1, <1>2, <1>3 DEF SwitchAgrees

\* Who calls: a thread, while no switch is pending, or a handler.
LEMMA CallerFirst ==
  ASSUME Sure(k), InThread(k) \/ InBoot(k) \/ InHandler(k)
  PROVE  ~Masked(k) /\ (~k.pendsv \/ k.nest > 0)
<1>1. SwitchAgrees(k) /\ (InUse(k) => k.nest > 0)
  BY FieldsLemma DEF Sure, Consistent, Agree
<1> QED
  BY <1>1 DEF InThread, InBoot, InHandler, InUse, Booted, SwitchAgrees, Masked

\* A call outside the loops that changes the kernel to x and then runs the scheduler.
LEMMA CallFirst ==
  ASSUME Deferred, Sure(k), InThread(k) \/ InBoot(k) \/ InHandler(k),
         NEW x, SameTurn(k, x), HeadsFit(x), k' = nd_scheduler(x)
  PROVE  SwitchKept(k')
<1>1. ~k.expiring /\ k.halting = NoThread /\ (~k.pendsv \/ k.nest > 0)
  BY CallerFirst DEF Masked
<1>2. HasTurn(x)
  BY SureFits, TurnThen
<1>3. Prepared(k') /\ k'.expiring = x.expiring /\ k'.halting = x.halting
  BY <1>1, <1>2, SchedulerFirst DEF SameTurn
<1> QED
  BY <1>1, <1>3 DEF SwitchKept, SameTurn

\* ... or to x with the same ready lists.
LEMMA CallFirstAlike ==
  ASSUME Deferred, Sure(k), InThread(k) \/ InBoot(k) \/ InHandler(k),
         NEW x, SameTurn(k, x), SameLists(k, x), k' = nd_scheduler(x)
  PROVE  SwitchKept(k')
  BY SureFits, FitsAlike, CallFirst DEF SameTurn

\* One call of a thread or of a handler.
LEMMA ApiFirst ==
  ASSUME Deferred, IsrCalls \subseteq {"resume"}, Sure(k), NEW t \in Thread,
         \/ \E p \in Prio : nd_thread_create(t, p)
         \/ nd_thread_resume(t)
         \/ \E timeout : nd_thread_join(t, timeout)
         \/ nd_thread_yield
         \/ \E d : nd_thread_delay(d)
         \/ nd_thread_suspend(t)
  PROVE  SwitchKept(k')
<1>0. HasTurn(k) /\ HeadsFit(k) /\ SameTurn(k, k) /\ SameLists(k, k)
  BY SureFits
<1>1. ASSUME NEW p \in Prio, nd_thread_create(t, p) PROVE SwitchKept(k')
  <2> DEFINE s1 == [k EXCEPT !.prio[t] = p, !.left[t] = Slice[t], !.ran[t] = -1,
                             !.yield[t] = FALSE, !.wait[t] = <<>>, !.stat[t] = "READY"]
             x == Fresh(t, p)
  <2>1. /\ SameTurn(k, s1) /\ s1.ready = k.ready /\ s1.bits = k.bits
        /\ s1.prio = [k.prio EXCEPT ![t] = p]
    BY <1>0 DEF SameTurn, HasTurn, TurnFields
  <2>2. x = nd_thread_ready_add_tail(s1, t)
    BY DEF Fresh
  <2>3. /\ InThread(k) \/ InBoot(k)
        /\ k' = nd_scheduler(x) /\ k.stat[t] \in {"INIT", "DEAD"}
    BY <1>1 DEF nd_thread_create, ThreadCalls, InOwnCode
  <2> HIDE DEF s1, x
  <2>4. HeadsFit(s1)
    <3>1. ASSUME NEW q \in k.bits PROVE Head(k.ready[q]) \in Thread \ {t}
      <4>1. q \in Prio /\ k.ready[q] \in Seq(Thread) /\ k.ready[q] # <<>>
        BY <1>0 DEF HeadsFit
      <4>2. Head(k.ready[q]) \in Thread /\ Contains(k.ready[q], Head(k.ready[q]))
        BY <4>1, EmptyLemma
      <4>3. k.stat[Head(k.ready[q])] = "READY"
        BY <4>1, <4>2 DEF Sure, Consistent, Agree, ReadyAgree
      <4> QED
        BY <2>3, <4>2, <4>3
    <3>2. s1.prio \in [Thread -> Prio] /\ \A u \in Thread \ {t} : s1.prio[u] = k.prio[u]
      BY <1>0, <2>1 DEF HeadsFit
    <3> QED
      BY <1>0, <2>1, <3>1, <3>2 DEF HeadsFit, SameTurn
  <2>5. HasTurn(s1)
    BY <1>0, <2>1, TurnThen
  <2>6. SameTurn(k, x) /\ HeadsFit(x)
    BY <1>0, <2>1, <2>2, <2>4, <2>5, TurnKept, TurnThen, AddedFits
  <2> QED
    BY <2>3, <2>6, CallFirst
<1>2. CASE nd_thread_resume(t)
  <2> DEFINE s1 == [k EXCEPT !.stat[t] = "READY"]
             x == nd_thread_ready_add_tail(s1, t)
  <2>1. SameTurn(k, s1) /\ SameLists(k, s1)
    BY <1>0 DEF SameTurn, SameLists, HasTurn, TurnFields
  <2>2. (InThread(k) \/ InHandler(k)) /\ k' = nd_scheduler(x)
    BY <1>2 DEF nd_thread_resume, ThreadCalls, HandlerCalls, InOwnCode
  <2> HIDE DEF s1
  <2>3. HasTurn(s1) /\ HeadsFit(s1)
    BY <1>0, <2>1, TurnThen, FitsAlike DEF SameTurn
  <2>4. SameTurn(k, x) /\ HeadsFit(x)
    BY <1>0, <2>1, <2>3, TurnKept, TurnThen, AddedFits
  <2> HIDE DEF x
  <2> QED
    BY <2>2, <2>4, CallFirst
<1>3. ASSUME NEW timeout, nd_thread_join(t, timeout) PROVE SwitchKept(k')
  <2> DEFINE c == k.cur
             s0 == WaitInsert(k, t, c)
             s1 == [s0 EXCEPT !.error[c] = "EOK", !.stat[c] = "BLOCK"]
             x == nd_thread_pend(k, t, timeout)
  <2>1. InThread(k) /\ k' = nd_scheduler(x)
    BY <1>3 DEF nd_thread_join, ThreadCalls, InOwnCode
  <2>2. x = IF timeout = Forever THEN s1 ELSE nd_timer_start(s1, c, "pend", timeout)
    BY DEF nd_thread_pend
  <2> HIDE DEF x
  <2>3. SameTurn(k, s0) /\ SameLists(k, s0)
    BY <1>0, TurnKept
  <2> HIDE DEF s0, c
  <2>4. SameTurn(k, s1) /\ SameLists(k, s1) /\ HasTurn(s1)
    BY <1>0, <2>3 DEF SameTurn, SameLists, HasTurn, TurnFields
  <2> HIDE DEF s1
  <2>5. SameTurn(k, x) /\ SameLists(k, x)
    BY <1>0, <2>2, <2>4, TurnKept, TurnThen
  <2> QED
    BY <2>1, <2>5, CallFirstAlike
<1>4. CASE nd_thread_yield
  <2> DEFINE x == [k EXCEPT !.yield[k.cur] = TRUE]
  <2>1. SameTurn(k, x) /\ SameLists(k, x)
    BY <1>0 DEF SameTurn, SameLists, HasTurn, TurnFields
  <2>2. InThread(k) /\ k' = nd_scheduler(x)
    BY <1>4 DEF nd_thread_yield, ThreadCalls, InOwnCode
  <2> HIDE DEF x
  <2> QED
    BY <2>1, <2>2, CallFirstAlike
<1>5. ASSUME NEW d, nd_thread_delay(d) PROVE SwitchKept(k')
  <2> DEFINE c == k.cur
             s0 == nd_timer_stop(k, c, TRUE)
             s1 == IF Slice[c] = 0 THEN k ELSE [s0 EXCEPT !.left[c] = Slice[c], !.ran[c] = -1]
             s2 == [s1 EXCEPT !.stat[c] = "BLOCK"]
             x == nd_timer_start(s2, c, "delay", d)
  <2>1. InThread(k) /\ k' = nd_scheduler(x)
    BY <1>5 DEF nd_thread_delay, ThreadCalls, InOwnCode
  <2>2. SameTurn(k, s0) /\ SameLists(k, s0)
    BY <1>0, TurnKept
  <2> HIDE DEF s0, c
  <2>3. SameTurn(k, s1) /\ SameLists(k, s1)
    BY <1>0, <2>2 DEF SameTurn, SameLists, HasTurn, TurnFields
  <2> HIDE DEF s1
  <2>4. SameTurn(k, s2) /\ SameLists(k, s2) /\ HasTurn(s2)
    BY <1>0, <2>3 DEF SameTurn, SameLists, HasTurn, TurnFields
  <2> HIDE DEF s2
  <2>5. SameTurn(k, x) /\ SameLists(k, x)
    BY <1>0, <2>4, TurnKept, TurnThen
  <2> HIDE DEF x
  <2> QED
    BY <2>1, <2>5, CallFirstAlike
<1>6. CASE nd_thread_suspend(t)
  <2> DEFINE s == [k EXCEPT !.stat[t] = "SUSPEND"]
             s1 == WaitRemove(s, t)
             x == nd_timer_stop(s1, t, FALSE)
             y == nd_thread_ready_remove(s, t)
  <2>1. /\ InThread(k) \/ InHandler(k)
        /\ k' = y \/ k' = nd_scheduler(s) \/ k' = nd_scheduler(x)
    BY <1>6 DEF nd_thread_suspend, ThreadCalls, HandlerCalls, InOwnCode
  <2>2. ~k.pendsv /\ ~Masked(k)
    BY <1>6, StopsLemma DEF nd_thread_suspend
  <2>3. SameTurn(k, s) /\ SameLists(k, s) /\ HasTurn(s)
    BY <1>0 DEF SameTurn, SameLists, HasTurn, TurnFields
  <2> HIDE DEF s
  <2>4. SameTurn(k, s1) /\ SameLists(k, s1) /\ HasTurn(s1) /\ SameTurn(k, y)
    <3>1. SameTurn(s, s1) /\ SameLists(s, s1) /\ SameTurn(s, y)
      BY ONLY <2>3, TurnKept DEF s1, y
    <3> HIDE DEF s1, y
    <3> QED
      BY <1>0, <2>3, <3>1, TurnThen
  <2> HIDE DEF s1, y
  <2>5. SameTurn(k, x) /\ SameLists(k, x)
    <3>1. SameTurn(s1, x) /\ SameLists(s1, x)
      BY ONLY <2>4, TurnKept DEF x
    <3> HIDE DEF x
    <3> QED
      BY <1>0, <2>4, <3>1, TurnThen
  <2> HIDE DEF x
  <2>6. CASE k' = y
    <3>1. SameTurn(k, k')
      BY <2>4, <2>6
    <3> QED
      BY <2>2, <3>1 DEF SameTurn, SwitchKept, Prepared, Masked
  <2> QED
    BY <2>1, <2>3, <2>5, <2>6, CallFirstAlike
<1> QED
  BY <1>1, <1>2, <1>3, <1>4, <1>5, <1>6

\* The start of the scheduler, and the two halves of an abort.
LEMMA LifeFirst ==
  ASSUME Deferred, IsrCalls \subseteq {"resume"}, Sure(k), SwitchKept(k),
         \/ nd_scheduler_start
         \/ \E t \in Thread : nd_thread_abort(t)
         \/ HaltLoop
  PROVE  SwitchKept(k')
<1>0. HasTurn(k) /\ HeadsFit(k)
  BY SureFits
<1>1. CASE nd_scheduler_start
  <2> DEFINE n == nd_get_highest_priority_thread(k)
  <2>1. ~Masked(k) /\ ~Booted(k) /\ k' = nd_context_switch_cb(k, n)
    BY <1>1 DEF nd_scheduler_start, InBoot
  <2>2. ~k.pendsv
    BY <2>1 DEF Sure, Consistent, Agree, SwitchAgrees, Booted
  <2>3. k'.pendsv = k.pendsv /\ k'.expiring = k.expiring /\ k'.halting = k.halting
    BY <1>0, <2>1, SwitchPlain
  <2> QED
    BY <2>1, <2>2, <2>3 DEF SwitchKept, Prepared, Masked
<1>2. ASSUME NEW t \in Thread, nd_thread_abort(t) PROVE SwitchKept(k')
  <2>1. ~Masked(k) /\ ~k.pendsv
    BY <1>2, StopsLemma DEF nd_thread_abort
  <2>2. k'.pendsv = k.pendsv /\ k'.expiring = k.expiring
    BY <1>2, AbortStep
  <2> QED
    BY <2>1, <2>2 DEF SwitchKept, Prepared, Masked
<1>3. CASE HaltLoop
  <2> DEFINE t == k.halting
             s == [k EXCEPT !.halting = NoThread]
  <2>1. t # NoThread /\ ~k.pendsv
    BY <1>3 DEF HaltLoop, SwitchKept
  <2>2. CASE k.wait[t] # <<>>
    <3>1. Readied(k, k', Head(k.wait[t]))
      BY <1>3, <2>2, HaltLoopStep
    <3>2. k'.pendsv = k.pendsv /\ k'.expiring = k.expiring /\ k'.nest = k.nest
      BY <3>1 DEF Readied, SameControl
    <3> QED
      BY <2>1, <3>2 DEF SwitchKept, Prepared
  <2>3. CASE k.wait[t] = <<>>
    <3>1. k' = nd_scheduler(s) \/ k' = s
      BY <1>3, <2>3 DEF HaltLoop
    <3>2. /\ HasTurn(s) /\ SameLists(k, s) /\ s.cur = k.cur /\ ~s.pendsv
          /\ s.halting = NoThread /\ s.expiring = k.expiring /\ s.nest = k.nest
      BY <1>0, <2>1 DEF HasTurn, TurnFields, SameLists
    <3> HIDE DEF s
    <3>3. HeadsFit(s)
      BY <1>0, <3>2, FitsAlike
    <3>4. CASE k' = s
      BY <3>2, <3>4 DEF SwitchKept, Prepared
    <3>5. CASE k' = nd_scheduler(s)
      BY <3>2, <3>3, <3>5, SchedulerFirst DEF SwitchKept
    <3> QED
      BY <3>1, <3>4, <3>5
  <2> QED
    BY <2>2, <2>3
<1> QED
  BY <1>1, <1>2, <1>3

\* A turn of timer_expired: its callbacks run inside the handler of the tick and only ask.
LEMMA ExpireFirst ==
  ASSUME Deferred, Sure(k), SwitchKept(k), TimerLoop
  PROVE  SwitchKept(k')
<1>1. HasTurn(k) /\ k.expiring /\ k.nest > 0 /\ k' = ExpireOne(k)
  BY SureFits DEF TimerLoop, SwitchKept
<1> DEFINE e == Head(k.timers)
           t == e.who
           y == [k EXCEPT !.expiring = FALSE]
           s == [k EXCEPT !.timers = Tail(@)]
           a == [s EXCEPT !.yield[t] = TRUE, !.left[t] = 0, !.ran[t] = -1]
           b0 == [s EXCEPT !.stat[t] = "READY", !.error[t] = "ETIMEOUT"]
           b1 == WaitUnlink(b0, t)
           b == nd_thread_ready_add_tail(b1, t)
           d0 == [s EXCEPT !.stat[t] = "READY",
                           !.left[t] = IF Slice[t] # 0 THEN Slice[t] ELSE @,
                           !.ran[t] = IF Slice[t] # 0 THEN -1 ELSE @]
           d == nd_thread_ready_add_tail(d0, t)
<1>2. ~(k.timers = <<>> \/ (k.timers # <<>> /\ e.left > 0)) => e.cb \in {"slice", "pend", "delay"}
  <2>1. k.timers \in Seq(Timer)
    BY DEF Sure, Consistent, KernelState
  <2>2. k.timers # <<>> => e \in Timer
    BY <2>1
  <2> QED
    BY <2>2 DEF Timer
<1>3. \/ k' = y \/ k' = s \/ k' = nd_scheduler(a)
      \/ k' = nd_scheduler(b) \/ k' = nd_scheduler(d)
  BY <1>1, <1>2
     DEF ExpireOne, nd_thread_slice_timeout, nd_thread_pend_timeout, thread_timer_callback
<1>4. /\ SameTurn(k, s) /\ SameLists(k, s) /\ HasTurn(s)
      /\ SameLists(k, y) /\ y.next = k.next /\ y.pendsv = k.pendsv /\ y.try = k.try
      /\ y.nest = k.nest /\ ~y.expiring /\ y.halting = k.halting
  BY <1>1 DEF SameTurn, SameLists, HasTurn, TurnFields
<1> HIDE DEF e, t, y, s
<1>5. SameTurn(s, a) /\ SameTurn(s, b0) /\ SameTurn(s, d0)
  BY <1>4 DEF SameTurn, HasTurn, TurnFields
<1> HIDE DEF a, b0, d0
<1>6. SameTurn(s, b1) /\ SameTurn(s, d)
  BY <1>4, <1>5, TurnThen, TurnKept
<1> HIDE DEF b1, d
<1>7. SameTurn(s, b)
  BY <1>4, <1>6, TurnThen, TurnKept
<1> HIDE DEF b
<1>8. ASSUME NEW x, SameTurn(s, x), k' = nd_scheduler(x) PROVE SwitchKept(k')
  <2>1. SameTurn(k, x) /\ HasTurn(x)
    BY <1>1, <1>4, <1>8, TurnThen
  <2>2. /\ Prepared(k') /\ k'.nest = x.nest /\ k'.expiring = x.expiring
        /\ k'.halting = x.halting /\ k'.pendsv = x.pendsv
    BY <1>1, <1>8, <2>1, SchedulerFirst DEF SameTurn, nd_scheduler, HasTurn, TurnFields
  <2> QED
    BY <2>1, <2>2 DEF SwitchKept, SameTurn
<1>9. CASE k' = y
  BY <1>4, <1>9, FitsAlike DEF SwitchKept, Prepared
<1>10. CASE k' = s
  BY <1>4, <1>10, FitsAlike DEF SwitchKept, Prepared, SameTurn
<1> QED
  BY <1>3, <1>5, <1>6, <1>7, <1>8, <1>9, <1>10

\* Handlers come and go, and PendSV is taken.
LEMMA HandlersFirst ==
  ASSUME Deferred, Sure(k), SwitchKept(k),
         EnterTick \/ EnterDevice \/ Exit \/ ExitTail \/ PendSV
  PROVE  SwitchKept(k')
<1>0. HasTurn(k) /\ HeadsFit(k) /\ SameLists(k, k) /\ k.nest \in Nat
      /\ (k.pendsv => nd_should_switch(k, nd_get_highest_priority_thread(k)))
  BY SureFits DEF Sure, Consistent, KernelState
<1>1. ~k.expiring /\ k.halting = NoThread
  BY DEF EnterTick, EnterDevice, Exit, ExitTail, PendSV, CanTick, CanEnter, InHandler,
         AtTail, CanPendSV, Masked
<1>2. CASE EnterTick \/ EnterDevice \/ Exit
  <2>1. /\ SameLists(k, k') /\ k'.next = k.next /\ k'.pendsv = k.pendsv /\ k'.try = k.try
        /\ k'.halting = k.halting
        /\ k'.expiring => k'.nest = k.nest + 1
    BY <1>0, <1>1, <1>2
       DEF EnterTick, EnterDevice, Exit, TickInterrupt, TickPasses, nd_enter_interrupt,
           nd_exit_interrupt, HasTurn, TurnFields, SameLists
  <2> QED
    BY <1>0, <1>1, <2>1, FitsAlike DEF SwitchKept, Prepared
<1>3. CASE ExitTail
  <2> DEFINE s1 == [k EXCEPT !.isr = Front(@)]
             s2 == [s1 EXCEPT !.try = FALSE]
  <2>1. k' = IF k.nest > 0 \/ ~k.try THEN s1 ELSE nd_schedule_core(s2)
    BY <1>0, <1>3 DEF ExitTail, HandlerTail, HasTurn, TurnFields
  <2>2. /\ SameTurn(k, s1) /\ SameLists(k, s1) /\ HasTurn(s2) /\ SameLists(k, s2)
        /\ s2.cur = k.cur /\ s2.pendsv = k.pendsv /\ s2.stat = k.stat /\ s2.yield = k.yield
        /\ s2.halting = k.halting /\ s2.expiring = k.expiring /\ s2.nest = k.nest
    BY <1>0 DEF SameTurn, SameLists, HasTurn, TurnFields
  <2> HIDE DEF s1, s2
  <2>3. CASE k' = s1
    BY <1>1, <2>2, <2>3, FitsAlike DEF SwitchKept, Prepared, SameTurn
  <2>4. CASE k' = nd_schedule_core(s2)
    <3>1. HeadsFit(s2) /\ nd_get_highest_priority_thread(s2) = nd_get_highest_priority_thread(k)
      BY <1>0, <2>2, FitsAlike
    <3>2. s2.pendsv => nd_should_switch(s2, nd_get_highest_priority_thread(s2))
      BY <1>0, <2>2, <3>1 DEF nd_should_switch, Preempts, Rotates, SameLists
    <3>3. /\ k'.pendsv => k'.next = nd_get_highest_priority_thread(k')
          /\ k'.expiring = s2.expiring /\ k'.halting = s2.halting
      BY <2>2, <2>4, <3>1, <3>2, CoreFirst
    <3> QED
      BY <1>1, <2>2, <3>3 DEF SwitchKept, Prepared
  <2> QED
    BY <2>1, <2>3, <2>4
<1>4. CASE PendSV
  <2> DEFINE s == [k EXCEPT !.pendsv = FALSE]
  <2>1. k' = nd_context_switch_cb(s, k.next)
    BY <1>4 DEF PendSV, isr_pendsv
  <2>2. HasTurn(s) /\ ~s.pendsv /\ s.expiring = k.expiring /\ s.halting = k.halting
    BY <1>0 DEF HasTurn, TurnFields
  <2> HIDE DEF s
  <2>3. k'.pendsv = s.pendsv /\ k'.expiring = s.expiring /\ k'.halting = s.halting
    BY <2>1, <2>2, SwitchPlain
  <2> QED
    BY <1>1, <2>2, <2>3 DEF SwitchKept, Prepared
<1> QED
  BY <1>2, <1>3, <1>4

\* Every step of the scheduler keeps SwitchKept.
LEMMA FirstStep ==
  ASSUME IsrCalls \subseteq {"resume"}, Deferred, Sure(k), SwitchKept(k), Next
  PROVE  SwitchKept(k')
<1>1. ASSUME NEW t \in Thread, NEW p \in PrioChoice[t], nd_thread_create(t, p)
      PROVE  SwitchKept(k')
  <2>1. p \in Prio
    BY PrioChoiceAssumption
  <2> QED
    BY <1>1, <2>1, ApiFirst
<1>2. ASSUME NEW t \in Thread,
             \/ nd_thread_resume(t) \/ nd_thread_suspend(t)
             \/ \E timeout \in 1..MaxDelay \cup {Forever} : nd_thread_join(t, timeout)
      PROVE  SwitchKept(k')
  BY <1>2, ApiFirst
<1>3. CASE nd_thread_yield \/ \E d \in 0..MaxDelay : nd_thread_delay(d)
  BY <1>3, ApiFirst, ThreadAssumption
<1>4. CASE nd_scheduler_start \/ HaltLoop \/ \E t \in Thread : nd_thread_abort(t)
  BY <1>4, LifeFirst
<1>5. CASE JoinReturn
  BY <1>5 DEF JoinReturn
<1>6. CASE TimerLoop
  BY <1>6, ExpireFirst
<1>7. CASE EnterTick \/ EnterDevice \/ Exit \/ ExitTail \/ PendSV
  BY <1>7, HandlersFirst
<1> QED
  BY ONLY Next, <1>1, <1>2, <1>3, <1>4, <1>5, <1>6, <1>7 DEF Next, Others

\* When PendSV is about to make a switch nobody has asked for another choice.
LEMMA KeptIsFirst ==
  ASSUME Sure(k), Deferred => SwitchKept(k)
  PROVE  PreparedIsFirst
<1> SUFFICES ASSUME CanPendSV(k) PROVE k.next = nd_get_highest_priority_thread(k)
  BY DEF PreparedIsFirst
<1>1. k.pendsv /\ k.isr = <<>>
  BY DEF CanPendSV
<1>2. Deferred /\ ~k.try
  BY <1>1, SureFits DEF Sure, Consistent
<1> QED
  BY <1>1, <1>2 DEF SwitchKept, Prepared

\* When PendSV is about to make a switch, the thread it was prepared for is the first of the
\* most urgent ready list, whatever timers and handlers made READY since, as long as
\* handlers suspend and abort nobody.
THEOREM PreparedStaysFirst ==
  ASSUME IsrCalls \subseteq {"resume"}
  PROVE  Spec => []PreparedIsFirst
<1> DEFINE Inv == KernelInv /\ (Deferred => SwitchKept(k))
<1>1. ASSUME Init PROVE Inv
  BY <1>1, InitLemma DEF Init, SwitchKept, Prepared
<1>2. ASSUME Inv, [Next]_vars PROVE Inv'
  <2>1. KernelInv' /\ Sure(k)
    BY <1>2, NextLemma, KernelInvForm
  <2>2. CASE UNCHANGED vars
    BY <1>2, <2>1, <2>2 DEF vars
  <2>3. CASE Next
    BY <1>2, <2>1, <2>3, FirstStep
  <2> QED
    BY <1>2, <2>2, <2>3
<1>3. ASSUME Inv PROVE PreparedIsFirst
  BY <1>3, KernelInvForm, KeptIsFirst
<1> QED
  BY <1>1, <1>2, <1>3, PTL DEF Spec

=============================================================================
