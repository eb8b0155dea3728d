---------------------------- MODULE NdMutexProofs ----------------------------
(***************************************************************************)
(* The mutexes over the scheduler: the kernel's tables agree although lock *)
(* and unlock change the priorities of queued threads, no waiter is left   *)
(* behind and every inherited priority is given back, whatever clients do; *)
(* no two threads are inside one mutex, where nobody suspends a thread     *)
(* that may be inside nd_mutex_lock.                                       *)
(***************************************************************************)
EXTENDS NdMutex, NdSchedProofs

\* Whoever waits for a mutex waits for its owner, another thread.
WaitersOwned ==
  \A m \in Object : \A t \in Thread :
    Contains(k.wait[m], t) => owner[m] \in Thread \ {t}

\* The kernel under the calls of the mutexes: as WaitInv, but threads may be inside a lock,
\* and the waiters are not in order once the priority of one of them has changed.
MutexPlaces ==
  /\ Sure(k) /\ Placed(k, inside)
  /\ inside \in [Thread -> WaitQueue \cup {NoThread}]
  /\ MutexTypeOK /\ WaitersOwned

\* A mutex is an object, and no thread.
LEMMA MutexLemma ==
  /\ Object \subseteq WaitQueue /\ Thread \subseteq WaitQueue
  /\ \A m \in Object : m \notin Thread /\ m # NoThread
  /\ NoThread \notin Thread
  BY ObjectAssumption, ThreadAssumption DEF WaitQueue

\* The priority a thread is created with is a priority.
LEMMA InitPriorityLemma ==
  ASSUME NEW t \in Thread
  PROVE  InitPriority(t) \in Prio /\ PrioChoice[t] = {InitPriority(t)}
<1>1. PICK p \in Prio : PrioChoice[t] = {p}
  BY OnePriority
<1> QED
  BY <1>1 DEF InitPriority

-----------------------------------------------------------------------------
(* Priorities *)

\* r is s with another priority of t, on whose ready list t now is.
Repriced(s, r, t, p) ==
  /\ Consistent(r) /\ SameControl(s, r) /\ (Steady(s) => Steady(r))
  /\ r.prio = [s.prio EXCEPT ![t] = p]
  /\ r.stat = s.stat /\ r.error = s.error /\ r.wait = s.wait /\ r.timers = s.timers

\* What does not depend on a priority stays when one changes.
LEMMA RepricedLemma ==
  ASSUME NEW s, Consistent(s), NEW t \in Thread, NEW p \in Prio,
         NEW r \in KernelState, ReadyAgree(r), SameControl(s, r),
         r.prio = [s.prio EXCEPT ![t] = p],
         r.stat = s.stat, r.error = s.error, r.wait = s.wait, r.timers = s.timers,
         r.left = s.left, r.ran = s.ran
  PROVE  Repriced(s, r, t, p)
<1>1. /\ s \in KernelState /\ Agree(s)
  BY DEF Consistent
<1>2. WaitsAgree(r) /\ TimersAgree(r)
  BY <1>1, KeptLemma DEF Agree, SameControl
<1>2a. SlicesAgree(r)
  BY <1>1, SlicesKeptLemma DEF Agree, SameControl
<1>3. CurrentAgrees(r) /\ SwitchAgrees(r)
  BY <1>1 DEF Agree, CurrentAgrees, SwitchAgrees, SameControl
<1>4. Agree(r)
  BY <1>2, <1>2a, <1>3 DEF Agree
<1>5. Consistent(r)
  BY <1>4, ConsistentLemma
<1>6. Steady(s) => Steady(r)
  BY DEF Steady, SameControl
<1> QED
  BY <1>5, <1>6 DEF Repriced

\* A thread that is not READY is on no list.
LEMMA UnqueuedLemma ==
  ASSUME NEW s, Consistent(s), NEW t \in Thread, s.stat[t] # "READY", NEW p \in Prio,
         NEW r, r = [s EXCEPT !.prio[t] = p]
  PROVE  Repriced(s, r, t, p)
<1>1. s \in KernelState /\ ReadyAgree(s)
  BY DEF Consistent, Agree
<1>2. r \in KernelState
  BY <1>1 DEF KernelState
<1>3. SameControl(s, r)
  BY <1>1 DEF SameControl, KernelState
<1>4. /\ r.prio = [s.prio EXCEPT ![t] = p] /\ r.stat = s.stat /\ r.error = s.error
      /\ r.wait = s.wait /\ r.timers = s.timers /\ r.ready = s.ready /\ r.bits = s.bits
      /\ r.left = s.left /\ r.ran = s.ran
  BY <1>1 DEF KernelState
<1>5. s.prio \in [Thread -> Prio]
  BY <1>1 DEF KernelState
<1>6. ReadyAgree(r)
  BY <1>1, <1>4, <1>5 DEF ReadyAgree
<1> QED
  BY <1>2, <1>3, <1>4, <1>6, RepricedLemma

\* nd_thread_change_priority moves a READY thread to the list of its new priority.
LEMMA ChangePriorityLemma ==
  ASSUME NEW s, Consistent(s), NEW t \in Thread, NEW p \in Prio,
         NEW r, r = nd_thread_change_priority(s, t, p)
  PROVE  Repriced(s, r, t, p)
<1>1. CASE s.stat[t] # "READY"
  <2>1. r = [s EXCEPT !.prio[t] = p]
    BY <1>1 DEF nd_thread_change_priority
  <2> QED
    BY <1>1, <2>1, UnqueuedLemma
<1>2. CASE s.stat[t] = "READY"
  <2> DEFINE x == nd_thread_ready_remove(s, t)
             y == [x EXCEPT !.prio[t] = p]
  <2>1. s \in KernelState /\ ReadyAgree(s) /\ s.prio \in [Thread -> Prio]
    BY DEF Consistent, Agree, KernelState
  <2>2. ReadyMaybe(s, t) /\ Contains(s.ready[s.prio[t]], t)
    BY <1>2, <2>1 DEF ReadyAgree, ReadyMaybe
  <2>3. /\ x \in KernelState /\ OnlyReadyOrFault(s, x) /\ ReadyBut(x, t)
        /\ x.fault <=> s.fault
    BY <2>1, <2>2, ReadyRemoveLemma
  <2>4. r = nd_thread_ready_add_head(y, t)
    BY <1>2 DEF nd_thread_change_priority
  <2> HIDE DEF x
  <2>5. /\ x.stat = s.stat /\ x.prio = s.prio /\ x.error = s.error /\ x.wait = s.wait
        /\ x.timers = s.timers /\ x.cur = s.cur /\ x.next = s.next /\ x.pendsv = s.pendsv
        /\ x.nest = s.nest /\ x.try = s.try /\ x.isr = s.isr /\ x.expiring = s.expiring
        /\ x.halting = s.halting /\ x.left = s.left /\ x.ran = s.ran
    BY <2>1, <2>3, OnlyReadyOrFaultFrame
  <2>6. x.fault = s.fault
    BY <2>1, <2>3 DEF KernelState
  <2>7. y \in KernelState
    BY <2>3 DEF KernelState
  <2>8. /\ y.prio = [s.prio EXCEPT ![t] = p] /\ y.stat = s.stat /\ y.error = s.error
        /\ y.wait = s.wait /\ y.timers = s.timers /\ y.ready = x.ready /\ y.bits = x.bits
        /\ y.cur = s.cur /\ y.next = s.next /\ y.pendsv = s.pendsv /\ y.nest = s.nest
        /\ y.try = s.try /\ y.isr = s.isr /\ y.expiring = s.expiring
        /\ y.halting = s.halting /\ y.fault = s.fault
        /\ y.left = s.left /\ y.ran = s.ran
    BY <2>3, <2>5, <2>6 DEF KernelState
  <2> HIDE DEF y
  <2>9. ReadyBut(y, t)
    BY <2>1, <2>3, <2>5, <2>8 DEF ReadyBut
  <2>10. r \in KernelState /\ OnlyReady(y, r) /\ ReadyAgree(r)
    BY <1>2, <2>4, <2>7, <2>8, <2>9, AddHeadLemma
  <2>11. /\ r.prio = [s.prio EXCEPT ![t] = p] /\ r.stat = s.stat /\ r.error = s.error
         /\ r.wait = s.wait /\ r.timers = s.timers /\ SameControl(s, r)
         /\ r.left = s.left /\ r.ran = s.ran
    BY <2>7, <2>8, <2>10, OnlyReadyFrame DEF SameControl
  <2> QED
    BY <2>10, <2>11, RepricedLemma
<1> QED
  BY <1>1, <1>2

\* nd_mutex_restore_priority leaves the running thread with a priority, and with the one
\* it was created with when it owns nothing else.
LEMMA RestoreLemma ==
  ASSUME Consistent(k), NEW t \in Thread, k.stat[t] # "READY", MutexTypeOK,
         NEW taken \in SUBSET Object,
         NEW r, r = nd_mutex_restore_priority(k, t, taken)
  PROVE  \E p \in Prio : Repriced(k, r, t, p) /\ (taken = {} => p = InitPriority(t))
<1> DEFINE S == {InitPriority(t)} \cup {boost[m] : m \in taken}
           p == Min(S)
<1>1. InitPriority(t) \in 0..MaxPrio /\ MaxPrio \in Nat
  BY InitPriorityLemma, PrioAssumption DEF Prio
<1>2. S \subseteq Nat
  BY <1>1 DEF MutexTypeOK, Lowest
<1>3. p \in S /\ \A y \in S : p <= y
  BY <1>2, MinIsLeast
<1>4. p \in Prio
  <2> HIDE DEF p
  <2>1. p <= InitPriority(t) /\ p \in Nat
    BY <1>2, <1>3
  <2> QED
    BY <1>1, <2>1 DEF Prio
<1>5. taken = {} => p = InitPriority(t)
  BY <1>3
<1>6. r = [k EXCEPT !.prio[t] = p]
  BY DEF nd_mutex_restore_priority
<1>7. Repriced(k, r, t, p)
  <2> HIDE DEF p
  <2> QED
    BY <1>4, <1>6, UnqueuedLemma
<1> HIDE DEF p
<1> QED
  BY <1>4, <1>5, <1>7

-----------------------------------------------------------------------------
(* Each call *)

\* Who waits alike after a change of priority waits alike before it.
LEMMA AlikeLemma ==
  ASSUME NEW s, NEW r, NEW t, NEW p, Repriced(s, r, t, p), NEW v, NEW u
  PROVE  WaitsAlike(r, v, u) <=> WaitsAlike(s, v, u)
  BY DEF Repriced, WaitsAlike, Delayed

\* A list on which t is not stays in order when the priority of t changes.
LEMMA RepricedOrder ==
  ASSUME NEW s, NEW r, NEW t, NEW p, Repriced(s, r, t, p), s \in KernelState,
         NEW q \in WaitQueue, ~Contains(s.wait[q], t), InOrder(s, q)
  PROVE  InOrder(r, q)
<1> SUFFICES ASSUME NEW i \in DOMAIN s.wait[q], NEW j \in DOMAIN s.wait[q], i < j
             PROVE  r.prio[s.wait[q][i]] <= r.prio[s.wait[q][j]]
  BY DEF InOrder, Repriced
<1>1. s.wait[q] \in Seq(Thread) /\ s.prio \in [Thread -> Prio]
  BY DEF KernelState
<1>2. /\ s.wait[q][i] \in Thread /\ s.wait[q][j] \in Thread
      /\ s.wait[q][i] # t /\ s.wait[q][j] # t
  BY <1>1 DEF Contains
<1> QED
  BY <1>1, <1>2 DEF InOrder, Repriced

\* The priority a lock leaves the owner of the mutex with.
LEMMA InheritedLemma ==
  ASSUME MutexPlaces, NEW m \in Object, k.cur \in Thread, owner[m] \in Thread
  PROVE  \E p \in Prio :
           /\ Repriced(k, Inherited(m), owner[m], p)
           /\ p <= k.prio[owner[m]] /\ p <= k.prio[k.cur]
<1> DEFINE o == owner[m]
<1>1. Consistent(k) /\ k \in KernelState
  BY DEF MutexPlaces, Sure, Consistent
<1>2. k.prio \in [Thread -> Prio]
  BY <1>1 DEF KernelState
<1>3. /\ k.prio[o] \in Prio /\ k.prio[k.cur] \in Prio
      /\ k.prio[o] \in Int /\ k.prio[k.cur] \in Int
  BY <1>2, PrioAssumption DEF Prio
<1>4. CASE Inherits(m)
  <2>1. Inherited(m) = nd_thread_change_priority(k, o, k.prio[k.cur])
    BY <1>4 DEF Inherited
  <2>2. Repriced(k, Inherited(m), o, k.prio[k.cur])
    BY <1>1, <1>3, <2>1, ChangePriorityLemma
  <2>3. k.prio[k.cur] <= k.prio[o] /\ k.prio[k.cur] <= k.prio[k.cur]
    BY <1>3, <1>4 DEF Inherits
  <2> QED
    BY <1>3, <2>2, <2>3
<1>5. CASE ~Inherits(m)
  <2>1. Inherited(m) = k /\ k.prio = [k.prio EXCEPT ![o] = k.prio[o]]
    BY <1>2, <1>5 DEF Inherited
  <2>2. Repriced(k, Inherited(m), o, k.prio[o])
    BY <1>1, <2>1 DEF Repriced, SameControl
  <2>3. k.prio[o] <= k.prio[k.cur] /\ k.prio[o] <= k.prio[o]
    BY <1>3, <1>5 DEF Inherits
  <2> QED
    BY <1>3, <2>2, <2>3
<1> QED
  BY <1>4, <1>5

\* What the step of a running thread begins with.
LEMMA OwnCodeLemma ==
  ASSUME MutexPlaces, InThread(k)
  PROVE  /\ k.cur \in Thread /\ k.stat[k.cur] = "RUNNING" /\ Consistent(k) /\ Settled(k)
         /\ \A q \in WaitQueue : ~Contains(k.wait[q], k.cur)
<1>1. Sure(k) /\ k.cur \in Thread /\ k.stat[k.cur] = "RUNNING"
  BY InThreadLemma DEF MutexPlaces
<1>2. \A q \in WaitQueue : ~Contains(k.wait[q], k.cur)
  BY <1>1, FreeWhereLemma
<1> QED
  BY <1>1, <1>2 DEF Sure

\* A lock that does not wait: the owner may have become more urgent.
LEMMA LockRefusedStep ==
  ASSUME MutexPlaces, NEW m \in Object, LockOwned(m, 0)
  PROVE  /\ MutexPlaces' /\ k.cur \in Thread /\ owner[m] \in Thread \ {k.cur}
         /\ UNCHANGED <<inside, owner, holds>> /\ k'.wait = k.wait
         /\ \A u \in Thread : WaitsAlike(k, k', u) /\ k'.stat[u] = k.stat[u]
         /\ \E p \in Prio : /\ k'.prio = [k.prio EXCEPT ![owner[m]] = p]
                            /\ p <= k.prio[owner[m]] /\ p <= k.prio[k.cur]
<1>1. /\ InOwnCode /\ owner[m] \notin {NoThread, k.cur} /\ k' = Inherited(m)
      /\ boost' = (IF Inherits(m) THEN [boost EXCEPT ![m] = k.prio[k.cur]] ELSE boost)
      /\ UNCHANGED <<inside, owner, holds>>
  BY DEF LockOwned
<1>2. k.cur \in Thread /\ owner[m] \in Thread \ {k.cur}
  BY <1>1, OwnCodeLemma DEF InOwnCode, MutexPlaces, MutexTypeOK
<1>3. PICK p \in Prio : /\ Repriced(k, k', owner[m], p)
                        /\ p <= k.prio[owner[m]] /\ p <= k.prio[k.cur]
  BY <1>1, <1>2, InheritedLemma
<1>4. \A u \in Thread : WaitsAlike(k, k', u) /\ inside'[u] = inside[u]
  BY <1>1, <1>3 DEF Repriced, WaitsAlike, Delayed
<1>5. Sure(k')
  BY <1>3 DEF MutexPlaces, Sure, Settled, Booted, Repriced, SameControl
<1>6. Placed(k', inside')
  BY <1>4, MutexLemma, PlacedLemma DEF MutexPlaces
<1>7. k.prio[k.cur] \in 0..Lowest
  <2>1. k.prio[k.cur] \in 0..MaxPrio /\ MaxPrio \in Nat
    BY <1>2, PrioAssumption DEF MutexPlaces, Sure, Consistent, KernelState, Prio
  <2> QED
    BY <2>1 DEF Lowest
<1>8. MutexTypeOK'
  BY <1>1, <1>7 DEF MutexPlaces, MutexTypeOK
<1>9. WaitersOwned'
  BY <1>1, <1>3 DEF MutexPlaces, WaitersOwned, Repriced
<1>10. MutexPlaces'
  BY <1>1, <1>5, <1>6, <1>8, <1>9 DEF MutexPlaces
<1> QED
  BY <1>1, <1>2, <1>3, <1>4, <1>10 DEF Repriced

\* A lock that waits: the running thread joins the waiters, the owner may have become more
\* urgent.
LEMMA LockWaitsStep ==
  ASSUME MutexPlaces, NEW m \in Object, NEW timeout \in LockTimeouts, timeout # 0,
         LockOwned(m, timeout)
  PROVE  /\ MutexPlaces' /\ k.cur \in Thread /\ owner[m] \in Thread \ {k.cur}
         /\ UNCHANGED <<owner, holds>> /\ inside' = [inside EXCEPT ![k.cur] = m]
         /\ k'.stat[k.cur] = "BLOCK" /\ (InOrder(k, m) => InOrder(k', m))
         /\ \A u \in Thread \ {k.cur} : WaitsAlike(k, k', u)
         /\ \E p \in Prio : /\ k'.prio = [k.prio EXCEPT ![owner[m]] = p]
                            /\ p <= k.prio[owner[m]] /\ p <= k.prio[k.cur]
<1> DEFINE c == k.cur
<1>1. /\ InOwnCode /\ owner[m] \notin {NoThread, c}
      /\ k' = nd_scheduler(nd_thread_pend(Inherited(m), m, timeout))
      /\ boost' = (IF Inherits(m) THEN [boost EXCEPT ![m] = k.prio[c]] ELSE boost)
      /\ inside' = [inside EXCEPT ![c] = m]
      /\ UNCHANGED <<owner, holds>>
  BY DEF LockOwned
<1>2. /\ c \in Thread \ {Idle} /\ k.stat[c] = "RUNNING" /\ owner[m] \in Thread \ {c}
      /\ Consistent(k)
  BY <1>1, OwnCodeLemma DEF InOwnCode, MutexPlaces, MutexTypeOK
<1> DEFINE x == Inherited(m)
<1>3. PICK p \in Prio : /\ Repriced(k, x, owner[m], p)
                        /\ p <= k.prio[owner[m]] /\ p <= k.prio[c]
  BY <1>1, <1>2, InheritedLemma
<1>4. timeout \in Nat \cup {Forever}
  BY LockAssumption, DelayAssumption
<1>5. k' = nd_scheduler(nd_thread_pend(x, m, timeout))
  BY <1>1
<1> HIDE DEF x
<1>6. /\ Sure(k') /\ WaitsKept(x, k', x.cur) /\ k'.stat[x.cur] = "BLOCK"
      /\ \A q \in WaitQueue : Contains(k'.wait[q], x.cur) <=> q = m
  <2>1. ~Deferred \/ IsrCalls \subseteq {"resume"} => Steady(x)
    BY <1>3 DEF MutexPlaces, Sure, Repriced
  <2>2. Consistent(x) /\ x.cur \in Thread \ {Idle} /\ x.stat[x.cur] = "RUNNING"
    BY <1>2, <1>3 DEF Repriced, SameControl
  <2> QED
    BY <1>4, <1>5, <2>1, <2>2, MutexLemma, PendStep
<1>7. x.cur = c
  BY <1>3 DEF Repriced, SameControl
<1> HIDE DEF c
<1>8. \A u \in Thread \ {c} : WaitsAlike(k, k', u)
  BY <1>3, <1>6, <1>7, AlikeLemma DEF WaitsKept
<1>9. k'.prio = [k.prio EXCEPT ![owner[m]] = p]
  BY <1>3, <1>6 DEF WaitsKept, Repriced
<1>10. /\ inside'[c] = m /\ \A u \in Thread \ {c} : inside'[u] = inside[u]
       /\ inside' \in [Thread -> WaitQueue \cup {NoThread}]
  BY <1>1, <1>2, MutexLemma DEF MutexPlaces
<1>11. WaitsWhere(k', c, inside'[c])
  BY <1>6, <1>7, <1>10, MutexLemma DEF WaitsWhere
<1>12. Placed(k', inside')
  BY <1>8, <1>10, <1>11, PlacedLemma DEF MutexPlaces
<1>13. k.prio[c] \in 0..Lowest
  <2>1. k.prio[c] \in 0..MaxPrio /\ MaxPrio \in Nat
    BY <1>2, PrioAssumption DEF Consistent, KernelState, Prio
  <2> QED
    BY <2>1 DEF Lowest
<1>14. MutexTypeOK'
  BY <1>1, <1>13 DEF MutexPlaces, MutexTypeOK
<1>15. WaitersOwned'
  <2> SUFFICES ASSUME NEW n \in Object, NEW t \in Thread, Contains(k'.wait[n], t)
               PROVE  owner[n] \in Thread \ {t}
    BY <1>1 DEF WaitersOwned
  <2>1. CASE t = c
    BY <1>2, <1>6, <1>7, <2>1, MutexLemma
  <2>2. CASE t # c
    BY <1>8, <2>2, MutexLemma DEF MutexPlaces, WaitersOwned, WaitsAlike
  <2> QED
    BY <2>1, <2>2
<1>16. MutexPlaces'
  BY <1>6, <1>10, <1>12, <1>14, <1>15 DEF MutexPlaces
<1>17. InOrder(k, m) => InOrder(k', m)
  <2>1. ~Contains(k.wait[m], owner[m]) /\ k \in KernelState
    BY <1>2 DEF MutexPlaces, WaitersOwned, Consistent
  <2>2. InOrder(k, m) => InOrder(x, m)
    BY <1>3, <2>1, MutexLemma, RepricedOrder
  <2> QED
    BY <1>6, <2>2, MutexLemma DEF WaitsKept, OrderKept
<1> QED
  BY <1>1, <1>2, <1>3, <1>6, <1>7, <1>8, <1>9, <1>16, <1>17 DEF c

\* A lock of a free mutex: it had no waiters.
LEMMA LockFreeStep ==
  ASSUME MutexPlaces, NEW m \in Object, LockFree(m)
  PROVE  /\ MutexPlaces' /\ UNCHANGED <<k, inside>>
         /\ k.cur \in Thread /\ owner[m] = NoThread
         /\ owner' = [owner EXCEPT ![m] = k.cur]
         /\ holds' = [holds EXCEPT ![k.cur] = holds[k.cur] \cup {m}]
<1> DEFINE c == k.cur
<1>1. /\ InOwnCode /\ owner[m] = NoThread
      /\ owner' = [owner EXCEPT ![m] = c]
      /\ holds' = [holds EXCEPT ![c] = holds[c] \cup {m}]
      /\ UNCHANGED <<k, inside, boost>>
  BY DEF LockFree
<1>2. c \in Thread
  BY <1>1, OwnCodeLemma DEF InOwnCode
<1> HIDE DEF c
<1>3. MutexTypeOK'
  BY <1>1, <1>2 DEF MutexPlaces, MutexTypeOK
<1>4. WaitersOwned'
  BY <1>1, <1>2, MutexLemma DEF MutexPlaces, WaitersOwned, MutexTypeOK
<1>5. Sure(k') /\ Placed(k', inside')
  BY <1>1 DEF MutexPlaces
<1> QED
  BY <1>1, <1>2, <1>3, <1>4, <1>5 DEF MutexPlaces, c

\* A lock returns: the kernel and the mutexes stay as they are.
LEMMA LockReturnStep ==
  ASSUME MutexPlaces, LockReturn
  PROVE  /\ MutexPlaces' /\ UNCHANGED <<k, owner>>
         /\ k.cur \in Thread /\ k.stat[k.cur] = "RUNNING" /\ inside[k.cur] \in Object
         /\ inside' = [inside EXCEPT ![k.cur] = NoThread]
<1> DEFINE c == k.cur
<1>1. /\ InThread(k) /\ inside[c] \in Object
      /\ inside' = [inside EXCEPT ![c] = NoThread]
      /\ holds' = (IF k.error[c] = "EOK" THEN [holds EXCEPT ![c] = holds[c] \cup {inside[c]}]
                                         ELSE holds)
      /\ UNCHANGED <<k, owner, boost>>
  BY DEF LockReturn
<1>2. c \in Thread /\ k.stat[c] = "RUNNING"
  BY <1>1, OwnCodeLemma
<1>3. Sure(k) /\ inside \in [Thread -> WaitQueue \cup {NoThread}]
  BY DEF MutexPlaces
<1> HIDE DEF c
<1>4. inside'[c] = NoThread /\ inside' \in [Thread -> WaitQueue \cup {NoThread}] /\ Sure(k')
  BY <1>1, <1>2, <1>3
<1>5. WaitsWhere(k', c, inside'[c])
  BY <1>1, <1>2, <1>4, FreeWhereLemma
<1>6. \A u \in Thread \ {c} : WaitsAlike(k, k', u) /\ inside'[u] = inside[u]
  BY <1>1, <1>3 DEF WaitsAlike
<1>7. Placed(k', inside')
  BY <1>5, <1>6, PlacedLemma DEF MutexPlaces
<1>8. MutexTypeOK'
  BY <1>1, <1>2 DEF MutexPlaces, MutexTypeOK
<1>9. WaitersOwned'
  BY <1>1 DEF MutexPlaces, WaitersOwned
<1> QED
  BY <1>1, <1>2, <1>4, <1>7, <1>8, <1>9 DEF MutexPlaces, c

\* m goes to h, its first waiter, or to nobody.
Passes(m, h) ==
  /\ owner' = [owner EXCEPT ![m] = h]
  /\ \A u \in Thread \ {h} : WaitsAlike(k, k', u)
  /\ h \in Thread => /\ k.wait[m] # <<>> /\ h = Head(k.wait[m])
                     /\ h # k.cur /\ inside[h] = m /\ k.stat[h] = "BLOCK"
                     /\ k'.stat[h] \in {"READY", "RUNNING"} /\ k'.error[h] = "EOK"

\* An unlock with or without waiters: the priority of the running thread is restored.
LEMMA UnlockStep ==
  ASSUME MutexPlaces, NEW m \in Object, nd_mutex_unlock(m)
  PROVE  /\ MutexPlaces' /\ UNCHANGED inside
         /\ k.cur \in Thread /\ owner[m] = k.cur /\ inside[k.cur] = NoThread
         /\ InOrder(k, m) => InOrder(k', m)
         /\ holds' = [holds EXCEPT ![k.cur] = holds[k.cur] \ {m}]
         /\ \E p \in Prio : /\ k'.prio = [k.prio EXCEPT ![k.cur] = p]
                            /\ Taken(k.cur) \ {m} = {} => p = InitPriority(k.cur)
         /\ \E h \in Thread \cup {NoThread} : Passes(m, h)
<1> DEFINE c == k.cur
           taken == Taken(c) \ {m}
           x == nd_mutex_restore_priority(k, c, taken)
<1>1. /\ InOwnCode /\ owner[m] = c /\ inside[c] = NoThread /\ Release(m, x)
      /\ holds' = [holds EXCEPT ![c] = holds[c] \ {m}]
      /\ UNCHANGED inside
  BY DEF nd_mutex_unlock, InOwnCode
<1>2. /\ c \in Thread /\ k.stat[c] = "RUNNING" /\ Consistent(k) /\ Settled(k)
      /\ \A q \in WaitQueue : ~Contains(k.wait[q], c)
  BY <1>1, OwnCodeLemma DEF InOwnCode
<1>3. /\ Placed(k, inside) /\ inside \in [Thread -> WaitQueue \cup {NoThread}]
      /\ MutexTypeOK /\ WaitersOwned
      /\ ~Deferred \/ IsrCalls \subseteq {"resume"} => Steady(k)
  BY DEF MutexPlaces, Sure
<1>4. PICK p \in Prio : Repriced(k, x, c, p) /\ (taken = {} => p = InitPriority(c))
  <2>1. taken \in SUBSET Object
    BY DEF Taken
  <2> HIDE DEF taken
  <2> QED
    BY <1>2, <1>3, <2>1, RestoreLemma
<1> HIDE DEF x
<1>7. InOrder(k, m) => InOrder(x, m)
  <2>1. ~Contains(k.wait[m], c) /\ k \in KernelState
    BY <1>2, MutexLemma DEF Consistent
  <2> QED
    BY <1>4, <2>1, MutexLemma, RepricedOrder
<1>5. CASE /\ k.wait[m] = <<>> /\ k' = x
           /\ owner' = [owner EXCEPT ![m] = NoThread] /\ boost' = [boost EXCEPT ![m] = Lowest]
  <2>1. Sure(k')
    BY <1>2, <1>3, <1>4, <1>5 DEF Sure, Settled, Booted, Repriced, SameControl
  <2>2. \A u \in Thread : WaitsAlike(k, k', u)
    BY <1>4, <1>5 DEF Repriced, WaitsAlike, Delayed
  <2>3. Placed(k', inside')
    BY <1>1, <1>3, <2>2, MutexLemma, PlacedLemma
  <2>4. MutexTypeOK'
    <3>1. Lowest \in 0..Lowest
      BY PrioAssumption DEF Lowest
    <3> QED
      BY <1>1, <1>2, <1>3, <1>5, <3>1 DEF MutexTypeOK
  <2>5. WaitersOwned'
    BY <1>3, <1>4, <1>5 DEF WaitersOwned, MutexTypeOK, Repriced, Contains
  <2>6. MutexPlaces'
    BY <1>1, <1>3, <2>1, <2>3, <2>4, <2>5 DEF MutexPlaces
  <2>7. Passes(m, NoThread)
    BY <1>5, <2>2, MutexLemma DEF Passes
  <2>8. k'.prio = [k.prio EXCEPT ![c] = p]
    BY <1>4, <1>5 DEF Repriced
  <2> QED
    BY <1>1, <1>2, <1>4, <1>7, <1>5, <2>6, <2>7, <2>8
<1>6. CASE /\ k.wait[m] # <<>> /\ k' = nd_scheduler(nd_thread_wakeup(x, m))
           /\ owner' = [owner EXCEPT ![m] = Head(k.wait[m])] /\ UNCHANGED boost
  <2> DEFINE h == Head(k.wait[m])
  <2>1. /\ Consistent(x) /\ x.wait = k.wait /\ x.stat = k.stat
        /\ ~Deferred \/ IsrCalls \subseteq {"resume"} => Steady(x)
    BY <1>3, <1>4 DEF Repriced
  <2>2. /\ Sure(k') /\ WaitsKept(x, k', h)
        /\ h \in Thread /\ Contains(x.wait[m], h) /\ x.stat[h] = "BLOCK"
        /\ k'.stat[h] \in {"READY", "RUNNING"} /\ k'.error[h] = "EOK"
    BY <1>6, <2>1, MutexLemma, WakeStep
  <2>3. owner' = [owner EXCEPT ![m] = h]
    BY <1>6
  <2> HIDE DEF h
  <2>4. \A u \in Thread \ {h} : WaitsAlike(k, k', u)
    BY <1>4, <2>2, AlikeLemma DEF WaitsKept
  <2>5. Contains(k.wait[m], h) /\ k.stat[h] = "BLOCK" /\ h # c
    BY <1>2, <2>1, <2>2
  <2>6. inside[h] = m
    BY <1>3, <2>2, <2>5, MutexLemma DEF Placed, WaitsWhere
  <2>7. WaitsWhere(k', h, inside'[h]) /\ \A q \in WaitQueue : ~Contains(k'.wait[q], h)
    BY <2>2, FreeWhereLemma
  <2>8. Placed(k', inside')
    BY <1>1, <1>3, <2>4, <2>7, PlacedLemma
  <2>9. MutexTypeOK'
    BY <1>1, <1>2, <1>3, <1>6, <2>2, <2>3 DEF MutexTypeOK
  <2>10. WaitersOwned'
    <3> SUFFICES ASSUME NEW n \in Object, NEW t \in Thread, Contains(k'.wait[n], t)
                 PROVE  owner'[n] \in Thread \ {t}
      BY DEF WaitersOwned
    <3>1. t # h
      BY <2>7, MutexLemma
    <3>2. owner[n] \in Thread \ {t}
      BY <1>3, <2>4, <3>1, MutexLemma DEF WaitersOwned, WaitsAlike
    <3> QED
      BY <1>3, <2>2, <2>3, <3>1, <3>2 DEF MutexTypeOK
  <2>11. MutexPlaces'
    BY <1>1, <1>3, <2>2, <2>8, <2>9, <2>10 DEF MutexPlaces
  <2>12. Passes(m, h)
    BY <1>6, <2>2, <2>3, <2>4, <2>5, <2>6 DEF Passes, h
  <2>13. k'.prio = [k.prio EXCEPT ![c] = p]
    BY <1>4, <2>2 DEF Repriced, WaitsKept
  <2>14. InOrder(k, m) => InOrder(k', m)
    BY <1>7, <2>2, MutexLemma DEF WaitsKept, OrderKept
  <2> QED
    BY <1>1, <1>2, <1>4, <2>2, <2>11, <2>12, <2>13, <2>14
<1> QED
  BY <1>1, <1>5, <1>6 DEF Release

\* A step of the scheduler, which knows nothing of mutexes.
LEMMA SchedulerStep ==
  ASSUME MutexPlaces, Next, UNCHANGED mutexes PROVE MutexPlaces' /\ Moved
<1>1. /\ Sure(k) /\ Placed(k, inside) /\ MutexTypeOK /\ WaitersOwned
      /\ inside \in [Thread -> WaitQueue \cup {NoThread}]
  BY DEF MutexPlaces
<1>2. Moved /\ Sure(k')
  BY <1>1, MovedStep, SureStep
<1>3. inside' \in [Thread -> WaitQueue \cup {NoThread}]
  <2>1. Thread \cup {NoThread} \subseteq WaitQueue \cup {NoThread}
    BY MutexLemma
  <2> QED
    BY <1>1, <2>1, InsideLemma
<1>4. UNCHANGED <<owner, boost, holds>>
  BY DEF mutexes
<1>5. MutexTypeOK'
  BY <1>1, <1>4 DEF MutexTypeOK
<1>6. WaitersOwned'
  BY <1>1, <1>2, <1>4, NoNewWaiterLemma DEF WaitersOwned
<1> QED
  BY <1>1, <1>2, <1>3, <1>5, <1>6 DEF Moved, MutexPlaces

-----------------------------------------------------------------------------
(* The kernel and the waiters *)

\* The steps of MutexSpec, one case for each.
LEMMA MutexNextForm ==
  ASSUME [MutexNext]_mutexVars
  PROVE  \/ UNCHANGED mutexVars
         \/ Next /\ UNCHANGED mutexes
         \/ \E m \in Object : \/ LockFree(m) \/ nd_mutex_unlock(m)
                              \/ LockOwned(m, 0)
                              \/ \E timeout \in LockTimeouts \ {0} : LockOwned(m, timeout)
         \/ LockReturn
  BY DEF MutexNext, Next, SuspendWithoutMutex, nd_mutex_lock

\* Every step keeps MutexPlaces.
LEMMA MutexPlacesStep == MutexPlaces /\ [MutexNext]_mutexVars => MutexPlaces'
<1> SUFFICES ASSUME MutexPlaces, [MutexNext]_mutexVars PROVE MutexPlaces'
  OBVIOUS
<1>1. CASE UNCHANGED mutexVars
  BY <1>1 DEF MutexPlaces, MutexTypeOK, WaitersOwned, mutexVars
<1> QED
  BY <1>1, MutexNextForm, SchedulerStep, LockFreeStep, LockWaitsStep, LockRefusedStep,
     LockReturnStep, UnlockStep

\* After nd_scheduler_init and nd_mutex_init.
LEMMA MutexInitLemma == MutexInit => MutexPlaces
<1> SUFFICES ASSUME MutexInit PROVE MutexPlaces
  OBVIOUS
<1>1. WaitInv
  BY WaitInitLemma DEF MutexInit
<1>2. Sure(k) /\ Placed(k, inside) /\ inside \in [Thread -> WaitQueue \cup {NoThread}]
  BY <1>1, KernelInvForm DEF WaitInv
<1>3. MutexTypeOK
  BY PrioAssumption DEF MutexInit, MutexTypeOK, Lowest
<1>4. k.wait = [q \in WaitQueue |-> <<>>]
  BY DEF MutexInit, Init
<1>5. WaitersOwned
  BY <1>4, MutexLemma DEF WaitersOwned, Contains
<1> QED
  BY <1>2, <1>3, <1>5 DEF MutexPlaces

\* The kernel's tables agree although lock and unlock change the priority of threads that
\* are on ready lists, nobody waits for a free mutex and no owner for its own.
THEOREM MutexKernel == MutexSpec => []MutexInv
<1>1. MutexPlaces => MutexInv
  <2> SUFFICES ASSUME MutexPlaces, NEW m \in Object, k.wait[m] # <<>>
               PROVE  owner[m] # NoThread /\ ~Contains(k.wait[m], owner[m])
    BY KernelInvForm DEF MutexPlaces, MutexInv, WaitersHaveOwner
  <2>1. k.wait[m] \in Seq(Thread)
    BY MutexLemma DEF MutexPlaces, Sure, Consistent, KernelState
  <2>2. Head(k.wait[m]) \in Thread /\ Contains(k.wait[m], Head(k.wait[m]))
    BY <2>1, EmptyLemma
  <2>3. owner[m] \in Thread
    BY <2>2 DEF MutexPlaces, WaitersOwned
  <2> QED
    BY <2>3, MutexLemma DEF MutexPlaces, WaitersOwned
<1> QED
  BY <1>1, MutexInitLemma, MutexPlacesStep, PTL DEF MutexSpec

-----------------------------------------------------------------------------
(* Priorities are given back *)

\* Every step keeps PriorityGivenBack: whoever is made more urgent owns a mutex, and its
\* last unlock restores it.
LEMMA GivenBackStep ==
  ASSUME MutexPlaces, PriorityGivenBack, [MutexNext]_mutexVars PROVE PriorityGivenBack'
<1>0. k.stat \in [Thread -> Stat] /\ k.prio \in [Thread -> Prio]
      /\ owner \in [Object -> Thread \cup {NoThread}]
  BY DEF MutexPlaces, MutexTypeOK, Sure, Consistent, KernelState
<1>1. CASE UNCHANGED <<k, owner>>
  BY <1>1 DEF PriorityGivenBack, Taken
<1>2. CASE Next /\ UNCHANGED mutexes
  <2> SUFFICES ASSUME NEW t \in Thread, k'.stat[t] # "INIT", Taken(t)' = {}
               PROVE  k'.prio[t] = InitPriority(t)
    BY DEF PriorityGivenBack
  <2>1. Dated(t)
    BY <1>2, SchedulerStep DEF Moved
  <2>2. Taken(t) = {}
    BY <1>2 DEF Taken, mutexes
  <2> QED
    BY <2>1, <2>2, InitPriorityLemma DEF Dated, PriorityGivenBack
<1>3. ASSUME NEW m \in Object, LockFree(m) PROVE PriorityGivenBack'
  <2> DEFINE c == k.cur
  <2>1. /\ UNCHANGED k /\ c \in Thread /\ owner[m] = NoThread
        /\ owner' = [owner EXCEPT ![m] = c]
    BY <1>3, LockFreeStep
  <2> HIDE DEF c
  <2>2. ASSUME NEW t \in Thread, Taken(t)' = {} PROVE Taken(t) = {}
    BY <1>0, <2>1, <2>2, MutexLemma DEF Taken
  <2> QED
    BY <2>1, <2>2 DEF PriorityGivenBack
<1>4. ASSUME NEW m \in Object, owner[m] \in Thread, UNCHANGED owner,
             \A u \in Thread : k'.stat[u] # "INIT" => k.stat[u] # "INIT",
             NEW p, k'.prio = [k.prio EXCEPT ![owner[m]] = p]
      PROVE  PriorityGivenBack'
  <2> SUFFICES ASSUME NEW t \in Thread, k'.stat[t] # "INIT", Taken(t)' = {}
               PROVE  k'.prio[t] = InitPriority(t)
    BY DEF PriorityGivenBack
  <2>1. Taken(t) = {} /\ t # owner[m]
    BY <1>4 DEF Taken
  <2> QED
    BY <1>0, <1>4, <2>1 DEF PriorityGivenBack
<1>5. ASSUME NEW m \in Object, LockOwned(m, 0) PROVE PriorityGivenBack'
  BY <1>4, <1>5, LockRefusedStep
<1>6. ASSUME NEW m \in Object, NEW timeout \in LockTimeouts \ {0}, LockOwned(m, timeout)
      PROVE  PriorityGivenBack'
  <2>1. /\ k.cur \in Thread /\ owner[m] \in Thread /\ UNCHANGED owner
        /\ \A u \in Thread \ {k.cur} : WaitsAlike(k, k', u)
        /\ \E p \in Prio : k'.prio = [k.prio EXCEPT ![owner[m]] = p]
    BY <1>6, LockWaitsStep
  <2>2. k.stat[k.cur] = "RUNNING"
    BY <1>6, OwnCodeLemma DEF LockOwned, InOwnCode
  <2>3. \A u \in Thread : k'.stat[u] # "INIT" => k.stat[u] # "INIT"
    BY <2>1, <2>2 DEF WaitsAlike
  <2> QED
    BY <1>4, <2>1, <2>3
<1>7. CASE LockReturn
  BY <1>1, <1>7, LockReturnStep
<1>8. ASSUME NEW m \in Object, nd_mutex_unlock(m) PROVE PriorityGivenBack'
  <2> DEFINE c == k.cur
  <2>1. c \in Thread /\ owner[m] = c /\ k.stat[c] = "RUNNING"
    BY <1>8, OwnCodeLemma, UnlockStep DEF nd_mutex_unlock, InOwnCode
  <2>2. PICK p \in Prio : /\ k'.prio = [k.prio EXCEPT ![c] = p]
                          /\ Taken(c) \ {m} = {} => p = InitPriority(c)
    BY <1>8, UnlockStep
  <2>3. PICK h \in Thread \cup {NoThread} : Passes(m, h)
    BY <1>8, UnlockStep
  <2> HIDE DEF c
  <2> SUFFICES ASSUME NEW t \in Thread, k'.stat[t] # "INIT", Taken(t)' = {}
               PROVE  k'.prio[t] = InitPriority(t)
    BY DEF PriorityGivenBack
  <2>4. k.stat[t] # "INIT"
    BY <2>3 DEF Passes, WaitsAlike
  <2>5. Taken(t) \ {m} = {} /\ (t # c => Taken(t) = {})
    BY <1>0, <2>1, <2>3 DEF Taken, Passes
  <2> QED
    BY <1>0, <2>2, <2>4, <2>5 DEF PriorityGivenBack
<1> QED
  BY <1>1, <1>2, <1>3, <1>5, <1>6, <1>7, <1>8, MutexNextForm DEF mutexVars

\* An inherited priority is given back, whatever locks, timeouts, suspensions and aborts
\* meet.
THEOREM PrioritiesReturn == MutexSpec => []PriorityGivenBack
<1>1. MutexInit => PriorityGivenBack
  <2> SUFFICES ASSUME MutexInit, NEW t \in Thread, k.stat[t] # "INIT"
               PROVE  k.prio[t] = InitPriority(t)
    BY DEF PriorityGivenBack
  <2>1. /\ k.stat = [u \in Thread |-> IF u = Idle THEN "READY" ELSE "INIT"]
        /\ k.prio = [u \in Thread |-> MaxPrio]
    BY DEF MutexInit, Init
  <2>2. t = Idle /\ k.prio[t] = MaxPrio
    BY <2>1
  <2> QED
    BY <2>2, InitPriorityLemma, PrioChoiceAssumption
<1> QED
  BY <1>1, MutexInitLemma, MutexPlacesStep, GivenBackStep, PTL DEF MutexSpec

-----------------------------------------------------------------------------
(* Mutual exclusion *)

\* A thread inside nd_mutex_lock that is not BLOCK and was not told of a timeout has been
\* handed the mutex.
Handed ==
  \A t \in Thread :
    inside[t] \in Object /\ k.error[t] = "EOK" /\ k.stat[t] # "BLOCK" =>
      owner[inside[t]] = t

\* Every step keeps HolderOwns, where nobody is suspended inside a lock.
LEMMA HolderStep ==
  ASSUME "suspend" \notin Calls \cup IsrCalls,
         MutexPlaces, Handed, HolderOwns, [MutexNext]_mutexVars
  PROVE  Handed' /\ HolderOwns'
<1>0. /\ k.stat \in [Thread -> Stat] /\ owner \in [Object -> Thread \cup {NoThread}]
      /\ holds \in [Thread -> SUBSET Object]
      /\ inside \in [Thread -> WaitQueue \cup {NoThread}]
  BY DEF MutexPlaces, MutexTypeOK, Sure, Consistent, KernelState
<1>1. CASE UNCHANGED mutexVars
  BY <1>1 DEF Handed, HolderOwns, mutexVars
<1>2. CASE Next /\ UNCHANGED mutexes
  <2>1. HolderOwns'
    BY <1>2 DEF HolderOwns, mutexes
  <2>2. ASSUME NEW t \in Thread, inside'[t] \in Object, k'.error[t] = "EOK",
               k'.stat[t] # "BLOCK"
        PROVE  owner'[inside'[t]] = t
    <3>1. Moves(t)
      BY <1>2, SchedulerStep DEF Moved
    <3>2. Alike(t) \/ Resumes(t)
      BY <2>2, <3>1, MutexLemma DEF Moves, Elsewhere, TimesOut, Suspends, Aborts
    <3>3. inside'[t] = inside[t] /\ k.error[t] = "EOK" /\ k.stat[t] # "BLOCK"
      BY <2>2, <3>2 DEF Alike, WaitsAlike, Resumes
    <3> QED
      BY <1>2, <2>2, <3>3 DEF Handed, mutexes
  <2> QED
    BY <2>1, <2>2 DEF Handed
<1>3. ASSUME NEW m \in Object, LockFree(m) PROVE Handed' /\ HolderOwns'
  <2> DEFINE c == k.cur
  <2>1. /\ UNCHANGED <<k, inside>> /\ c \in Thread /\ owner[m] = NoThread
        /\ owner' = [owner EXCEPT ![m] = c] /\ holds' = [holds EXCEPT ![c] = holds[c] \cup {m}]
    BY <1>3, LockFreeStep
  <2> HIDE DEF c
  <2>2. Handed'
    BY <1>0, <2>1, MutexLemma DEF Handed
  <2>3. HolderOwns'
    BY <1>0, <2>1, MutexLemma DEF HolderOwns
  <2> QED
    BY <2>2, <2>3
<1>4. ASSUME NEW m \in Object, LockOwned(m, 0) PROVE Handed' /\ HolderOwns'
  <2>1. /\ UNCHANGED <<inside, owner, holds>>
        /\ \A u \in Thread : WaitsAlike(k, k', u)
    BY <1>4, LockRefusedStep
  <2> QED
    BY <2>1 DEF Handed, HolderOwns, WaitsAlike
<1>5. ASSUME NEW m \in Object, NEW timeout \in LockTimeouts \ {0}, LockOwned(m, timeout)
      PROVE  Handed' /\ HolderOwns'
  <2> DEFINE c == k.cur
  <2>1. /\ UNCHANGED <<owner, holds>> /\ inside' = [inside EXCEPT ![c] = m]
        /\ k'.stat[c] = "BLOCK" /\ \A u \in Thread \ {c} : WaitsAlike(k, k', u)
    BY <1>5, LockWaitsStep
  <2> HIDE DEF c
  <2>2. ASSUME NEW t \in Thread, inside'[t] \in Object, k'.error[t] = "EOK",
               k'.stat[t] # "BLOCK"
        PROVE  owner'[inside'[t]] = t
    <3>1. t # c /\ inside'[t] = inside[t]
      BY <1>0, <2>1, <2>2
    <3> QED
      BY <2>1, <2>2, <3>1 DEF Handed, WaitsAlike
  <2> QED
    BY <2>1, <2>2 DEF Handed, HolderOwns
<1>6. CASE LockReturn
  <2> DEFINE c == k.cur
  <2>1. /\ UNCHANGED <<k, owner>> /\ c \in Thread /\ k.stat[c] = "RUNNING"
        /\ inside[c] \in Object /\ inside' = [inside EXCEPT ![c] = NoThread]
        /\ holds' = (IF k.error[c] = "EOK" THEN [holds EXCEPT ![c] = holds[c] \cup {inside[c]}]
                                           ELSE holds)
    BY <1>6, LockReturnStep DEF LockReturn
  <2> HIDE DEF c
  <2>2. Handed'
    BY <1>0, <2>1, MutexLemma DEF Handed
  <2>3. k.error[c] = "EOK" => owner[inside[c]] = c
    BY <2>1 DEF Handed
  <2>4. HolderOwns'
    BY <1>0, <2>1, <2>3 DEF HolderOwns
  <2> QED
    BY <2>2, <2>4
<1>7. ASSUME NEW m \in Object, nd_mutex_unlock(m) PROVE Handed' /\ HolderOwns'
  <2> DEFINE c == k.cur
  <2>1. /\ UNCHANGED inside /\ c \in Thread /\ owner[m] = c /\ inside[c] = NoThread
        /\ holds' = [holds EXCEPT ![c] = holds[c] \ {m}]
    BY <1>7, UnlockStep
  <2>2. PICK h \in Thread \cup {NoThread} : Passes(m, h)
    BY <1>7, UnlockStep
  <2> HIDE DEF c
  <2>3. owner' = [owner EXCEPT ![m] = h]
    BY <2>2 DEF Passes
  <2>4. ASSUME NEW t \in Thread, inside[t] \in Object, k'.error[t] = "EOK",
               k'.stat[t] # "BLOCK"
        PROVE  owner'[inside[t]] = t
    <3>1. CASE t = h
      <4>1. inside[t] = m
        BY <3>1 , <2>2 DEF Passes
      <4> QED
        BY <1>0, <2>3, <3>1, <4>1
    <3>2. CASE t # h
      <4>1. WaitsAlike(k, k', t)
        BY <2>2, <3>2 DEF Passes
      <4>2. owner[inside[t]] = t
        BY <2>4, <4>1 DEF WaitsAlike, Handed
      <4>3. t # c
        BY <2>1, <2>4, MutexLemma
      <4>4. inside[t] # m
        BY <2>1, <4>2, <4>3
      <4> QED
        BY <1>0, <2>3, <2>4, <4>2, <4>4
    <3> QED
      BY <3>1, <3>2
  <2>5. HolderOwns'
    BY <1>0, <2>1, <2>3 DEF HolderOwns
  <2> QED
    BY <2>1, <2>4, <2>5 DEF Handed
<1> QED
  BY <1>1, <1>2, <1>3, <1>4, <1>5, <1>6, <1>7, MutexNextForm

\* Two threads are never both inside: whoever nd_mutex_lock told that it has the mutex
\* owns it, however locks, hand-overs, timeouts, aborts and preemption interleave.
THEOREM MutualExclusion ==
  ASSUME "suspend" \notin Calls \cup IsrCalls
  PROVE  MutexSpec => []HolderOwns
<1>1. MutexInit => Handed /\ HolderOwns
  BY MutexLemma DEF MutexInit, Init, Handed, HolderOwns
<1>2. MutexPlaces /\ Handed /\ HolderOwns /\ [MutexNext]_mutexVars => Handed' /\ HolderOwns'
  BY HolderStep
<1> QED
  BY <1>1, <1>2, MutexInitLemma, MutexPlacesStep, PTL DEF MutexSpec

-----------------------------------------------------------------------------
(* Priority inheritance *)

\* The waiters of every mutex are in order, its owner exists and is as urgent as each.
Inherit ==
  \A m \in Object :
    /\ InOrder(k, m)
    /\ owner[m] \in Thread => k.stat[owner[m]] # "INIT"
    /\ \A t \in Thread : Contains(k.wait[m], t) => k.prio[owner[m]] <= k.prio[t]

\* The first of a list in order is as urgent as all that follow.
LEMMA HeadLemma ==
  ASSUME NEW s \in KernelState, NEW q \in WaitQueue, InOrder(s, q), s.wait[q] # <<>>,
         NEW t, Contains(s.wait[q], t)
  PROVE  s.prio[Head(s.wait[q])] <= s.prio[t]
<1>1. /\ s.wait[q] \in Seq(Thread) /\ Head(s.wait[q]) = s.wait[q][1]
      /\ \A u \in Thread : s.prio[u] \in Int
  BY PrioAssumption DEF KernelState, Prio
<1>2. PICK i \in 1..Len(s.wait[q]) : s.wait[q][i] = t
  BY <1>1 DEF Contains
<1>3. 1 \in 1..Len(s.wait[q]) /\ s.wait[q][1] \in Thread
  BY <1>1, <1>2
<1>4. CASE i = 1
  BY <1>1, <1>2, <1>3, <1>4
<1>5. CASE 1 < i
  BY <1>1, <1>2, <1>3, <1>5 DEF InOrder
<1> QED
  BY <1>4, <1>5

\* Every step keeps Inherit, with one mutex and where a dead owner is not created again.
LEMMA InheritStep ==
  ASSUME \A m, n \in Object : m = n, "recreate" \notin Calls,
         MutexPlaces, Inherit, [MutexNext]_mutexVars
  PROVE  Inherit'
<1>0. /\ k \in KernelState /\ k.stat \in [Thread -> Stat] /\ k.prio \in [Thread -> Prio]
      /\ owner \in [Object -> Thread \cup {NoThread}] /\ \A u \in Thread : k.prio[u] \in Int
      /\ MutexPlaces' /\ WaitersOwned
  <2>1. k \in KernelState /\ owner \in [Object -> Thread \cup {NoThread}] /\ WaitersOwned
    BY DEF MutexPlaces, MutexTypeOK, Sure, Consistent
  <2>2. k.stat \in [Thread -> Stat] /\ k.prio \in [Thread -> Prio]
    BY <2>1 DEF KernelState
  <2>3. \A u \in Thread : k.prio[u] \in Int
    BY <2>2, PrioAssumption DEF Prio
  <2> QED
    BY <2>1, <2>2, <2>3, MutexPlacesStep
<1>1. CASE UNCHANGED <<k, owner>>
  BY <1>1 DEF Inherit, InOrder
<1>2. CASE Next /\ UNCHANGED mutexes
  <2>1. Moved /\ Sure(k') /\ OrderKept(k, k')
    BY <1>0, <1>2, SchedulerStep DEF Moved, MutexPlaces
  <2> SUFFICES ASSUME NEW m \in Object
               PROVE  /\ InOrder(k', m)
                      /\ owner[m] \in Thread => k'.stat[owner[m]] # "INIT"
                      /\ \A t \in Thread : Contains(k'.wait[m], t) =>
                           k'.prio[owner[m]] <= k'.prio[t]
    BY <1>2 DEF Inherit, mutexes, InOrder
  <2>2. InOrder(k', m)
    BY <2>1, MutexLemma DEF Inherit, OrderKept
  <2>3. owner[m] \in Thread => k'.stat[owner[m]] # "INIT" /\ k'.prio[owner[m]] = k.prio[owner[m]]
    BY <2>1 DEF Moved, Dated, Inherit
  <2>4. ASSUME NEW t \in Thread, Contains(k'.wait[m], t)
        PROVE  k'.prio[owner[m]] <= k'.prio[t]
    <3>1. Contains(k.wait[m], t)
      BY <2>1, <2>4, NoNewWaiterLemma
    <3>2. k.stat[t] = "BLOCK"
      BY <3>1, MutexLemma DEF MutexPlaces, Sure, Consistent, Agree, WaitsAgree, Linked
    <3>3. k'.prio[t] = k.prio[t]
      BY <2>1, <3>2 DEF Moved, Dated
    <3> QED
      BY <1>0, <2>3, <3>1, <3>3 DEF Inherit, WaitersOwned
  <2> QED
    BY <2>2, <2>3, <2>4
<1>3. ASSUME NEW m \in Object, LockFree(m) PROVE Inherit'
  <2> DEFINE c == k.cur
  <2>1. /\ UNCHANGED k /\ c \in Thread /\ owner[m] = NoThread /\ k.stat[c] = "RUNNING"
        /\ owner' = [owner EXCEPT ![m] = c]
    BY <1>3, LockFreeStep, OwnCodeLemma DEF LockFree, InOwnCode
  <2> HIDE DEF c
  <2>2. \A t \in Thread : ~Contains(k.wait[m], t)
    BY <1>0, <2>1, MutexLemma DEF WaitersOwned
  <2> QED
    BY <1>0, <2>1, <2>2 DEF Inherit, InOrder
\* A lock makes the owner as urgent as the thread that asks and as the waiters.
<1>4. ASSUME NEW m \in Object, owner[m] \in Thread, UNCHANGED owner,
             k.cur \in Thread \ {owner[m]}, k'.stat[owner[m]] # "INIT",
             NEW p \in Prio, k'.prio = [k.prio EXCEPT ![owner[m]] = p],
             p <= k.prio[owner[m]], p <= k.prio[k.cur], InOrder(k', m),
             \A t \in Thread : Contains(k'.wait[m], t) => t = k.cur \/ Contains(k.wait[m], t)
      PROVE  Inherit'
  <2> SUFFICES ASSUME NEW t \in Thread, Contains(k'.wait[m], t)
               PROVE  k'.prio[owner[m]] <= k'.prio[t]
    BY <1>4 DEF Inherit, InOrder
  <2>1. t # owner[m]
    BY <1>0, <1>4 DEF WaitersOwned
  <2>2. k.prio[owner[m]] <= k.prio[t] \/ t = k.cur
    BY <1>4 DEF Inherit
  <2>3. k'.prio[owner[m]] = p /\ k'.prio[t] = k.prio[t]
    BY <1>0, <1>4, <2>1
  <2>4. p \in Int /\ k.prio[t] \in Int /\ k.prio[owner[m]] \in Int
    BY <1>0, <1>4, PrioAssumption DEF Prio
  <2> QED
    BY <1>4, <2>2, <2>3, <2>4
<1>5. ASSUME NEW m \in Object, LockOwned(m, 0) PROVE Inherit'
  <2>1. /\ k.cur \in Thread /\ owner[m] \in Thread \ {k.cur} /\ UNCHANGED owner
        /\ k'.wait = k.wait /\ k'.stat[owner[m]] = k.stat[owner[m]]
    BY <1>5, LockRefusedStep
  <2>2. PICK p \in Prio : /\ k'.prio = [k.prio EXCEPT ![owner[m]] = p]
                          /\ p <= k.prio[owner[m]] /\ p <= k.prio[k.cur]
    BY <1>5, LockRefusedStep
  <2>3. InOrder(k', m)
    <3> SUFFICES ASSUME NEW i \in DOMAIN k.wait[m], NEW j \in DOMAIN k.wait[m], i < j
                 PROVE  k'.prio[k.wait[m][i]] <= k'.prio[k.wait[m][j]]
      BY <2>1 DEF InOrder
    <3>1. k.wait[m] \in Seq(Thread)
      BY <1>0, MutexLemma DEF KernelState
    <3>2. /\ k.wait[m][i] \in Thread /\ k.wait[m][j] \in Thread
          /\ k.wait[m][i] # owner[m] /\ k.wait[m][j] # owner[m]
      BY <1>0, <3>1 DEF Contains, WaitersOwned
    <3> QED
      BY <1>0, <2>2, <3>2 DEF Inherit, InOrder
  <2>4. k'.stat[owner[m]] # "INIT"
    BY <2>1 DEF Inherit
  <2> QED
    BY <1>4, <2>1, <2>2, <2>3, <2>4
<1>6. ASSUME NEW m \in Object, NEW timeout \in LockTimeouts \ {0}, LockOwned(m, timeout)
      PROVE  Inherit'
  <2>1. /\ k.cur \in Thread /\ owner[m] \in Thread \ {k.cur} /\ UNCHANGED owner
        /\ \A u \in Thread \ {k.cur} : WaitsAlike(k, k', u)
        /\ InOrder(k, m) => InOrder(k', m)
    BY <1>6, LockWaitsStep
  <2>2. PICK p \in Prio : /\ k'.prio = [k.prio EXCEPT ![owner[m]] = p]
                          /\ p <= k.prio[owner[m]] /\ p <= k.prio[k.cur]
    BY <1>6, LockWaitsStep
  <2>3. /\ k'.stat[owner[m]] # "INIT"
        /\ \A t \in Thread : Contains(k'.wait[m], t) => t = k.cur \/ Contains(k.wait[m], t)
    BY <2>1, MutexLemma DEF WaitsAlike, Inherit
  <2> QED
    BY <1>4, <2>1, <2>2, <2>3 DEF Inherit
<1>7. CASE LockReturn
  BY <1>1, <1>7, LockReturnStep
\* An unlock hands over to the first waiter, who is as urgent as the others.
<1>8. ASSUME NEW m \in Object, nd_mutex_unlock(m) PROVE Inherit'
  <2> DEFINE c == k.cur
  <2>1. /\ c \in Thread /\ owner[m] = c /\ k.stat[c] = "RUNNING"
        /\ \A q \in WaitQueue : ~Contains(k.wait[q], c)
        /\ InOrder(k, m) => InOrder(k', m)
    BY <1>8, OwnCodeLemma, UnlockStep DEF nd_mutex_unlock, InOwnCode
  <2>2. PICK p \in Prio : k'.prio = [k.prio EXCEPT ![c] = p]
    BY <1>8, UnlockStep
  <2>3. PICK h \in Thread \cup {NoThread} : Passes(m, h)
    BY <1>8, UnlockStep
  <2> HIDE DEF c
  <2>4. owner' = [owner EXCEPT ![m] = h] /\ owner'[m] = h
    BY <1>0, <2>3 DEF Passes
  <2>5. h \in Thread => k'.stat[h] # "INIT"
    BY <2>3 DEF Passes
  <2>6. ASSUME NEW t \in Thread, Contains(k'.wait[m], t) PROVE k'.prio[h] <= k'.prio[t]
    <3>1. h \in Thread \ {t}
      BY <1>0, <2>4, <2>6 DEF MutexPlaces, WaitersOwned
    <3>2. Contains(k.wait[m], t)
      BY <2>3, <2>6, <3>1, MutexLemma DEF Passes, WaitsAlike
    <3>3. k.wait[m] # <<>> /\ h = Head(k.wait[m]) /\ h # k.cur
      BY <2>3, <3>1 DEF Passes
    <3>4. k.prio[h] <= k.prio[t]
      BY <1>0, <3>2, <3>3, MutexLemma, HeadLemma DEF Inherit
    <3>5. t # c /\ h # c
      BY <2>1, <3>2, <3>3, MutexLemma DEF c
    <3> QED
      BY <1>0, <2>2, <3>1, <3>4, <3>5
  <2> QED
    BY <2>1, <2>4, <2>5, <2>6 DEF Inherit, InOrder
<1> QED
  BY <1>1, <1>2, <1>3, <1>5, <1>6, <1>7, <1>8, MutexNextForm DEF mutexVars

\* The owner is at least as urgent as everybody who waits, so that no thread of a priority
\* in between can hold a waiter up, however locks, hand-overs, timeouts, suspensions and
\* aborts interleave: for one mutex.
THEOREM Inheritance ==
  ASSUME \A m, n \in Object : m = n
  PROVE  MutexSpec => []OwnerInherits
<1>1. MutexInit => Inherit
  <2> SUFFICES ASSUME MutexInit PROVE Inherit
    OBVIOUS
  <2>1. /\ k.wait = [q \in WaitQueue |-> <<>>] /\ owner = [m \in Object |-> NoThread]
    BY DEF MutexInit, Init
  <2> QED
    BY <2>1, MutexLemma DEF Inherit, InOrder, Contains
<1>2. MutexPlaces /\ Inherit /\ [MutexNext]_mutexVars => Inherit'
  BY InheritStep, OwnersStay
<1>3. MutexPlaces /\ Inherit => OwnerInherits
  <2> SUFFICES ASSUME MutexPlaces, Inherit, NEW m \in Object, NEW t \in Range(k.wait[m])
               PROVE  k.prio[owner[m]] <= k.prio[t]
    BY DEF OwnerInherits
  <2>1. k.wait[m] \in Seq(Thread)
    BY MutexLemma DEF MutexPlaces, Sure, Consistent, KernelState
  <2>2. t \in Thread /\ Contains(k.wait[m], t)
    BY <2>1 DEF Range, Contains
  <2> QED
    BY <2>2 DEF Inherit
<1> QED
  BY <1>1, <1>2, <1>3, MutexInitLemma, MutexPlacesStep, PTL DEF MutexSpec

=============================================================================
