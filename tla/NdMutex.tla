------------------------------- MODULE NdMutex -------------------------------
(***************************************************************************)
(* Mutexes with priority inheritance (nd_mutex.c) over the scheduler:      *)
(* threads lock and unlock the mutexes of Object, waiting for ever, for a  *)
(* while or not at all, beside everything NdSched lets them do.            *)
(*                                                                         *)
(* The taken list of a thread is the set of the mutexes it owns: lock,     *)
(* unlock and hand-over change owner and list together, and its order is   *)
(* never read.                                                             *)
(***************************************************************************)
EXTENDS NdSched

CONSTANT LockTimeouts      \* the timeouts lock is called with; 0 is ND_TIMEOUT_NOWAIT

VARIABLES
  owner,         \* mutex->owner
  boost,         \* mutex->priority
  holds          \* the mutexes each thread was told it has and has not unlocked

mutexes == <<owner, boost, holds>>
mutexVars == <<k, inside, owner, boost, holds>>

Lowest == MaxPrio + 1      \* ND_THREAD_PRIORITY_MAX

ASSUME LockAssumption == LockTimeouts \subseteq 0..MaxDelay \cup {Forever}
\* A thread is created with one priority, its init_priority.
ASSUME OnePriority == \A t \in Thread : \E p \in Prio : PrioChoice[t] = {p}

\* A dead owner is not created again while it has mutexes: nd_thread_init would empty its
\* taken list (nd_thread.c:268) and leave it their owner.
ASSUME OwnersStay == "recreate" \notin Calls

InitPriority(t) == CHOOSE p \in PrioChoice[t] : TRUE

\* thread->mutex.taken_list: a mutex is linked where it gets an owner and unlinked where it
\* loses one.
Taken(t) == {m \in Object : owner[m] = t}

MutexInit ==
  /\ Init
  /\ owner = [m \in Object |-> NoThread]
  /\ boost = [m \in Object |-> Lowest]
  /\ holds = [t \in Thread |-> {}]

-----------------------------------------------------------------------------
(* Priorities *)

\* Mutation of nd_thread_change_priority: a READY thread stays on its old list.
ChangeInPlace(s, t, p) == [s EXCEPT !.prio[t] = p]

nd_thread_change_priority(s, t, p) ==
  IF s.stat[t] = "READY"
  THEN nd_thread_ready_add_head([nd_thread_ready_remove(s, t) EXCEPT !.prio[t] = p], t)
  ELSE [s EXCEPT !.prio[t] = p]

\* Mutation of nd_mutex_restore_priority: a boost lasts.
BoostStays(s, t, taken) == s

nd_mutex_restore_priority(s, t, taken) ==
  [s EXCEPT !.prio[t] = Min({InitPriority(t)} \cup {boost[m] : m \in taken})]

-----------------------------------------------------------------------------
(* nd_mutex_lock, nd_mutex_unlock *)

LockFree(m) ==
  /\ InOwnCode /\ owner[m] = NoThread
  /\ owner' = [owner EXCEPT ![m] = k.cur]
  /\ holds' = [holds EXCEPT ![k.cur] = @ \cup {m}]
  /\ UNCHANGED <<k, inside, boost>>

\* Mutation of Inherits: the owner is left alone.
NeverInherits(m) == FALSE

Inherits(m) == k.prio[owner[m]] > k.prio[k.cur]
Inherited(m) ==
  IF Inherits(m) THEN nd_thread_change_priority(k, owner[m], k.prio[k.cur]) ELSE k

\* ND_EDEADLK is returned to the owner, and nothing changes.
LockOwned(m, timeout) ==
  /\ InOwnCode /\ owner[m] \notin {NoThread, k.cur}
  /\ boost' = IF Inherits(m) THEN [boost EXCEPT ![m] = k.prio[k.cur]] ELSE boost
  /\ \/ /\ timeout = 0
        /\ k' = Inherited(m)
        /\ UNCHANGED inside
     \/ /\ timeout # 0
        /\ k' = nd_scheduler(nd_thread_pend(Inherited(m), m, timeout))
        /\ inside' = [inside EXCEPT ![k.cur] = m]
  /\ UNCHANGED <<owner, holds>>

nd_mutex_lock(m, timeout) == LockFree(m) \/ LockOwned(m, timeout)

\* The blocking lock returns error: ND_EOK says that the mutex was handed over.
LockReturn ==
  LET c == k.cur
  IN /\ InThread(k) /\ inside[c] \in Object
     /\ inside' = [inside EXCEPT ![c] = NoThread]
     /\ holds' = IF k.error[c] = "EOK" THEN [holds EXCEPT ![c] = @ \cup {inside[c]}]
                                       ELSE holds
     /\ UNCHANGED <<k, owner, boost>>

\* Mutation of Release: the woken waiter has to try again, and is told that it owns it.
WakeWithoutOwner(m, s) ==
  /\ k' = IF k.wait[m] = <<>> THEN s ELSE nd_scheduler(nd_thread_wakeup(s, m))
  /\ owner' = [owner EXCEPT ![m] = NoThread]
  /\ boost' = [boost EXCEPT ![m] = Lowest]

\* With waiters the mutex is handed to the first of them and keeps its priority field.
Release(m, s) ==
  \/ /\ k.wait[m] = <<>>
     /\ k' = s
     /\ owner' = [owner EXCEPT ![m] = NoThread]
     /\ boost' = [boost EXCEPT ![m] = Lowest]
  \/ /\ k.wait[m] # <<>>
     /\ k' = nd_scheduler(nd_thread_wakeup(s, m))
     /\ owner' = [owner EXCEPT ![m] = Head(k.wait[m])]
     /\ UNCHANGED boost

\* ND_EPERM is returned to any other thread, and nothing changes.
nd_mutex_unlock(m) ==
  /\ InOwnCode /\ owner[m] = k.cur
  /\ Release(m, nd_mutex_restore_priority(k, k.cur, Taken(k.cur) \ {m}))
  /\ holds' = [holds EXCEPT ![k.cur] = @ \ {m}]
  /\ UNCHANGED inside

-----------------------------------------------------------------------------
\* nd_thread_suspend refuses a thread that has taken mutexes.
SuspendWithoutMutex(t) == Taken(t) = {} /\ nd_thread_suspend(t)

MutexNext ==
  \/ Others /\ UNCHANGED mutexes
  \/ \E t \in Thread : SuspendWithoutMutex(t) /\ UNCHANGED mutexes
  \/ \E m \in Object : \/ \E timeout \in LockTimeouts : nd_mutex_lock(m, timeout)
                       \/ nd_mutex_unlock(m)
  \/ LockReturn

MutexSpec == MutexInit /\ [][MutexNext]_mutexVars

-----------------------------------------------------------------------------
(* Properties *)

\* Every field has its type.
MutexTypeOK ==
  /\ owner \in [Object -> Thread \cup {NoThread}]
  /\ boost \in [Object -> 0..Lowest]
  /\ holds \in [Thread -> SUBSET Object]

\* Whoever nd_mutex_lock told that it has a mutex owns it: two threads are never both
\* inside, however locks, hand-overs, timeouts and preemption interleave.
HolderOwns == \A t \in Thread : \A m \in holds[t] : owner[m] = t

\* No wakeup is lost: nobody waits for a mutex that is free, and the owner of a mutex is
\* not among its waiters.
WaitersHaveOwner ==
  \A m \in Object : k.wait[m] # <<>> =>
    owner[m] # NoThread /\ ~Contains(k.wait[m], owner[m])

\* With all that, the kernel's tables still agree when lock and unlock change the
\* priority of a thread that is on a ready list.
MutexInv == KernelInv /\ MutexTypeOK /\ WaitersHaveOwner

\* An inherited priority is given back: who owns no mutex has the priority it was
\* created with.
PriorityGivenBack ==
  \A t \in Thread : k.stat[t] # "INIT" /\ Taken(t) = {} => k.prio[t] = InitPriority(t)

\* The owner of a mutex is at least as urgent as everybody who waits for it, so that no
\* thread of a priority in between can hold the waiter up.
OwnerInherits ==
  \A m \in Object : \A t \in Range(k.wait[m]) :
    owner[m] # NoThread => k.prio[owner[m]] <= k.prio[t]

-----------------------------------------------------------------------------
(* Liveness *)

\* The fairness of NdSched, and clients that sooner or later unlock what they own when
\* they are given the CPU (strong fairness, with the condition that enables unlock
\* written out).  Threads that own nothing may compute for ever.
Kept(A) == A /\ UNCHANGED mutexes
FairMutexSpec ==
  /\ MutexSpec
  /\ WF_mutexVars(Kept(nd_scheduler_start))
  /\ SF_mutexVars(Kept(EnterTick)) /\ SF_mutexVars(Kept(Exit)) /\ SF_mutexVars(Kept(PendSV))
  /\ WF_mutexVars(Kept(TimerLoop)) /\ WF_mutexVars(Kept(HaltLoop)) /\ WF_mutexVars(Kept(ExitTail))
  /\ SF_mutexVars(LockReturn)
  /\ []<>(InOwnCode /\ Taken(k.cur) # {}) =>
       []<><<\E m \in Object : nd_mutex_unlock(m)>>_mutexVars

\* Inversion is bounded: the most urgent thread gets the mutex it waits for, although
\* threads less urgent than itself, but more urgent than the owner, may never pause; only
\* a suspend takes it off the list without the mutex.
UrgentLocks ==
  \A t \in Thread, m \in Object :
    (Contains(k.wait[m], t) /\ InitPriority(t) = 0) ~>
      (owner[m] = t \/ k.stat[t] = "SUSPEND")

-----------------------------------------------------------------------------
(* What the repository says of the code and the code does not do: see README *)

\* A priority is raised for a thread that is blocked: who is more urgent than it was
\* created owns a mutex that somebody waits for.
RaisedForWaiter ==
  \A t \in Thread : k.stat[t] # "INIT" /\ k.prio[t] < InitPriority(t) =>
    \E m \in Taken(t) : k.wait[m] # <<>>

=============================================================================
