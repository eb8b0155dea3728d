-------------------------------- MODULE NdSem --------------------------------
(***************************************************************************)
(* A counting semaphore (nd_sem.c) over the scheduler: threads take and    *)
(* release it, handlers release it.  It implements CountingSem: a unit is  *)
(* taken when nd_sem_take returns ND_EOK.                                  *)
(***************************************************************************)
EXTENDS NdSched

CONSTANTS
  sem,           \* the semaphore: the only object
  StartVal,      \* init_val
  MaxVal,        \* bound on val, which nothing bounds in the code
  TakeTimeouts   \* the timeouts take is called with; 0 is ND_TIMEOUT_NOWAIT

ASSUME SemAssumption ==
  /\ Object = {sem} /\ StartVal \in 0..MaxVal /\ MaxVal \in Nat
  /\ TakeTimeouts \subseteq 0..MaxDelay \cup {Forever}

VARIABLES
  val,           \* sem->val
  units          \* history: initial units and releases, less the takes that returned ND_EOK

semVars == <<k, inside, val, units>>

SemInit == Init /\ val = StartVal /\ units = StartVal

-----------------------------------------------------------------------------
\* With nothing to take, ND_TIMEOUT_NOWAIT returns ND_EBUSY and changes nothing.
TakeNow ==
  /\ InOwnCode /\ val > 0
  /\ val' = val - 1 /\ units' = units - 1
  /\ UNCHANGED <<k, inside>>

TakeWaits(timeout) ==
  /\ InOwnCode /\ val <= 0 /\ timeout # 0
  /\ k' = nd_scheduler(nd_thread_pend(k, sem, timeout))
  /\ inside' = [inside EXCEPT ![k.cur] = sem]
  /\ UNCHANGED <<val, units>>

nd_sem_take(timeout) == TakeNow \/ TakeWaits(timeout)

\* Mutation of TakeReturn: a timeout is taken for a unit.
TimeoutTakes ==
  /\ InThread(k) /\ inside[k.cur] = sem
  /\ inside' = [inside EXCEPT ![k.cur] = NoThread]
  /\ units' = units - 1
  /\ UNCHANGED <<k, val>>

\* The blocking take returns error.
TakeReturn ==
  /\ InThread(k) /\ inside[k.cur] = sem
  /\ inside' = [inside EXCEPT ![k.cur] = NoThread]
  /\ units' = IF k.error[k.cur] = "EOK" THEN units - 1 ELSE units
  /\ UNCHANGED <<k, val>>

\* Mutation of nd_sem_release: the unit is counted while somebody waits for it.
ReleaseCounts ==
  /\ InOwnCode \/ InHandler(k)
  /\ units' = units + 1
  /\ val < MaxVal /\ val' = val + 1
  /\ UNCHANGED <<k, inside>>

nd_sem_release ==
  /\ InOwnCode \/ InHandler(k)
  /\ units' = units + 1
  /\ \/ /\ k.wait[sem] = <<>>
        /\ val < MaxVal /\ val' = val + 1
        /\ UNCHANGED k
     \/ /\ k.wait[sem] # <<>>
        /\ k' = nd_scheduler(nd_thread_wakeup(k, sem))
        /\ UNCHANGED val
  /\ UNCHANGED inside

SemNext ==
  \/ Next /\ UNCHANGED <<val, units>>
  \/ \E timeout \in TakeTimeouts : nd_sem_take(timeout)
  \/ TakeReturn
  \/ nd_sem_release

SemSpec == SemInit /\ [][SemNext]_semVars

-----------------------------------------------------------------------------
(* Properties *)

\* The semaphore implements the counting semaphore: nd_sem_take returns ND_EOK once for
\* every unit at most, whatever wakeups, timeouts and preemptions meet.
Abstract == INSTANCE CountingSem WITH Start <- StartVal
CountsUnits == Abstract!SemAbstract

\* Woken by a release, not yet returned from nd_sem_take.
Granted == {t \in Thread : inside[t] = sem /\ k.error[t] = "EOK" /\ k.stat[t] # "BLOCK"}

\* No unit is lost: each is in val or was handed to a thread that is about to return.
UnitsKept == units = val + Cardinality(Granted)

\* A unit never lies idle: nobody waits while val is positive.
NoIdleUnits == val > 0 => k.wait[sem] = <<>>

\* The kernel's tables agree, PendSV switches to the first thread of its moment, and no unit
\* is lost or lies idle, when takes that time out meet releases of threads and of nested
\* handlers.
SemInv == KernelInv /\ PreparedIsFirst /\ UnitsKept /\ NoIdleUnits

-----------------------------------------------------------------------------
(* What the repository says of the code and the code does not do: see README *)

\* The waiter a release wakes is the first of its priority to run.
WokenFirst ==
  [][LET t == Head(k.wait[sem])
     IN k.wait[sem] # <<>> /\ units' > units /\ k'.stat[t] = "READY"
          => Head(k'.ready[k'.prio[t]]) = t]_semVars

=============================================================================
