----------------------------- MODULE NdSemProofs -----------------------------
(***************************************************************************)
(* The semaphore over the scheduler: the kernel's tables agree whatever    *)
(* clients do; no unit is lost, lies idle or is taken twice, so that the   *)
(* semaphore implements CountingSem, where no client suspends or aborts a  *)
(* thread that may be inside nd_sem_take.                                  *)
(***************************************************************************)
EXTENDS NdSem, NdSchedProofs

\* The kernel under the semaphore's calls: as WaitInv, but threads may be inside a take.
SemPlaces ==
  /\ Sure(k) /\ Placed(k, inside) /\ Sorted(k)
  /\ inside \in [Thread -> WaitQueue \cup {NoThread}]

\* The units: each is in val or was handed to a thread that is about to return.
SemUnits == /\ val \in Nat /\ IsFiniteSet(Granted)
            /\ UnitsKept /\ NoIdleUnits

\* The semaphore is an object, and no thread.
LEMMA SemLemma ==
  /\ sem \in Object /\ sem \in WaitQueue /\ sem \notin Thread /\ sem # NoThread
  /\ NoThread \notin Thread /\ Thread \subseteq WaitQueue
  BY SemAssumption, ObjectAssumption, ThreadAssumption DEF WaitQueue

-----------------------------------------------------------------------------
(* Each call *)

\* A take that waits: the running thread joins the waiters, the others stay as they are.
LEMMA TakeWaitsStep ==
  ASSUME SemPlaces, NEW timeout \in TakeTimeouts, TakeWaits(timeout)
  PROVE  /\ SemPlaces'
         /\ k.cur \in Thread /\ inside[k.cur] = NoThread /\ k'.stat[k.cur] = "BLOCK"
         /\ \A u \in Thread \ {k.cur} : WaitsAlike(k, k', u) /\ inside'[u] = inside[u]
<1> DEFINE c == k.cur
<1>1. /\ InThread(k) /\ c # Idle /\ inside[c] = NoThread
      /\ k' = nd_scheduler(nd_thread_pend(k, sem, timeout))
      /\ inside' = [inside EXCEPT ![c] = sem]
  BY DEF TakeWaits, InOwnCode
<1>2. /\ Sure(k) /\ Placed(k, inside) /\ Sorted(k)
      /\ inside \in [Thread -> WaitQueue \cup {NoThread}]
  BY DEF SemPlaces
<1>3. c \in Thread \ {Idle} /\ k.stat[c] = "RUNNING" /\ Consistent(k)
  BY <1>1, <1>2, InThreadLemma DEF Sure
<1>4. timeout \in Nat \cup {Forever}
  BY SemAssumption, DelayAssumption
<1>5. /\ Sure(k') /\ WaitsKept(k, k', c) /\ k'.stat[c] = "BLOCK"
      /\ \A p \in WaitQueue : Contains(k'.wait[p], c) <=> p = sem
  <2>1. ~Deferred \/ IsrCalls \subseteq {"resume"} => Steady(k)
    BY <1>2 DEF Sure
  <2> QED
    BY <1>1, <1>3, <1>4, <2>1, SemLemma, PendStep
<1> HIDE DEF c
<1>6. inside'[c] = sem /\ inside' \in [Thread -> WaitQueue \cup {NoThread}]
  BY <1>1, <1>2, <1>3, SemLemma
<1>7. WaitsWhere(k', c, inside'[c])
  BY <1>5, <1>6, SemLemma DEF WaitsWhere
<1>8. \A u \in Thread \ {c} : WaitsAlike(k, k', u) /\ inside'[u] = inside[u]
  BY <1>1, <1>2, <1>5 DEF WaitsKept
<1>9. Placed(k', inside') /\ Sorted(k')
  BY <1>2, <1>5, <1>7, <1>8, PlacedLemma DEF WaitsKept, Sorted, OrderKept
<1> QED
  BY <1>1, <1>3, <1>5, <1>6, <1>8, <1>9 DEF SemPlaces, c

\* A take returns: nothing but inside changes.
LEMMA TakeReturnStep ==
  ASSUME SemPlaces, TakeReturn
  PROVE  SemPlaces' /\ k.cur \in Thread /\ k.stat[k.cur] = "RUNNING"
<1> DEFINE c == k.cur
<1>1. /\ InThread(k) /\ inside' = [inside EXCEPT ![c] = NoThread] /\ UNCHANGED k
  BY DEF TakeReturn
<1>2. /\ Sure(k) /\ Placed(k, inside) /\ Sorted(k)
      /\ inside \in [Thread -> WaitQueue \cup {NoThread}]
  BY DEF SemPlaces
<1>3. c \in Thread /\ k.stat[c] = "RUNNING"
  BY <1>1, <1>2, InThreadLemma
<1> HIDE DEF c
<1>4. inside'[c] = NoThread /\ inside' \in [Thread -> WaitQueue \cup {NoThread}] /\ Sure(k')
  BY <1>1, <1>2, <1>3
<1>5. WaitsWhere(k', c, inside'[c])
  BY <1>1, <1>3, <1>4, FreeWhereLemma
<1>6. \A u \in Thread \ {c} : WaitsAlike(k, k', u) /\ inside'[u] = inside[u]
  BY <1>1, <1>2 DEF WaitsAlike
<1>7. Placed(k', inside')
  BY <1>2, <1>5, <1>6, PlacedLemma
<1> QED
  BY <1>1, <1>2, <1>3, <1>4, <1>7 DEF SemPlaces, c

\* A release that wakes: the first waiter, and nobody else, is handed the unit.
LEMMA ReleaseWakesStep ==
  ASSUME SemPlaces, k.wait[sem] # <<>>, k' = nd_scheduler(nd_thread_wakeup(k, sem)),
         UNCHANGED inside, NEW h, h = Head(k.wait[sem])
  PROVE  /\ SemPlaces'
         /\ h \in Thread /\ k.stat[h] = "BLOCK" /\ inside[h] = sem
         /\ k'.stat[h] \in {"READY", "RUNNING"} /\ k'.error[h] = "EOK"
         /\ \A u \in Thread \ {h} : WaitsAlike(k, k', u)
<1>1. /\ Sure(k) /\ Placed(k, inside) /\ Sorted(k) /\ Consistent(k)
      /\ inside \in [Thread -> WaitQueue \cup {NoThread}]
      /\ ~Deferred \/ IsrCalls \subseteq {"resume"} => Steady(k)
  BY DEF SemPlaces, Sure
<1>2. /\ Sure(k') /\ WaitsKept(k, k', h)
      /\ h \in Thread /\ Contains(k.wait[sem], h) /\ k.stat[h] = "BLOCK"
      /\ k'.stat[h] \in {"READY", "RUNNING"} /\ k'.error[h] = "EOK"
  BY <1>1, SemLemma, WakeStep
<1>3. inside[h] = sem
  BY <1>1, <1>2, SemLemma DEF Placed, WaitsWhere
<1>4. WaitsWhere(k', h, inside'[h])
  BY <1>2, FreeWhereLemma
<1>5. \A u \in Thread \ {h} : WaitsAlike(k, k', u) /\ inside'[u] = inside[u]
  BY <1>2 DEF WaitsKept
<1>6. Placed(k', inside') /\ Sorted(k')
  BY <1>1, <1>2, <1>4, <1>5, PlacedLemma DEF WaitsKept, Sorted, OrderKept
<1> QED
  BY <1>1, <1>2, <1>3, <1>5, <1>6 DEF SemPlaces

\* A step of the scheduler.
LEMMA SchedulerStep ==
  ASSUME SemPlaces, Next PROVE SemPlaces' /\ Moved
<1>1. /\ Sure(k) /\ Placed(k, inside) /\ Sorted(k)
      /\ inside \in [Thread -> WaitQueue \cup {NoThread}]
  BY DEF SemPlaces
<1>2. Moved /\ Sure(k')
  BY <1>1, MovedStep, SureStep
<1>3. inside' \in [Thread -> WaitQueue \cup {NoThread}]
  <2>1. Thread \cup {NoThread} \subseteq WaitQueue \cup {NoThread}
    BY SemLemma
  <2> QED
    BY <1>1, <2>1, InsideLemma
<1> QED
  BY <1>1, <1>2, <1>3 DEF Moved, SemPlaces, Sorted, OrderKept

-----------------------------------------------------------------------------
(* The kernel *)

\* Every step keeps SemPlaces.
LEMMA SemPlacesStep == SemPlaces /\ [SemNext]_semVars => SemPlaces'
<1> SUFFICES ASSUME SemPlaces, [SemNext]_semVars PROVE SemPlaces'
  OBVIOUS
<1>1. CASE UNCHANGED <<k, inside>>
  BY <1>1 DEF SemPlaces
<1>2. CASE Next
  BY <1>2, SchedulerStep
<1>3. ASSUME NEW timeout \in TakeTimeouts, nd_sem_take(timeout) PROVE SemPlaces'
  BY <1>1, <1>3, TakeWaitsStep DEF nd_sem_take, TakeNow
<1>4. CASE TakeReturn
  BY <1>4, TakeReturnStep
<1>5. CASE nd_sem_release
  BY <1>1, <1>5, ReleaseWakesStep DEF nd_sem_release
<1> QED
  BY <1>1, <1>2, <1>3, <1>4, <1>5 DEF SemNext, semVars

\* After nd_scheduler_init and nd_sem_init.
LEMMA SemInitLemma == SemInit => SemPlaces /\ SemUnits
<1> SUFFICES ASSUME SemInit PROVE SemPlaces /\ SemUnits
  OBVIOUS
<1>1. WaitInv
  BY WaitInitLemma DEF SemInit
<1>2. SemPlaces
  BY <1>1, KernelInvForm DEF WaitInv, SemPlaces
<1>3. inside = [t \in Thread |-> NoThread] /\ k.wait = [q \in WaitQueue |-> <<>>]
  BY DEF SemInit, Init
<1>4. Granted = {} /\ k.wait[sem] = <<>>
  BY <1>3, SemLemma DEF Granted
<1>5. val \in Nat /\ units = val
  BY SemAssumption DEF SemInit
<1> QED
  BY <1>2, <1>4, <1>5, FS_EmptySet DEF SemUnits, UnitsKept, NoIdleUnits

\* The kernel's tables agree and every thread is where its call put it, whatever clients
\* and handlers do.
THEOREM SemKernel == SemSpec => []SemPlaces
  BY SemInitLemma, SemPlacesStep, PTL DEF SemSpec

-----------------------------------------------------------------------------
(* The units *)

\* Whom a step leaves alone keeps the unit it was handed, and gets none.
LEMMA GrantedLemma ==
  ASSUME NEW t,
         \A u \in Thread \ {t} : (u \in Granted) <=> (u \in Granted)'
  PROVE  /\ Granted' \ {t} = Granted \ {t}
         /\ t \notin Granted /\ t \notin Granted' => Granted' = Granted
  BY DEF Granted

\* Every step keeps the units, where nobody is suspended or aborted inside a take.
LEMMA SemUnitsStep ==
  ASSUME {"suspend", "abort"} \cap (Calls \cup IsrCalls) = {},
         SemPlaces, SemUnits, [SemNext]_semVars
  PROVE  SemUnits' /\ [Abstract!SemTake \/ Abstract!SemRelease]_units
<1> DEFINE Steps == SemUnits' /\ [Abstract!SemTake \/ Abstract!SemRelease]_units
<1>0. /\ val \in Nat /\ IsFiniteSet(Granted) /\ Cardinality(Granted) \in Nat
      /\ units = val + Cardinality(Granted) /\ (val > 0 => k.wait[sem] = <<>>)
  BY FS_CardinalityType DEF SemUnits, UnitsKept, NoIdleUnits
<1>1. ASSUME Granted' = Granted, UNCHANGED <<val, units>>, val > 0 => k'.wait[sem] = <<>>
      PROVE  Steps
  BY <1>0, <1>1 DEF SemUnits, UnitsKept, NoIdleUnits
<1>2. CASE UNCHANGED semVars
  <2>1. Granted' = Granted
    BY <1>2 DEF Granted, semVars
  <2> QED
    BY <1>0, <1>1, <1>2, <2>1 DEF semVars
<1>3. CASE Next /\ UNCHANGED <<val, units>>
  <2>1. Moved /\ Sure(k')
    BY <1>3, SchedulerStep DEF SemPlaces
  <2>2. ASSUME NEW t \in Thread PROVE (t \in Granted) <=> (t \in Granted)'
    <3>1. Alike(t) \/ Elsewhere(t) \/ TimesOut(t) \/ Resumes(t)
      BY <2>1 DEF Moved, Moves, Suspends, Aborts
    <3> QED
      BY <3>1, SemLemma
         DEF Granted, Alike, WaitsAlike, Elsewhere, TimesOut, Resumes
  <2>3. Granted' = Granted
    BY <2>2 DEF Granted
  <2>4. val > 0 => k'.wait[sem] = <<>>
    BY <1>0, <2>1, StaysEmptyLemma, SemLemma
  <2> QED
    BY <1>1, <1>3, <2>3, <2>4
<1>4. CASE TakeNow
  <2>1. Granted' = Granted /\ val > 0 /\ val' = val - 1 /\ units' = units - 1 /\ UNCHANGED k
    BY <1>4 DEF TakeNow, Granted
  <2>2. Abstract!SemTake
    BY <1>0, <2>1 DEF Abstract!SemTake
  <2> QED
    BY <1>0, <2>1, <2>2 DEF SemUnits, UnitsKept, NoIdleUnits
<1>5. ASSUME NEW timeout \in TakeTimeouts, TakeWaits(timeout) PROVE Steps
  <2> DEFINE c == k.cur
  <2>1. /\ c \in Thread /\ inside[c] = NoThread /\ k'.stat[c] = "BLOCK"
        /\ \A u \in Thread \ {c} : WaitsAlike(k, k', u) /\ inside'[u] = inside[u]
    BY <1>5, TakeWaitsStep
  <2> HIDE DEF c
  <2>2. Granted' = Granted
    <3>1. \A u \in Thread \ {c} : (u \in Granted) <=> (u \in Granted)'
      BY <2>1 DEF Granted, WaitsAlike
    <3>2. c \notin Granted /\ c \notin Granted'
      BY <2>1, SemLemma DEF Granted
    <3> QED
      BY <3>1, <3>2, GrantedLemma
  <2>3. UNCHANGED <<val, units>> /\ ~(val > 0)
    BY <1>0, <1>5 DEF TakeWaits
  <2> QED
    BY <1>1, <2>2, <2>3
<1>6. CASE TakeReturn
  <2> DEFINE c == k.cur
  <2>0. c \in Thread /\ k.stat[c] = "RUNNING" /\ inside \in [Thread -> WaitQueue \cup {NoThread}]
    BY <1>6, TakeReturnStep DEF SemPlaces
  <2>1. /\ inside[c] = sem /\ inside' = [inside EXCEPT ![c] = NoThread]
        /\ units' = (IF k.error[c] = "EOK" THEN units - 1 ELSE units)
        /\ UNCHANGED <<k, val>>
    BY <1>6 DEF TakeReturn
  <2> HIDE DEF c
  <2>2. Granted' = Granted \ {c}
    BY <2>0, <2>1, SemLemma DEF Granted
  <2>3. CASE k.error[c] = "EOK"
    <3>1. c \in Granted
      BY <2>0, <2>1, <2>3 DEF Granted
    <3>2. IsFiniteSet(Granted \ {c}) /\ Cardinality(Granted \ {c}) = Cardinality(Granted) - 1
      BY <1>0, <3>1, FS_RemoveElement
    <3>3. Cardinality(Granted) > 0
      BY <1>0, <3>1, FS_EmptySet
    <3>4. Abstract!SemTake
      BY <1>0, <2>1, <2>3, <3>3 DEF Abstract!SemTake
    <3> QED
      BY <1>0, <2>1, <2>2, <2>3, <3>2, <3>4 DEF SemUnits, UnitsKept, NoIdleUnits
  <2>4. CASE k.error[c] # "EOK"
    <3>1. Granted' = Granted
      BY <2>2, <2>4 DEF Granted
    <3> QED
      BY <1>0, <1>1, <2>1, <2>4, <3>1
  <2> QED
    BY <2>3, <2>4
<1>7. CASE nd_sem_release
  <2>1. units' = units + 1 /\ UNCHANGED inside
    BY <1>7 DEF nd_sem_release
  <2>2. Abstract!SemRelease
    BY <2>1 DEF Abstract!SemRelease
  <2>3. CASE k.wait[sem] = <<>> /\ val' = val + 1 /\ UNCHANGED k
    <3>1. Granted' = Granted
      BY <2>1, <2>3 DEF Granted
    <3> QED
      BY <1>0, <2>1, <2>2, <2>3, <3>1 DEF SemUnits, UnitsKept, NoIdleUnits
  <2>4. CASE /\ k.wait[sem] # <<>> /\ k' = nd_scheduler(nd_thread_wakeup(k, sem))
             /\ UNCHANGED val
    <3> DEFINE h == Head(k.wait[sem])
    <3>1. /\ h \in Thread /\ k.stat[h] = "BLOCK" /\ inside[h] = sem
          /\ k'.stat[h] \in {"READY", "RUNNING"} /\ k'.error[h] = "EOK"
          /\ \A u \in Thread \ {h} : WaitsAlike(k, k', u)
      BY <2>1, <2>4, ReleaseWakesStep
    <3> HIDE DEF h
    <3>2. h \notin Granted /\ h \in Granted'
      BY <2>1, <3>1 DEF Granted
    <3>3. \A u \in Thread \ {h} : (u \in Granted) <=> (u \in Granted)'
      BY <2>1, <3>1 DEF Granted, WaitsAlike
    <3>4. Granted' = Granted \cup {h}
      BY <3>2, <3>3, GrantedLemma
    <3>5. /\ IsFiniteSet(Granted \cup {h})
          /\ Cardinality(Granted \cup {h}) = Cardinality(Granted) + 1
      BY <1>0, <3>2, FS_AddElement
    <3>6. ~(val > 0)
      BY <1>0, <2>4
    <3> QED
      BY <1>0, <2>1, <2>2, <2>4, <3>4, <3>5, <3>6 DEF SemUnits, UnitsKept, NoIdleUnits
  <2> QED
    BY <1>7, <2>3, <2>4 DEF nd_sem_release
<1> QED
  BY <1>2, <1>3, <1>4, <1>5, <1>6, <1>7 DEF SemNext, nd_sem_take

-----------------------------------------------------------------------------
(* A switch that is left to PendSV *)

\* A take that waits and a release that wakes leave a pending switch alone, but for what
\* nd_scheduler chooses or asks for.
LEMMA PendTurn ==
  ASSUME NEW timeout
  PROVE  /\ HasTurn(k) => SameTurn(k, nd_thread_pend(k, sem, timeout))
         /\ HasTurn(k) => SameLists(k, nd_thread_pend(k, sem, timeout))
<1> SUFFICES ASSUME HasTurn(k)
             PROVE  LET x == nd_thread_pend(k, sem, timeout)
                    IN SameTurn(k, x) /\ SameLists(k, x)
  OBVIOUS
<1> DEFINE c == k.cur
           w == WaitInsert(k, sem, c)
           s == [w EXCEPT !.error[c] = "EOK", !.stat[c] = "BLOCK"]
           y == nd_timer_start(s, c, "pend", timeout)
<1>1. SameTurn(k, w) /\ SameLists(k, w) /\ HasTurn(w)
  BY TurnKept, TurnThen
<1> HIDE DEF w
<1>2. SameTurn(k, s) /\ SameLists(k, s) /\ HasTurn(s)
  BY <1>1 DEF SameTurn, SameLists, HasTurn, TurnFields
<1>3. SameTurn(k, y) /\ SameLists(k, y)
  <2> HIDE DEF s
  <2> QED
    BY <1>2, TurnKept, TurnThen
<1>4. nd_thread_pend(k, sem, timeout) = IF timeout = Forever THEN s ELSE y
  BY DEF nd_thread_pend, w
<1> HIDE DEF s, y
<1> QED
  BY <1>2, <1>3, <1>4

LEMMA WakeTurn ==
  ASSUME HasTurn(k), HeadsFit(k), Head(k.wait[sem]) \in Thread
  PROVE  LET x == nd_thread_wakeup(k, sem) IN SameTurn(k, x) /\ HeadsFit(x)
<1> DEFINE t == Head(k.wait[sem])
           p == nd_timer_stop(k, t, FALSE)
           s == [p EXCEPT !.error[t] = "EOK", !.stat[t] = "READY"]
           w == WaitRemove(s, t)
           x == nd_thread_ready_add_tail(w, t)
<1>1. SameTurn(k, p) /\ SameLists(k, p) /\ HasTurn(p)
  BY TurnKept, TurnThen
<1> HIDE DEF p
<1>2. SameTurn(k, s) /\ SameLists(k, s) /\ HasTurn(s)
  BY <1>1 DEF SameTurn, SameLists, HasTurn, TurnFields
<1>3. SameTurn(k, w) /\ SameLists(k, w) /\ HasTurn(w)
  <2> HIDE DEF s, t
  <2> QED
    BY <1>2, TurnKept, TurnThen
<1>4. nd_thread_wakeup(k, sem) = x
  BY DEF nd_thread_wakeup, p
<1> HIDE DEF w
<1>5. HeadsFit(w)
  BY <1>3, FitsAlike DEF SameTurn
<1>6. t \in Thread
  OBVIOUS
<1> HIDE DEF t
<1>7. SameTurn(w, x) /\ HeadsFit(x)
  BY <1>3, <1>5, <1>6, TurnKept, AddedFits
<1> HIDE DEF x
<1>8. SameTurn(k, x)
  BY <1>3, <1>7, TurnThen
<1> QED
  BY <1>4, <1>7, <1>8

\* Every step keeps SwitchKept.
LEMMA SemSwitchStep ==
  ASSUME IsrCalls \subseteq {"resume"}, Deferred, SemPlaces, SwitchKept(k), [SemNext]_semVars
  PROVE  SwitchKept(k')
<1>1. Sure(k) /\ HasTurn(k) /\ HeadsFit(k)
  BY SureFits DEF SemPlaces
<1>2. CASE UNCHANGED k
  BY <1>2
<1>3. CASE Next
  BY <1>1, <1>3, FirstStep
<1>4. ASSUME NEW timeout, TakeWaits(timeout) PROVE SwitchKept(k')
  <2> DEFINE x == nd_thread_pend(k, sem, timeout)
  <2>1. InThread(k) /\ k' = nd_scheduler(x)
    BY <1>4 DEF TakeWaits, InOwnCode
  <2>2. SameTurn(k, x) /\ SameLists(k, x)
    BY <1>1, PendTurn
  <2> HIDE DEF x
  <2> QED
    BY <1>1, <2>1, <2>2, CallFirstAlike
<1>5. ASSUME InOwnCode \/ InHandler(k), k.wait[sem] # <<>>,
             k' = nd_scheduler(nd_thread_wakeup(k, sem))
      PROVE  SwitchKept(k')
  <2> DEFINE x == nd_thread_wakeup(k, sem)
  <2>1. Head(k.wait[sem]) \in Thread
    <3>1. k.wait[sem] \in Seq(Thread)
      BY <1>1, SemLemma DEF Sure, Consistent, KernelState
    <3> QED
      BY <1>5, <3>1
  <2>2. SameTurn(k, x) /\ HeadsFit(x)
    BY <1>1, <2>1, WakeTurn
  <2>3. InThread(k) \/ InHandler(k)
    BY <1>5 DEF InOwnCode
  <2> HIDE DEF x
  <2> QED
    BY <1>1, <1>5, <2>2, <2>3, CallFirst DEF x
<1>6. CASE \E timeout \in TakeTimeouts : nd_sem_take(timeout)
  BY <1>2, <1>4, <1>6 DEF nd_sem_take, TakeNow
<1>7. CASE TakeReturn \/ nd_sem_release
  BY <1>2, <1>5, <1>7 DEF TakeReturn, nd_sem_release
<1> QED
  BY ONLY [SemNext]_semVars, <1>2, <1>3, <1>6, <1>7 DEF SemNext, semVars

\* No unit is lost or lies idle, the kernel's tables agree and PendSV switches to the first
\* thread of its moment, when takes that time out meet releases of threads and of nested
\* handlers.
THEOREM SemKeepsUnits ==
  ASSUME {"suspend", "abort"} \cap (Calls \cup IsrCalls) = {}
  PROVE  SemSpec => []SemInv
<1> DEFINE Inv == SemPlaces /\ SemUnits /\ (Deferred => SwitchKept(k))
<1>0. IsrCalls \subseteq {"resume"}
  BY CallsAssumption
<1>1. ASSUME SemInit PROVE Inv
  BY <1>1, SemInitLemma DEF SemInit, Init, SwitchKept, Prepared
<1>2. ASSUME Inv, [SemNext]_semVars PROVE Inv'
  BY <1>0, <1>2, SemPlacesStep, SemUnitsStep, SemSwitchStep
<1>3. ASSUME Inv PROVE SemInv
  BY <1>3, KernelInvForm, KeptIsFirst DEF SemPlaces, SemUnits, SemInv
<1> QED
  BY <1>1, <1>2, <1>3, PTL DEF SemSpec

\* nd_sem_take returns ND_EOK once for every unit at most: the semaphore implements the
\* counting semaphore.
THEOREM SemImplements ==
  ASSUME {"suspend", "abort"} \cap (Calls \cup IsrCalls) = {}
  PROVE  SemSpec => CountsUnits
<1>1. SemInit => SemPlaces /\ SemUnits /\ units = StartVal
  BY SemInitLemma DEF SemInit
<1>2. SemPlaces /\ SemUnits /\ [SemNext]_semVars => SemPlaces' /\ SemUnits'
  BY SemPlacesStep, SemUnitsStep
<1>3. SemPlaces /\ SemUnits /\ [SemNext]_semVars =>
        [Abstract!SemTake \/ Abstract!SemRelease]_units
  BY SemUnitsStep
<1> QED
  BY <1>1, <1>2, <1>3, PTL DEF SemSpec, CountsUnits, Abstract!SemAbstract

=============================================================================
