---------------------------- MODULE NdEventProofs ----------------------------
(***************************************************************************)
(* The event flags over the scheduler: the kernel's tables agree whatever  *)
(* clients do, nobody waits for what has happened, and a send accounts for *)
(* every flag.                                                             *)
(***************************************************************************)
EXTENDS NdEvent, NdSchedProofs

-----------------------------------------------------------------------------
(* One turn *)

\* nd_event_wakeup: a waiter becomes READY and no timer of its is left.
LEMMA EventWakeupLemma ==
  ASSUME NEW s, Consistent(s), NEW t \in Thread, s.stat[t] = "BLOCK",
         NEW r, r = nd_event_wakeup(s, t)
  PROVE  Readied(s, r, t)
<1> DEFINE y == WaitRemove(s, t)
           s0 == nd_timer_stop(y, t, FALSE)
           z == [s.stat EXCEPT ![t] = "READY"]
           x == [s0 EXCEPT !.stat = z]
<1>0. /\ s \in KernelState /\ OnceEach(s.timers) /\ s.stat \in [Thread -> Stat]
      /\ \A p \in WaitQueue : IsInjective(s.wait[p])
  BY DEF Consistent, Agree, KernelState, TimersAgree, WaitsAgree
<1>1. /\ y \in KernelState /\ OnlyWait(s, y) /\ Unlinked(s, y, t) /\ OrderKept(s, y)
  <2>1. y = WaitRemove(s, t)
    OBVIOUS
  <2> HIDE DEF y
  <2> QED
    BY ONLY <1>0, <2>1, t \in Thread, WaitRemoveLemma
<1> HIDE DEF y
<1>2. /\ y.stat = s.stat /\ y.prio = s.prio /\ y.error = s.error /\ y.left = s.left
      /\ y.ran = s.ran /\ y.timers = s.timers /\ y.ready = s.ready /\ y.bits = s.bits
      /\ SameControl(s, y)
  BY <1>0, <1>1, OnlyWaitFrame DEF SameControl
<1>3. /\ s0 \in KernelState /\ OnlyTimers(y, s0) /\ OnceEach(s0.timers)
      /\ InTime(y.timers) => InTime(s0.timers)
      /\ \A e : Contains(s0.timers, e) <=> Contains(y.timers, e) /\ ~SameTimer(e, t, FALSE)
  <2>1. s0 = nd_timer_stop(y, t, FALSE) /\ FALSE \in BOOLEAN /\ OnceEach(y.timers)
    BY <1>0, <1>2
  <2> HIDE DEF s0
  <2> QED
    BY ONLY <1>1, <2>1, t \in Thread, TimerStopLemma
<1> HIDE DEF s0
<1>4. /\ s0.stat = s.stat /\ s0.prio = s.prio /\ s0.error = s.error /\ s0.left = s.left
      /\ s0.ran = s.ran /\ s0.wait = y.wait /\ s0.ready = s.ready /\ s0.bits = s.bits
      /\ SameControl(s, s0)
  BY <1>1, <1>2, <1>3, OnlyTimersFrame DEF SameControl
<1>5. r = nd_thread_ready_add_tail(x, t)
  <2>1. r = nd_thread_ready_add_tail([s0 EXCEPT !.stat[t] = "READY"], t)
    BY DEF nd_event_wakeup, s0, y
  <2> QED
    BY <1>3, <1>4, <2>1 DEF KernelState
<1>6. z \in [Thread -> Stat] /\ z = [s.stat EXCEPT ![t] = "READY"]
  BY <1>0 DEF Stat
<1> HIDE DEF z
<1>7. /\ x \in KernelState /\ x.stat = z /\ x.timers = s0.timers /\ x.wait = y.wait
      /\ x.ready = s.ready /\ x.bits = s.bits /\ x.prio = s.prio /\ x.error = s.error
      /\ x.left = s.left /\ x.ran = s.ran /\ SameControl(s, x)
  BY <1>3, <1>4, <1>6 DEF KernelState, SameControl
<1> HIDE DEF x
<1>8. AccountsBut(s, x, t)
  BY <1>2, <1>3, <1>7 DEF AccountsBut
<1>9. Unlinked(s, x, t) /\ OrderKept(s, x)
  BY <1>1, <1>2, <1>7 DEF Unlinked, OrderKept, InOrder
<1>10. Untimed(s, x, t)
  BY <1>2, <1>3, <1>7 DEF Untimed, SameTimer
<1>11. /\ x.stat = [s.stat EXCEPT ![t] = "READY"] /\ s.stat[t] \in {"BLOCK", "SUSPEND"}
       /\ \A u \in Thread \ {t} : x.error[u] = s.error[u]
  BY <1>6, <1>7
<1> QED
  BY ONLY <1>5, <1>7, <1>8, <1>9, <1>10, <1>11, Consistent(s), t \in Thread, UnblockLemma

\* Whom the loop has woken when the kernel is x.
Gone(x) == {t \in Thread : Contains(k.wait[event], t) /\ ~Contains(x.wait[event], t)}

\* x is k with Gone(x) made READY.
WokenFrom(x) ==
  /\ Consistent(x) /\ SameControl(k, x) /\ (Steady(k) => Steady(x))
  /\ \A t \in Gone(x) : x.stat[t] = "READY"
  /\ \A t \in Thread \ Gone(x) : WaitsAlike(k, x, t)

\* The waiters that are still to be looked at wait, and the others do so only when the
\* flags that are left do not meet their condition.
Looked(left, x, n) ==
  /\ \A i \in DOMAIN k.wait[event] : i > n => Contains(x.wait[event], k.wait[event][i])
  /\ \A i \in DOMAIN k.wait[event] :
       i <= n /\ Contains(x.wait[event], k.wait[event][i]) => ~Sees(left, k.wait[event][i])

\* Of the flags given, those that are left were used by nobody in gone, and each of the
\* others by one of them, whose condition they met.
Accounted(flags, left, gone) ==
  /\ left \subseteq flags
  /\ \A f \in flags \ left : \E t \in gone : f \in want[t].flags
  /\ \A t \in gone : Sees(flags, t) /\ want[t].flags \cap left = {}
  /\ \A t, u \in gone :
       t # u /\ want[t].opt = "AND" /\ want[u].opt = "AND" => want[t].flags \cap want[u].flags = {}

\* What holds after n turns.
AfterTurns(flags, a, n) ==
  WokenFrom(a.s) /\ Looked(a.set, a.s, n) /\ Accounted(flags, a.set, Gone(a.s))

\* Before the first turn nobody is gone.
LEMMA BeginLemma ==
  ASSUME Consistent(k), NEW flags
  PROVE  AfterTurns(flags, [set |-> flags, s |-> k], 0)
<1>0. k.wait[event] \in Seq(Thread)
  BY EventAssumption DEF Consistent, KernelState, WaitQueue
<1>1. Gone(k) = {} /\ \A i \in DOMAIN k.wait[event] : Contains(k.wait[event], k.wait[event][i])
  BY <1>0 DEF Gone, Contains
<1>2. \A i \in DOMAIN k.wait[event] : ~(i <= 0)
  BY <1>0
<1>3. WokenFrom(k)
  BY <1>1 DEF WokenFrom, SameControl, WaitsAlike
<1>4. Looked(flags, k, 0)
  BY <1>1, <1>2 DEF Looked
<1>5. Accounted(flags, flags, Gone(k))
  BY <1>1 DEF Accounted
<1> QED
  BY <1>3, <1>4, <1>5 DEF AfterTurns

\* A waiter whose condition the flags do not meet stays, and what is left does not change.
LEMMA PassedLemma ==
  ASSUME Consistent(k), NEW flags, NEW n \in Nat, n + 1 \in DOMAIN k.wait[event],
         NEW a, AfterTurns(flags, a, n), ~Sees(a.set, k.wait[event][n + 1])
  PROVE  AfterTurns(flags, a, n + 1)
<1>0. k.wait[event] \in Seq(Thread)
  BY EventAssumption DEF Consistent, KernelState, WaitQueue
<1>1. \A i \in DOMAIN k.wait[event] :
        (i > n + 1 => i > n) /\ (i <= n + 1 => i <= n \/ i = n + 1)
  BY <1>0
<1> QED
  BY <1>1 DEF AfterTurns, Looked

\* Fewer flags meet fewer conditions.
LEMMA SeesLess ==
  ASSUME NEW flags, NEW left, left \subseteq flags, NEW t, Sees(left, t)
  PROVE  Sees(flags, t)
  BY DEF Sees, nd_event_is_satisfied

\* A waiter whose condition they meet is woken and uses up its flags.
LEMMA ServedLemma ==
  ASSUME Consistent(k), NEW flags, NEW n \in Nat, n + 1 \in DOMAIN k.wait[event],
         NEW a, AfterTurns(flags, a, n),
         NEW t, t = k.wait[event][n + 1], Sees(a.set, t),
         NEW r, r = nd_event_wakeup(a.s, t), NEW left, left = a.set \ want[t].flags
  PROVE  WokenFrom(r) /\ Looked(left, r, n + 1) /\ Accounted(flags, left, Gone(r))
<1> DEFINE x == a.s
           list == k.wait[event]
<1>0. /\ list \in Seq(Thread) /\ event \in WaitQueue /\ IsInjective(list)
      /\ k \in KernelState
  BY EventAssumption DEF Consistent, KernelState, WaitQueue, Agree, WaitsAgree
<1>1. /\ t \in Thread /\ Contains(list, t) /\ Contains(x.wait[event], t)
      /\ \A i \in DOMAIN list : (i = n + 1 <=> list[i] = t)
  <2>1. n + 1 > n
    OBVIOUS
  <2> QED
    BY <1>0, <2>1 DEF AfterTurns, Looked, Contains, IsInjective
<1>2. Consistent(x) /\ SameControl(k, x) /\ x.stat[t] = "BLOCK" /\ x.stat \in [Thread -> Stat]
      /\ (Steady(k) => Steady(x))
  BY <1>0, <1>1 DEF AfterTurns, WokenFrom, Consistent, Agree, WaitsAgree, Linked, KernelState
<1> HIDE DEF x
<1>3. Readied(x, r, t)
  <2>1. r = nd_event_wakeup(x, t)
    BY DEF x
  <2> QED
    BY ONLY <1>1, <1>2, <2>1, EventWakeupLemma
<1>4. /\ Consistent(r) /\ SameControl(x, r) /\ r.stat = [x.stat EXCEPT ![t] = "READY"]
      /\ (Steady(x) => Steady(r)) /\ \A u \in Thread \ {t} : WaitsAlike(x, r, u)
  BY <1>3 DEF Readied, WaitsKept
<1>5. /\ r.stat[t] = "READY" /\ \A u \in Thread \ {t} : r.stat[u] = x.stat[u]
      /\ ~Contains(r.wait[event], t)
  BY <1>0, <1>1, <1>2, <1>4 DEF Consistent, Agree, WaitsAgree, Linked
<1>6. \A u \in Thread : Contains(r.wait[event], u) <=> Contains(x.wait[event], u) /\ u # t
  BY <1>0, <1>4, <1>5 DEF WaitsAlike
<1>7. Gone(r) = Gone(x) \cup {t} /\ t \notin Gone(x)
  BY <1>1, <1>6 DEF Gone
<1>8. WokenFrom(r)
  <2>1. \A u \in Gone(r) : r.stat[u] = "READY"
    BY <1>1, <1>5, <1>7 DEF AfterTurns, WokenFrom, x, Gone
  <2>2. ASSUME NEW u \in Thread \ Gone(r) PROVE WaitsAlike(k, r, u)
    <3>1. WaitsAlike(k, x, u) /\ WaitsAlike(x, r, u)
      BY <1>4, <1>7, <2>2 DEF AfterTurns, WokenFrom, x
    <3> QED
      BY <3>1 DEF WaitsAlike
  <2>3. SameControl(k, r)
    BY <1>2, <1>4 DEF SameControl
  <2> QED
    BY <1>2, <1>4, <2>1, <2>2, <2>3 DEF WokenFrom
<1>9. Looked(left, r, n + 1)
  <2>1. ASSUME NEW i \in DOMAIN list, i > n + 1 PROVE Contains(r.wait[event], list[i])
    <3>1. i > n /\ i # n + 1 /\ list[i] \in Thread
      BY <1>0, <2>1
    <3>2. Contains(x.wait[event], list[i]) /\ list[i] # t
      BY <1>1, <3>1 DEF AfterTurns, Looked, x
    <3> QED
      BY <1>6, <3>1, <3>2
  <2>2. ASSUME NEW i \in DOMAIN list, i <= n + 1, Contains(r.wait[event], list[i])
        PROVE  ~Sees(left, list[i])
    <3>1. list[i] \in Thread
      BY <1>0
    <3>2. Contains(x.wait[event], list[i]) /\ list[i] # t
      BY <1>6, <2>2, <3>1
    <3>3. i <= n
      BY <1>0, <1>1, <2>2, <3>2
    <3>4. ~Sees(a.set, list[i])
      BY <3>2, <3>3 DEF AfterTurns, Looked, x
    <3> QED
      BY <3>4, SeesLess
  <2> QED
    BY <2>1, <2>2 DEF Looked
<1>10. Accounted(flags, left, Gone(r))
  <2>0. Accounted(flags, a.set, Gone(x))
    BY DEF AfterTurns, x
  <2>1. left \subseteq flags /\ Sees(flags, t) /\ want[t].flags \cap left = {}
    BY <2>0, SeesLess DEF Accounted
  <2>2. \A f \in flags \ left : \E u \in Gone(r) : f \in want[u].flags
    BY <1>7, <2>0 DEF Accounted
  <2>3. \A u \in Gone(r) : Sees(flags, u) /\ want[u].flags \cap left = {}
    BY <1>7, <2>0, <2>1 DEF Accounted
  <2>4. ASSUME NEW u \in Gone(x), want[t].opt = "AND"
        PROVE  want[t].flags \cap want[u].flags = {}
    <3>1. want[t].flags \subseteq a.set
      BY <2>4 DEF Sees, nd_event_is_satisfied
    <3>2. want[u].flags \cap a.set = {}
      BY <2>0 DEF Accounted
    <3> QED
      BY <3>1, <3>2
  <2>5. \A u, v \in Gone(r) : u # v /\ want[u].opt = "AND" /\ want[v].opt = "AND" =>
          want[u].flags \cap want[v].flags = {}
    BY <1>7, <2>0, <2>4 DEF Accounted
  <2> QED
    BY <2>1, <2>2, <2>3, <2>5 DEF Accounted
<1> QED
  BY <1>8, <1>9, <1>10

\* So one turn leads from what holds after n turns to what holds after one more.
LEMMA TurnLemma ==
  ASSUME Consistent(k), NEW flags, NEW n \in Nat, n + 1 \in DOMAIN k.wait[event],
         NEW a, AfterTurns(flags, a, n), NEW b, b = Serve(a, k.wait[event][n + 1])
  PROVE  AfterTurns(flags, b, n + 1)
<1> DEFINE t == k.wait[event][n + 1]
<1>1. CASE ~Sees(a.set, t)
  <2>1. b = a
    BY <1>1 DEF Serve, Sees
  <2> QED
    BY <1>1, <2>1, PassedLemma
<1>2. CASE Sees(a.set, t)
  <2>1. b = [set |-> a.set \ want[t].flags, s |-> nd_event_wakeup(a.s, t)]
    BY <1>2 DEF Serve, Sees
  <2>2. b.set = a.set \ want[t].flags /\ b.s = nd_event_wakeup(a.s, t)
    BY <2>1
  <2> QED
    BY <1>2, <2>2, ServedLemma DEF AfterTurns
<1> QED
  BY <1>1, <1>2

-----------------------------------------------------------------------------
(* The loop of nd_event_send *)

\* What the first n turns of the loop are, as a function f of their number.
Looped(flags, f, n) ==
  f = [i \in 0..n |-> IF i = 0 THEN [set |-> flags, s |-> k]
                               ELSE Serve(f[i - 1], k.wait[event][i])]

\* So the loop is defined by its turns.
LEMMA LoopedLemma ==
  ASSUME NEW flags, k.wait[event] \in Seq(Thread)
  PROVE  Looped(flags, Turns(flags), Len(k.wait[event]))
<1> DEFINE N == Len(k.wait[event])
           S == {n \in 0..N : \E f : Looped(flags, f, n)}
<1>1. N \in Nat
  OBVIOUS
<1>2. 0 \in S
  <2> DEFINE f == [i \in 0..0 |-> [set |-> flags, s |-> k]]
  <2>1. Looped(flags, f, 0)
    BY DEF Looped
  <2> QED
    BY <1>1, <2>1
<1>3. ASSUME NEW n \in 0..N, n < N, n \in S PROVE n + 1 \in S
  <2>1. PICK f : Looped(flags, f, n)
    BY <1>3
  <2> DEFINE g == [i \in 0..(n + 1) |->
                     IF i = n + 1 THEN Serve(f[n], k.wait[event][n + 1]) ELSE f[i]]
  <2>2. Looped(flags, g, n + 1)
    <3>1. ASSUME NEW i \in 0..(n + 1), i # 0
          PROVE  g[i] = Serve(g[i - 1], k.wait[event][i])
      <4>1. CASE i = n + 1
        BY <1>1, <4>1
      <4>2. CASE i # n + 1
        <5>1. i \in 0..n /\ i - 1 \in 0..n /\ i \in 0..(n + 1) /\ i - 1 # n + 1
          BY <3>1, <4>2
        <5>2. f[i] = Serve(f[i - 1], k.wait[event][i])
          BY <2>1, <3>1, <5>1 DEF Looped
        <5> QED
          BY <4>2, <5>1, <5>2
      <4> QED
        BY <4>1, <4>2
    <3>2. g[0] = [set |-> flags, s |-> k]
      <4>1. f[0] = [set |-> flags, s |-> k]
        BY <1>1, <2>1 DEF Looped
      <4> QED
        BY <1>1, <4>1
    <3>3. g = [i \in 0..(n + 1) |-> g[i]]
      OBVIOUS
    <3> HIDE DEF g
    <3> QED
      BY <3>1, <3>2, <3>3 DEF Looped
  <2> HIDE DEF g
  <2>3. n + 1 \in 0..N
    BY <1>1, <1>3
  <2> QED
    BY <2>2, <2>3
<1> HIDE DEF S
<1>4. N \in S
  <2>1. \A i \in 0..N : i < N /\ i \in S => i + 1 \in S
    BY <1>3
  <2> HIDE DEF N
  <2>2. \A i \in 0..N : i \in S
    BY ONLY <1>1, <1>2, <2>1, Climbs
  <2> QED
    BY <1>1, <2>2
<1>5. \E f : Looped(flags, f, N)
  BY <1>4 DEF S
<1>6. Turns(flags) = CHOOSE f : Looped(flags, f, N)
  BY DEF Turns, Looped
<1> QED
  BY <1>5, <1>6

\* What the whole loop leaves.
LEMMA LoopLemma ==
  ASSUME Consistent(k), NEW flags
  PROVE  AfterTurns(flags, Served(flags), Len(k.wait[event]))
<1> DEFINE N == Len(k.wait[event])
           f == Turns(flags)
           S == {n \in 0..N : AfterTurns(flags, f[n], n)}
<1>0. k.wait[event] \in Seq(Thread)
  BY EventAssumption DEF Consistent, KernelState, WaitQueue
<1>1. N \in Nat /\ DOMAIN k.wait[event] = 1..N
  BY <1>0
<1>2. Looped(flags, f, N)
  BY <1>0, LoopedLemma
<1> HIDE DEF f, N
<1>3. f[0] = [set |-> flags, s |-> k]
  BY <1>1, <1>2 DEF Looped
<1>4. 0 \in S
  BY <1>1, <1>3, BeginLemma
<1>5. ASSUME NEW n \in 0..N, n < N, n \in S PROVE n + 1 \in S
  <2>1. n \in Nat /\ n + 1 \in 1..N /\ n + 1 \in 0..N /\ n + 1 # 0 /\ (n + 1) - 1 = n
    BY <1>1, <1>5
  <2>2. f[n + 1] = Serve(f[(n + 1) - 1], k.wait[event][n + 1])
    BY <1>2, <2>1 DEF Looped
  <2>3. f[n + 1] = Serve(f[n], k.wait[event][n + 1])
    BY <2>1, <2>2
  <2>4. AfterTurns(flags, f[n], n)
    BY <1>5
  <2>5. AfterTurns(flags, f[n + 1], n + 1)
    BY <1>1, <2>1, <2>3, <2>4, TurnLemma
  <2> QED
    BY <2>1, <2>5
<1>6. \A i \in 0..N : i < N /\ i \in S => i + 1 \in S
  BY <1>5
<1> HIDE DEF S
<1>7. N \in S
  <2>1. \A i \in 0..N : i \in S
    BY ONLY <1>1, <1>4, <1>6, Climbs
  <2> QED
    BY <1>1, <2>1
<1>8. AfterTurns(flags, f[N], N)
  BY <1>7 DEF S
<1> QED
  BY <1>8 DEF Served, f, N

-----------------------------------------------------------------------------
(* Each call *)

\* The kernel under the calls of event flags: as WaitInv, but threads may be inside a
\* receive.
EventPlaces ==
  /\ Sure(k) /\ Placed(k, inside)
  /\ inside \in [Thread -> WaitQueue \cup {NoThread}]
  /\ want \in [Thread -> Want]

\* The event group is an object, and no thread.
LEMMA EventLemma ==
  /\ event \in Object /\ event \in WaitQueue /\ event \notin Thread /\ event # NoThread
  /\ NoThread \notin Thread /\ Thread \subseteq WaitQueue
  BY EventAssumption, ObjectAssumption, ThreadAssumption DEF WaitQueue

\* Who waits for the event group, as Waiting lists them.
LEMMA WaitingLemma ==
  ASSUME NEW x \in KernelState, NEW t
  PROVE  t \in Range(x.wait[event]) <=> t \in Thread /\ Contains(x.wait[event], t)
<1>1. x.wait[event] \in Seq(Thread)
  BY EventLemma DEF KernelState
<1> QED
  BY <1>1 DEF Range, Contains

\* A send wakes exactly those of whom the loop accounts for, and nobody else.
LEMMA SendStep ==
  ASSUME EventPlaces, NEW flags \in Masks, nd_event_send(flags)
  PROVE  /\ EventPlaces' /\ Accounted(set \cup flags, set', Waiting \ Waiting')
         /\ \A t \in Waiting' : t \in Waiting /\ ~Sees(set', t)
<1> DEFINE now == set \cup flags
           a == Served(now)
           x == a.s
<1>1. /\ set' = a.set /\ k' = nd_scheduler(x) /\ inside' = inside /\ want' = want
  BY DEF nd_event_send
<1>2. /\ Sure(k) /\ Placed(k, inside) /\ Consistent(k) /\ k \in KernelState
      /\ ~Deferred \/ IsrCalls \subseteq {"resume"} => Steady(k)
  BY DEF EventPlaces, Sure, Consistent
<1>3. AfterTurns(now, a, Len(k.wait[event]))
  BY <1>2, LoopLemma
<1> HIDE DEF now, a
<1>4. /\ Consistent(x) /\ x \in KernelState /\ (Steady(k) => Steady(x))
      /\ \A t \in Gone(x) : x.stat[t] = "READY"
      /\ \A t \in Thread \ Gone(x) : WaitsAlike(k, x, t)
  BY <1>3 DEF AfterTurns, WokenFrom, Consistent
<1>5. Accounted(now, a.set, Gone(x))
  BY <1>3 DEF AfterTurns
<1>6. \A i \in DOMAIN k.wait[event] : Contains(x.wait[event], k.wait[event][i]) =>
        ~Sees(a.set, k.wait[event][i])
  <2>1. k.wait[event] \in Seq(Thread)
    BY <1>2, EventLemma DEF KernelState
  <2>2. \A i \in DOMAIN k.wait[event] : i <= Len(k.wait[event])
    BY <2>1
  <2> QED
    BY <1>3, <2>2 DEF AfterTurns, Looked
<1> HIDE DEF x
<1>7. Sure(k') /\ WaitsKept(x, k', NoThread)
  BY <1>1, <1>2, <1>4, CallStep
<1>8. /\ \A t \in Thread : WaitsAlike(x, k', t)
      /\ k' \in KernelState
  BY <1>7, EventLemma DEF WaitsKept, Sure, Consistent
<1>9. Placed(k', inside')
  <2> SUFFICES ASSUME NEW t \in Thread PROVE WaitsWhere(k', t, inside[t])
    BY <1>1 DEF Placed
  <2>1. CASE t \in Gone(x)
    <3>1. k'.stat[t] \in {"READY", "RUNNING"}
      BY <1>4, <1>8, <2>1 DEF WaitsAlike
    <3> QED
      BY <1>7, <3>1, FreeWhereLemma
  <2>2. CASE t \notin Gone(x)
    <3>1. WaitsAlike(k, x, t) /\ WaitsAlike(x, k', t) /\ WaitsWhere(k, t, inside[t])
      BY <1>2, <1>4, <1>8, <2>2 DEF Placed
    <3> QED
      BY <3>1 DEF WaitsWhere, WaitsAlike
  <2> QED
    BY <2>1, <2>2
<1>10. \A t \in Thread : Contains(k'.wait[event], t) <=> Contains(x.wait[event], t)
  BY <1>8, EventLemma DEF WaitsAlike
<1>11. \A t : t \in Waiting <=> t \in Thread /\ Contains(k.wait[event], t)
  BY <1>2, WaitingLemma DEF Waiting
<1>12. \A t : t \in Waiting' <=> t \in Thread /\ Contains(k'.wait[event], t)
  BY <1>8, WaitingLemma DEF Waiting
<1>13. Waiting \ Waiting' = Gone(x)
  BY <1>10, <1>11, <1>12 DEF Gone
<1>14. ASSUME NEW t \in Waiting' PROVE t \in Waiting /\ ~Sees(set', t)
  <2>1. t \in Thread /\ Contains(x.wait[event], t)
    BY <1>10, <1>12, <1>14
  <2>2. Contains(k.wait[event], t)
    BY <1>4, <2>1, EventLemma DEF Gone, WaitsAlike
  <2>3. ~Sees(a.set, t)
    <3>1. k.wait[event] \in Seq(Thread)
      BY <1>2, EventLemma DEF KernelState
    <3>2. PICK i \in DOMAIN k.wait[event] : k.wait[event][i] = t
      BY <2>2, <3>1 DEF Contains
    <3> QED
      BY <1>6, <2>1, <3>2
  <2> QED
    BY <1>1, <1>11, <2>1, <2>2, <2>3
<1>15. EventPlaces'
  BY <1>1, <1>7, <1>9 DEF EventPlaces
<1> QED
  BY <1>1, <1>5, <1>13, <1>14, <1>15 DEF now

\* A receive that waits: the running thread joins the waiters, whose conditions stay.
LEMMA RecvStep ==
  ASSUME EventPlaces, NobodyOverlooked, NEW w \in Want, NEW timeout \in RecvTimeouts,
         nd_event_recv(w, timeout)
  PROVE  EventPlaces' /\ NobodyOverlooked'
<1> DEFINE c == k.cur
<1>1. /\ InThread(k) /\ c # Idle /\ inside[c] = NoThread /\ want' = [want EXCEPT ![c] = w]
  BY DEF nd_event_recv, InOwnCode
<1>2. /\ Sure(k) /\ Placed(k, inside) /\ Consistent(k) /\ k \in KernelState
      /\ inside \in [Thread -> WaitQueue \cup {NoThread}] /\ want \in [Thread -> Want]
      /\ ~Deferred \/ IsrCalls \subseteq {"resume"} => Steady(k)
  BY DEF EventPlaces, Sure, Consistent
<1>3. c \in Thread \ {Idle} /\ k.stat[c] = "RUNNING"
  BY <1>1, <1>2, InThreadLemma
<1>4. want' \in [Thread -> Want] /\ want'[c] = w /\ \A u \in Thread \ {c} : want'[u] = want[u]
  BY <1>1, <1>2, <1>3
<1>5. \A t : t \in Waiting <=> t \in Thread /\ Contains(k.wait[event], t)
  BY <1>2, WaitingLemma DEF Waiting
<1>6. ~Contains(k.wait[event], c)
  BY <1>2, <1>3, EventLemma, FreeWhereLemma
<1>7. CASE set' = set \ w.flags /\ UNCHANGED <<k, inside>>
  <2>1. EventPlaces'
    BY <1>2, <1>4, <1>7 DEF EventPlaces
  <2>2. ASSUME NEW t \in Waiting
        PROVE  IF want'[t].opt = "AND" THEN ~(want'[t].flags \subseteq set')
                                       ELSE set' \cap want'[t].flags = {}
    <3>1. want'[t] = want[t]
      BY <1>4, <1>5, <1>6, <2>2
    <3> QED
      BY <1>7, <2>2, <3>1 DEF NobodyOverlooked
  <2>3. Waiting' = Waiting
    BY <1>7 DEF Waiting
  <2> QED
    BY <2>1, <2>2, <2>3 DEF NobodyOverlooked
<1>8. CASE /\ ~nd_event_is_satisfied(set, w)
           /\ k' = nd_scheduler(nd_thread_pend(k, event, timeout))
           /\ inside' = [inside EXCEPT ![c] = event] /\ set' = set
  <2>1. timeout \in Nat \cup {Forever}
    BY EventAssumption, DelayAssumption
  <2>2. /\ Sure(k') /\ WaitsKept(k, k', c) /\ k'.stat[c] = "BLOCK"
        /\ \A p \in WaitQueue : Contains(k'.wait[p], c) <=> p = event
    BY <1>2, <1>3, <1>8, <2>1, EventLemma, PendStep
  <2> HIDE DEF c
  <2>3. inside'[c] = event /\ inside' \in [Thread -> WaitQueue \cup {NoThread}]
    BY <1>2, <1>3, <1>8, EventLemma
  <2>4. WaitsWhere(k', c, inside'[c])
    BY <2>2, <2>3, EventLemma DEF WaitsWhere
  <2>5. \A u \in Thread \ {c} : WaitsAlike(k, k', u) /\ inside'[u] = inside[u]
    BY <1>2, <1>8, <2>2 DEF WaitsKept
  <2>6. Placed(k', inside')
    BY <1>2, <2>4, <2>5, PlacedLemma
  <2>7. EventPlaces'
    BY <1>4, <2>2, <2>3, <2>6 DEF EventPlaces
  <2>8. \A t : t \in Waiting' <=> t \in Thread /\ Contains(k'.wait[event], t)
    BY <2>2, WaitingLemma DEF Waiting, Sure, Consistent
  <2>9. ASSUME NEW t \in Waiting'
        PROVE  IF want'[t].opt = "AND" THEN ~(want'[t].flags \subseteq set')
                                       ELSE set' \cap want'[t].flags = {}
    <3>1. CASE t = c
      BY <1>4, <1>8, <3>1 DEF nd_event_is_satisfied
    <3>2. CASE t # c
      <4>1. t \in Waiting /\ want'[t] = want[t]
        BY <1>4, <1>5, <2>5, <2>8, <2>9, <3>2, EventLemma DEF WaitsAlike
      <4> QED
        BY <1>8, <4>1 DEF NobodyOverlooked
    <3> QED
      BY <3>1, <3>2
  <2> QED
    BY <2>7, <2>9 DEF NobodyOverlooked
<1> QED
  BY <1>7, <1>8 DEF nd_event_recv

\* A receive returns: nothing but inside changes.
LEMMA RecvReturnStep ==
  ASSUME EventPlaces, RecvReturn PROVE EventPlaces'
<1> DEFINE c == k.cur
<1>1. /\ InThread(k) /\ inside' = [inside EXCEPT ![c] = NoThread] /\ UNCHANGED <<k, want>>
  BY DEF RecvReturn
<1>2. /\ Sure(k) /\ Placed(k, inside) /\ want \in [Thread -> Want]
      /\ inside \in [Thread -> WaitQueue \cup {NoThread}]
  BY DEF EventPlaces
<1>3. c \in Thread /\ k.stat[c] = "RUNNING"
  BY <1>1, <1>2, InThreadLemma
<1> HIDE DEF c
<1>4. inside'[c] = NoThread /\ inside' \in [Thread -> WaitQueue \cup {NoThread}] /\ Sure(k')
  BY <1>1, <1>2, <1>3
<1>5. WaitsWhere(k', c, inside'[c])
  BY <1>1, <1>3, <1>4, FreeWhereLemma
<1>6. \A u \in Thread \ {c} : WaitsAlike(k, k', u) /\ inside'[u] = inside[u]
  BY <1>1, <1>2 DEF WaitsAlike
<1>7. Placed(k', inside')
  BY <1>2, <1>5, <1>6, PlacedLemma
<1> QED
  BY <1>1, <1>2, <1>4, <1>7 DEF EventPlaces

\* A step of the scheduler: nobody new waits for the event group.
LEMMA EventSchedulerStep ==
  ASSUME EventPlaces, NobodyOverlooked, Next, UNCHANGED <<set, want>>
  PROVE  EventPlaces' /\ NobodyOverlooked'
<1>1. /\ Sure(k) /\ Placed(k, inside) /\ want \in [Thread -> Want] /\ k \in KernelState
      /\ inside \in [Thread -> WaitQueue \cup {NoThread}]
  BY DEF EventPlaces, Sure, Consistent
<1>2. Moved /\ Sure(k') /\ k' \in KernelState
  BY <1>1, MovedStep, SureStep DEF Sure, Consistent
<1>3. inside' \in [Thread -> WaitQueue \cup {NoThread}]
  <2>1. Thread \cup {NoThread} \subseteq WaitQueue \cup {NoThread}
    BY EventLemma
  <2> QED
    BY <1>1, <2>1, InsideLemma
<1>4. EventPlaces'
  BY <1>1, <1>2, <1>3 DEF EventPlaces, Moved
<1>5. ASSUME NEW t \in Waiting' PROVE t \in Waiting
  <2>1. t \in Thread /\ Contains(k'.wait[event], t)
    BY <1>2, <1>5, WaitingLemma DEF Waiting
  <2>2. Contains(k.wait[event], t)
    BY <1>2, <2>1, EventLemma, NoNewWaiterLemma
  <2> QED
    BY <1>1, <2>1, <2>2, WaitingLemma DEF Waiting
<1> QED
  BY <1>4, <1>5 DEF NobodyOverlooked

-----------------------------------------------------------------------------
(* The invariant and what follows from it *)

\* After nd_scheduler_init and nd_event_init.
LEMMA EventInitLemma == EventInit => EventPlaces /\ NobodyOverlooked
<1> SUFFICES ASSUME EventInit PROVE EventPlaces /\ NobodyOverlooked
  OBVIOUS
<1>1. WaitInv
  BY WaitInitLemma DEF EventInit
<1>2. want \in [Thread -> Want]
  BY DEF EventInit, Want
<1>3. EventPlaces
  BY <1>1, <1>2, KernelInvForm DEF WaitInv, EventPlaces
<1>4. k.wait[event] = <<>>
  BY EventLemma DEF EventInit, Init
<1>5. Waiting = {}
  BY <1>4 DEF Waiting, Range
<1> QED
  BY <1>3, <1>5 DEF NobodyOverlooked

\* Every step keeps both.
LEMMA EventStep ==
  EventPlaces /\ NobodyOverlooked /\ [EventNext]_eventVars => EventPlaces' /\ NobodyOverlooked'
<1> SUFFICES ASSUME EventPlaces, NobodyOverlooked, [EventNext]_eventVars
             PROVE  EventPlaces' /\ NobodyOverlooked'
  OBVIOUS
<1>1. CASE UNCHANGED eventVars
  BY <1>1 DEF eventVars, EventPlaces, NobodyOverlooked, Waiting
<1>2. CASE Next /\ UNCHANGED <<set, want>>
  BY <1>2, EventSchedulerStep
<1>3. ASSUME NEW flags \in Masks, nd_event_send(flags)
      PROVE  EventPlaces' /\ NobodyOverlooked'
  <2>1. EventPlaces' /\ want' = want /\ \A t \in Waiting' : ~Sees(set', t)
    BY <1>3, SendStep DEF nd_event_send
  <2> QED
    BY <2>1 DEF NobodyOverlooked, Sees, nd_event_is_satisfied
<1>4. ASSUME NEW flags \in Masks, NEW opt \in {"AND", "OR"}, NEW timeout \in RecvTimeouts,
             nd_event_recv([flags |-> flags, opt |-> opt], timeout)
      PROVE  EventPlaces' /\ NobodyOverlooked'
  <2>1. [flags |-> flags, opt |-> opt] \in Want
    BY EventAssumption DEF Want
  <2> QED
    BY <1>4, <2>1, RecvStep
<1>5. CASE RecvReturn
  BY <1>5, RecvReturnStep DEF RecvReturn, NobodyOverlooked, Waiting
<1> QED
  BY <1>1, <1>2, <1>3, <1>4, <1>5 DEF EventNext

\* The kernel's tables agree and every thread is where its call put it; and nobody waits
\* for what has happened, however sends, receives, timeouts, suspends and aborts meet.
THEOREM NobodyMisses == EventSpec => []EventInv
<1>1. EventPlaces /\ NobodyOverlooked => EventInv
  BY KernelInvForm DEF EventPlaces, EventInv
<1> QED
  BY <1>1, EventInitLemma, EventStep, PTL DEF EventSpec

\* A flag that is gone after a send was used by a waiter that it woke, whose condition was
\* met; and no two waiters for all their flags were woken by the same one.
THEOREM FlagsAccounted == EventSpec => SendAccounts
<1> DEFINE Sent ==
             \A flags \in Masks : nd_event_send(flags) =>
               LET now   == set \cup flags
                   woken == Waiting \ Waiting'
                   all   == {t \in woken : want[t].opt = "AND"}
               IN /\ \A f \in now \ set' : \E t \in woken : f \in want[t].flags
                  /\ \A t \in woken : IF want[t].opt = "AND" THEN want[t].flags \subseteq now
                                                             ELSE now \cap want[t].flags # {}
                  /\ \A t, u \in all : t # u => want[t].flags \cap want[u].flags = {}
<1>1. ASSUME EventPlaces PROVE Sent
  <2>1. \A flags \in Masks : nd_event_send(flags) =>
          Accounted(set \cup flags, set', Waiting \ Waiting')
    BY <1>1, SendStep
  <2> QED
    BY <2>1 DEF Accounted, Sees, nd_event_is_satisfied
<1>2. EventPlaces => [Sent]_eventVars
  BY <1>1
<1> QED
  BY <1>2, EventInitLemma, EventStep, PTL DEF EventSpec, SendAccounts

=============================================================================
