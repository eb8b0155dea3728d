------------------------------- MODULE NdTimer -------------------------------
(***************************************************************************)
(* The timer service (nd_timer.c) with any number of one-shot and periodic *)
(* timers, whose callbacks may start and stop timers.  tickless is         *)
(* ND_CFG_TICKLESS: with it, a one-shot hardware alarm is programmed for   *)
(* the first timer (arch/arm/a9/timer.c, bsp/raspi-pico2/nd_hrtimer.c);    *)
(* without it, a tick comes at every unit of time.  A behaviour is of one  *)
(* of the Modes.                                                           *)
(*                                                                         *)
(* The tree is the sequence armed: TimerTree shows the one to be the       *)
(* other.  Times are those of the code, of TimeMax + 1 values; since and   *)
(* fires are history, kept in unbounded numbers.                           *)
(***************************************************************************)
EXTENDS Integers, SequencesExt

CONSTANTS
  Timer, None,
  Modes,                 \* the values of ND_CFG_TICKLESS
  Timeouts,              \* in each mode, the timeouts timers are initialised with
  TimeMax,               \* U64_MAX
  PastFails,             \* the alarm of raspi-pico2: a target in the past is refused
  Reach,                 \* the largest delta the alarm can hold
  MaxNow                 \* bound: the clock stops there

ASSUME TimerAssumption ==
  /\ None \notin Timer \cup Nat \cup [timer : Timer, at : 0..MaxNow]
  /\ TimeMax \in Nat /\ MaxNow \in 0..(TimeMax \div 2 - 1) /\ Reach \in Nat \ {0}
  /\ Modes \subseteq BOOLEAN /\ PastFails \in BOOLEAN
  /\ Timeouts \in [Modes -> SUBSET (1..TimeMax)]

VARIABLES
  now,                   \* nd_hw_get_current()
  type, timeout,         \* fields of nd_timer_t
  q,                     \* tickless; armed, expire_time; the alarm and its interrupt
  phase,                 \* where the timer interrupt is
  starting,              \* tickless: a nd_timer_start whose timer is on the tree
  since, fires           \* history: when a timer was started, how often it fired since

timerVars == <<now, type, timeout, q, phase, starting, since, fires>>

Types == {"one_shot", "periodic"}

TimerTypeOK ==
  /\ now \in 0..MaxNow
  /\ type \in [Timer -> Types] /\ timeout \in [Timer -> 1..TimeMax]
  /\ q.tickless \in Modes
  /\ q.armed \in Seq(Timer) /\ IsInjective(q.armed)
  /\ q.expire_time \in [Timer -> 0..TimeMax]
  /\ q.alarm \in 0..TimeMax \cup {None} /\ q.irq \in BOOLEAN
  /\ phase \in {"free", "ticked", "loop", "callback"}
  /\ starting \in {None} \cup [timer : Timer, at : 0..MaxNow]
  /\ since \in [Timer -> 0..MaxNow \cup {None}] /\ fires \in [Timer -> Nat]

-----------------------------------------------------------------------------
(* The tree and the alarm *)

Armed(s, t) == Contains(s.armed, t)
First(s) == s.armed[1]

\* Before the first timer that expires later.
timer_node_insert(s, t) ==
  LET later == {i \in DOMAIN s.armed : s.expire_time[s.armed[i]] > s.expire_time[t]}
  IN [s EXCEPT !.armed = IF later = {} THEN Append(@, t) ELSE InsertAt(@, Min(later), t)]

Erase(s, t) == [s EXCEPT !.armed = RemoveFirst(@, t)]

\* A target in the past: raspi-pico2 reports a failure, the A9 rings at once.
SetPast(s) == [s EXCEPT !.alarm = IF PastFails THEN None ELSE now]

nd_hw_hrtimer_set_expire(s, e) ==
  IF e <= now THEN SetPast(s)
  ELSE [s EXCEPT !.alarm = IF e - now > Reach THEN now + Reach ELSE e]

nd_hw_hrtimer_trigger(s) ==
  IF PastFails THEN [s EXCEPT !.irq = TRUE] ELSE [s EXCEPT !.alarm = now]

nd_hw_hrtimer_trigger_clear(s) == [s EXCEPT !.alarm = None]

\* Mutation of Due: one unit of time too early.
DueSoon(s) == s.armed # <<>> /\ now + 1 >= s.expire_time[First(s)]

Due(s) == s.armed # <<>> /\ now >= s.expire_time[First(s)]

TriggerIfDue(s) == IF Due(s) THEN nd_hw_hrtimer_trigger(s) ELSE s

\* The alarm after the first timer has changed by a removal.
Program(s) ==
  IF s.armed = <<>> THEN nd_hw_hrtimer_trigger_clear(s)
  ELSE TriggerIfDue(nd_hw_hrtimer_set_expire(s, s.expire_time[First(s)]))

timer_remove(s, t) ==
  IF ~Armed(s, t) THEN s
  ELSE IF ~s.tickless THEN Erase(s, t)
  ELSE IF First(s) = t THEN Program(Erase(s, t))
  ELSE TriggerIfDue(Erase(s, t))

-----------------------------------------------------------------------------
(* Calls, by threads, handlers and callbacks: not while the service holds the lock *)

CanCall == phase # "loop" /\ starting = None

\* Of a timer that is not armed: the code does not test it.
nd_timer_init(t, y, d) ==
  /\ CanCall /\ ~Armed(q, t)
  /\ type' = [type EXCEPT ![t] = y]
  /\ timeout' = [timeout EXCEPT ![t] = d]
  /\ since' = [since EXCEPT ![t] = None]
  /\ fires' = [fires EXCEPT ![t] = 0]
  /\ UNCHANGED <<now, q, phase, starting>>

ExpireTime(t) ==
  IF ~q.tickless THEN (now + timeout[t]) % (TimeMax + 1)
  ELSE IF timeout[t] >= TimeMax \div 2 THEN TimeMax ELSE timeout[t] + now

\* Without ticks the alarm is programmed later than the time is read: StartEnds.
nd_timer_start(t) ==
  /\ CanCall
  /\ q' = timer_node_insert([timer_remove(q, t) EXCEPT !.expire_time[t] = ExpireTime(t)], t)
  /\ starting' = IF q.tickless THEN [timer |-> t, at |-> now] ELSE None
  /\ since' = [since EXCEPT ![t] = now]
  /\ fires' = [fires EXCEPT ![t] = 0]
  /\ UNCHANGED <<now, type, timeout, phase>>

\* Mutation of StartEnds: the alarm is programmed only when nothing was armed.
StartEndsFirst ==
  /\ starting # None
  /\ q' = IF Len(q.armed) = 1
          THEN nd_hw_hrtimer_set_expire(q, q.expire_time[First(q)]) ELSE q
  /\ starting' = None
  /\ UNCHANGED <<now, type, timeout, phase, since, fires>>

\* The time tested is the one read before.
StartEnds ==
  /\ starting # None
  /\ LET s == IF First(q) = starting.timer
              THEN nd_hw_hrtimer_set_expire(q, q.expire_time[First(q)]) ELSE q
     IN q' = IF starting.at >= q.expire_time[First(q)] THEN nd_hw_hrtimer_trigger(s) ELSE s
  /\ starting' = None
  /\ UNCHANGED <<now, type, timeout, phase, since, fires>>

nd_timer_stop(t) ==
  /\ CanCall
  /\ q' = timer_remove(q, t)
  /\ since' = [since EXCEPT ![t] = None]
  /\ fires' = [fires EXCEPT ![t] = 0]
  /\ UNCHANGED <<now, type, timeout, phase, starting>>

-----------------------------------------------------------------------------
(* Time and the timer interrupt *)

\* The handler counts the tick before it takes the lock.
Tick ==
  /\ ~q.tickless /\ phase = "free" /\ now < MaxNow
  /\ now' = now + 1
  /\ phase' = "ticked"
  /\ UNCHANGED <<type, timeout, q, starting, since, fires>>

Advance ==
  /\ q.tickless /\ now < MaxNow
  /\ now' = now + 1
  /\ UNCHANGED <<type, timeout, q, phase, starting, since, fires>>

AlarmRings ==
  /\ q.alarm # None /\ q.alarm <= now
  /\ q' = [q EXCEPT !.alarm = None, !.irq = TRUE]
  /\ UNCHANGED <<now, type, timeout, phase, starting, since, fires>>

AlarmInterrupt ==
  /\ q.irq /\ phase = "free" /\ starting = None
  /\ q' = [q EXCEPT !.irq = FALSE]
  /\ phase' = "ticked"
  /\ UNCHANGED <<now, type, timeout, starting, since, fires>>

nd_timer_process ==
  /\ phase = "ticked" /\ starting = None
  /\ phase' = "loop"
  /\ UNCHANGED <<now, type, timeout, q, starting, since, fires>>

\* Mutation of Rearm: of any type.
RearmAll(s, t) ==
  timer_node_insert([s EXCEPT !.expire_time[t] = (@ + timeout[t]) % (TimeMax + 1)], t)

Rearm(s, t) ==
  IF type[t] = "one_shot" THEN s
  ELSE timer_node_insert([s EXCEPT !.expire_time[t] = (@ + timeout[t]) % (TimeMax + 1)], t)

\* A round of the loop of timer_expired, until the callback is called.
Expire ==
  /\ phase = "loop" /\ Due(q)
  /\ q' = Rearm(Erase(q, First(q)), First(q))
  /\ fires' = [fires EXCEPT ![First(q)] = @ + 1]
  /\ phase' = "callback"
  /\ UNCHANGED <<now, type, timeout, starting, since>>

CallbackReturns ==
  /\ phase = "callback" /\ starting = None
  /\ phase' = "loop"
  /\ UNCHANGED <<now, type, timeout, q, starting, since, fires>>

\* Mutation of LoopEnds: after any round.
LoopEndsSoon ==
  /\ phase = "loop"
  /\ q' = IF q.tickless THEN Program(q) ELSE q
  /\ phase' = "free"
  /\ UNCHANGED <<now, type, timeout, starting, since, fires>>

LoopEnds ==
  /\ phase = "loop" /\ ~Due(q)
  /\ q' = IF q.tickless THEN Program(q) ELSE q
  /\ phase' = "free"
  /\ UNCHANGED <<now, type, timeout, starting, since, fires>>

-----------------------------------------------------------------------------

TimerInit ==
  /\ now = 0 /\ phase = "free" /\ starting = None
  /\ type = [t \in Timer |-> "one_shot"]
  /\ \E mode \in Modes :
       /\ q = [tickless |-> mode, armed |-> <<>>, expire_time |-> [t \in Timer |-> 0],
               alarm |-> None, irq |-> FALSE]
       /\ \E d \in Timeouts[mode] : timeout = [t \in Timer |-> d]
  /\ since = [t \in Timer |-> None] /\ fires = [t \in Timer |-> 0]

Call ==
  \E t \in Timer :
     \/ \E y \in Types, d \in Timeouts[q.tickless] : nd_timer_init(t, y, d)
     \/ nd_timer_start(t)
     \/ nd_timer_stop(t)

TimerNext ==
  \/ Call \/ StartEnds
  \/ Tick \/ Advance \/ AlarmRings \/ AlarmInterrupt
  \/ nd_timer_process \/ Expire \/ CallbackReturns \/ LoopEnds

TimerSpec == TimerInit /\ [][TimerNext]_timerVars

\* Calls and callbacks return, and a pending interrupt is taken although calls mask it
\* again and again.
FairTimerSpec ==
  /\ TimerSpec
  /\ WF_timerVars(StartEnds) /\ WF_timerVars(AlarmRings) /\ WF_timerVars(Expire)
  /\ WF_timerVars(LoopEnds)
  /\ SF_timerVars(AlarmInterrupt) /\ SF_timerVars(nd_timer_process)
  /\ SF_timerVars(CallbackReturns)

-----------------------------------------------------------------------------
(* Properties *)

NextDue(t) == since[t] + (fires[t] + 1) * timeout[t]
Overdue(t) == Armed(q, t) /\ NextDue(t) <= now

\* The k-th call of a callback comes no earlier than k timeouts after nd_timer_start,
\* whatever was late and whatever other callbacks did.
NeverEarly == \A t \in Timer : since[t] # None => since[t] + fires[t] * timeout[t] <= now

\* A timer is armed from its start until it is stopped or, being one-shot, has fired: a
\* callback that stops or restarts its own or another due timer is obeyed.
ArmedAgrees ==
  \A t \in Timer :
     Armed(q, t) <=> since[t] # None /\ (type[t] = "periodic" \/ fires[t] = 0)

\* So it stays, with each timer at most once on the tree, when a timer that is armed is
\* started again.
TimerInv == TimerTypeOK /\ ArmedAgrees

\* Outside the timer interrupt no timer is overdue, unless the interrupt is pending or
\* the alarm is about to ring: periodic timers do not drift, and none is forgotten.
NoneOverdue ==
  phase = "free" /\ starting = None =>
     \A t \in Timer : Overdue(t) => q.irq \/ (q.alarm # None /\ q.alarm <= now)

\* Whoever is overdue is served, stopped or restarted.
OverdueServed == \A t \in Timer : Overdue(t) ~> ~Overdue(t)

=============================================================================
