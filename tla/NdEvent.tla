------------------------------- MODULE NdEvent -------------------------------
(***************************************************************************)
(* Event flags (nd_event.c) over the scheduler: threads and handlers send  *)
(* flags, threads wait for all or any of a set of flags and use them up.   *)
(***************************************************************************)
EXTENDS NdSched

CONSTANTS
  event,         \* the event group: the only object
  Flag,          \* the bits of event->set
  Masks,         \* the sets of flags that are sent and waited for
  RecvTimeouts   \* the timeouts of receive; 0 is ND_TIMEOUT_NOWAIT

ASSUME EventAssumption ==
  /\ Object = {event} /\ Masks \subseteq SUBSET Flag
  /\ RecvTimeouts \subseteq 0..MaxDelay \cup {Forever}

VARIABLES
  set,           \* event->set
  want           \* thread->event: flags and AND/OR of the last receive

eventVars == <<k, inside, set, want>>

Want == [flags : SUBSET Flag, opt : {"AND", "OR"}]

\* nd_thread_init clears thread->event.
EventInit ==
  /\ Init
  /\ set = {}
  /\ want = [t \in Thread |-> [flags |-> {}, opt |-> "AND"]]

nd_event_is_satisfied(flags, w) ==
  IF w.opt = "AND" THEN w.flags \subseteq flags ELSE flags \cap w.flags # {}

\* error is still ND_EOK from nd_thread_pend.
nd_event_wakeup(s, t) ==
  LET s1 == nd_timer_stop(WaitRemove(s, t), t, FALSE)
  IN nd_thread_ready_add_tail([s1 EXCEPT !.stat[t] = "READY"], t)

\* Mutation of Serve: a waiter that is served takes every flag.
ServeClears(acc, t) ==
  IF nd_event_is_satisfied(acc.set, want[t])
  THEN [set |-> {}, s |-> nd_event_wakeup(acc.s, t)]
  ELSE acc

\* One turn of the loop of nd_event_send: who is served uses up the flags it waits for.
Serve(acc, t) ==
  IF nd_event_is_satisfied(acc.set, want[t])
  THEN [set |-> acc.set \ want[t].flags, s |-> nd_event_wakeup(acc.s, t)]
  ELSE acc

\* Mutation of Served: only the first waiter is looked at.
ServedFirst(flags) ==
  IF k.wait[event] = <<>> THEN [set |-> flags, s |-> k]
  ELSE Serve([set |-> flags, s |-> k], Head(k.wait[event]))

\* The loop, over the wait list in its order: what each number of turns leaves.
Turns(flags) ==
  LET list == k.wait[event]
      after[n \in 0..Len(list)] ==
        IF n = 0 THEN [set |-> flags, s |-> k] ELSE Serve(after[n - 1], list[n])
  IN after

Served(flags) == Turns(flags)[Len(k.wait[event])]

nd_event_send(flags) ==
  LET served == Served(set \cup flags)
  IN /\ InOwnCode \/ InHandler(k)
     /\ set' = served.set
     /\ k' = nd_scheduler(served.s)
     /\ UNCHANGED <<inside, want>>

\* ND_EBUSY is returned with only thread->event changed, which the next receive sets anew.
nd_event_recv(w, timeout) ==
  /\ InOwnCode
  /\ want' = [want EXCEPT ![k.cur] = w]
  /\ \/ /\ nd_event_is_satisfied(set, w)
        /\ set' = set \ w.flags
        /\ UNCHANGED <<k, inside>>
     \/ /\ ~nd_event_is_satisfied(set, w) /\ timeout # 0
        /\ k' = nd_scheduler(nd_thread_pend(k, event, timeout))
        /\ inside' = [inside EXCEPT ![k.cur] = event]
        /\ UNCHANGED set

RecvReturn ==
  /\ InThread(k) /\ inside[k.cur] = event
  /\ inside' = [inside EXCEPT ![k.cur] = NoThread]
  /\ UNCHANGED <<k, set, want>>

EventNext ==
  \/ Next /\ UNCHANGED <<set, want>>
  \/ \E flags \in Masks : nd_event_send(flags)
  \/ \E flags \in Masks, opt \in {"AND", "OR"}, timeout \in RecvTimeouts :
       nd_event_recv([flags |-> flags, opt |-> opt], timeout)
  \/ RecvReturn

EventSpec == EventInit /\ [][EventNext]_eventVars

-----------------------------------------------------------------------------
(* Properties *)

Waiting == Range(k.wait[event])
Sees(flags, t) == nd_event_is_satisfied(flags, want[t])

\* Nobody waits for what has happened: no waiter's condition is met by the flags that
\* are set, however sends, receives and timeouts interleave.
NobodyOverlooked ==
  \A t \in Waiting :
    IF want[t].opt = "AND" THEN ~(want[t].flags \subseteq set)
                           ELSE set \cap want[t].flags = {}

\* The kernel's tables agree as well, although nd_event_send unlinks waiters by itself.
EventInv == KernelInv /\ NobodyOverlooked

\* A send accounts for every flag: one that is gone afterwards was wanted by a waiter it
\* woke, each of those had its condition met, and no two of them that wanted all their
\* flags shared one.
SendAccounts ==
  [][\A flags \in Masks : nd_event_send(flags) =>
       LET now   == set \cup flags
           woken == Waiting \ Waiting'
           all   == {t \in woken : want[t].opt = "AND"}
       IN /\ \A f \in now \ set' : \E t \in woken : f \in want[t].flags
          /\ \A t \in woken : IF want[t].opt = "AND" THEN want[t].flags \subseteq now
                                                     ELSE now \cap want[t].flags # {}
          /\ \A t, u \in all : t # u => want[t].flags \cap want[u].flags = {}]_eventVars

-----------------------------------------------------------------------------
(* What the repository says of the code and the code does not do: see README *)

\* A send wakes every waiter whose condition the flags meet: events synchronise one
\* sender with many threads.
SendWakesAll ==
  [][\A flags \in Masks : nd_event_send(flags) =>
       \A t \in Waiting : Sees(set \cup flags, t) => t \notin Waiting']_eventVars

=============================================================================
