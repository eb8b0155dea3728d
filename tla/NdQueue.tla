------------------------------- MODULE NdQueue -------------------------------
(***************************************************************************)
(* A message queue (nd_queue.c) over the scheduler: threads send and       *)
(* receive, handlers do so without waiting.  It implements BoundedFifo.    *)
(*                                                                         *)
(* Send and receive wait in a loop that tests the queue again each time    *)
(* nd_scheduler returns, with interrupts masked from there on.  On the     *)
(* ports that switch on the spot that is when the thread runs again; on    *)
(* Cortex-M nd_scheduler returns at once, before PendSV.  In both cases    *)
(* nothing else happens while the current thread is in the loop.           *)
(***************************************************************************)
EXTENDS NdSched

CONSTANTS
  full, empty,   \* send_wait and read_wait: the only objects
  Message,       \* contents of messages
  MaxMsgs,       \* max_msgs
  PtrRange,      \* values of read_ptr and write_ptr: 2^32 in the code
  WaitTimeouts   \* the timeouts of the calls that may wait

\* nd_queue_init refuses a size that is not a power of two, so that it divides the range
\* of the indices.
ASSUME QueueAssumption ==
  /\ Object = {full, empty} /\ full # empty
  /\ MaxMsgs \in Nat \ {0} /\ PtrRange \in Nat \ {0} /\ PtrRange % MaxMsgs = 0
  /\ WaitTimeouts \subseteq 0..MaxDelay \cup {Forever}

VARIABLES
  buf,           \* queue->buf: one message per slot
  used,          \* used_msg
  readp, writep, \* read_ptr, write_ptr
  call           \* the arguments of the call each waiting thread is in

queue == <<buf, used, readp, writep>>
queueVars == <<k, inside, buf, used, readp, writep, call>>

Wraps(p) == p % PtrRange
Slot(p) == p % MaxMsgs             \* ptr & (max_msgs - 1)

\* The arguments of a thread that is in no call.
NoCall == [timeout |-> 0, msg |-> CHOOSE m \in Message : TRUE]

\* The buffer holds anything at first.
QueueInit ==
  /\ Init
  /\ buf \in [0..MaxMsgs - 1 -> Message]
  /\ used = 0 /\ readp = 0 /\ writep = 0
  /\ call = [t \in Thread |-> NoCall]

\* The current thread is in one of the two loops, with interrupts masked.
Looping == Booted(k) /\ inside[k.cur] \in Object

-----------------------------------------------------------------------------
(* The bodies of send and receive *)

Waits(q, timeout) ==
  /\ timeout # 0
  /\ k' = nd_scheduler(nd_thread_pend(k, q, timeout))
  /\ inside' = [inside EXCEPT ![k.cur] = q]
  /\ UNCHANGED queue

Leaves ==
  /\ inside' = [inside EXCEPT ![k.cur] = NoThread]
  /\ call' = [call EXCEPT ![k.cur] = NoCall]

\* Mutation of WakeOne: nobody is woken.
WakeNobody(q) == k' = k

WakeOne(q) == k' = IF k.wait[q] = <<>> THEN k ELSE nd_scheduler(nd_thread_wakeup(k, q))

\* Mutation of Put: the index is advanced before the slot is written.
PutNext(m) ==
  /\ used < MaxMsgs
  /\ buf' = [buf EXCEPT ![Slot(writep + 1)] = m]
  /\ writep' = Wraps(writep + 1) /\ used' = used + 1
  /\ UNCHANGED readp
  /\ WakeOne(empty) /\ Leaves

Put(m) ==
  /\ used # MaxMsgs
  /\ buf' = [buf EXCEPT ![Slot(writep)] = m]
  /\ writep' = Wraps(writep + 1) /\ used' = used + 1
  /\ UNCHANGED readp
  /\ WakeOne(empty) /\ Leaves

Get ==
  /\ used # 0
  /\ readp' = Wraps(readp + 1) /\ used' = used - 1
  /\ UNCHANGED <<buf, writep>>
  /\ WakeOne(full) /\ Leaves

-----------------------------------------------------------------------------
(* nd_queue_send, nd_queue_recv: the first round *)

\* ND_EFULL and ND_EEMPTY are returned without any change.
nd_queue_send(m, timeout) ==
  /\ InOwnCode
  /\ \/ Put(m)
     \/ /\ used = MaxMsgs /\ Waits(full, timeout)
        /\ call' = [call EXCEPT ![k.cur] = [timeout |-> timeout, msg |-> m]]

nd_queue_recv(timeout) ==
  /\ InOwnCode
  /\ \/ Get
     \/ /\ used = 0 /\ Waits(empty, timeout)
        /\ call' = [call EXCEPT ![k.cur].timeout = timeout]

\* From a handler, without waiting; k.cur is the thread it interrupted.
HandlerSend(m) ==
  /\ InHandler(k) /\ used # MaxMsgs
  /\ buf' = [buf EXCEPT ![Slot(writep)] = m]
  /\ writep' = Wraps(writep + 1) /\ used' = used + 1
  /\ WakeOne(empty)
  /\ UNCHANGED <<inside, readp, call>>

HandlerRecv ==
  /\ InHandler(k) /\ used # 0
  /\ readp' = Wraps(readp + 1) /\ used' = used - 1
  /\ WakeOne(full)
  /\ UNCHANGED <<inside, buf, writep, call>>

-----------------------------------------------------------------------------
(* The loop, when nd_scheduler has returned *)

LoopTimeout ==
  /\ Looping /\ k.error[k.cur] = "ETIMEOUT"
  /\ Leaves
  /\ UNCHANGED <<k, queue>>

LoopSend ==
  LET c == call[k.cur]
  IN /\ Looping /\ inside[k.cur] = full /\ k.error[k.cur] # "ETIMEOUT"
     /\ Put(c.msg) \/ (used = MaxMsgs /\ Waits(full, c.timeout) /\ UNCHANGED call)

LoopRecv ==
  /\ Looping /\ inside[k.cur] = empty /\ k.error[k.cur] # "ETIMEOUT"
  /\ Get \/ (used = 0 /\ Waits(empty, call[k.cur].timeout) /\ UNCHANGED call)

QueueNext ==
  \/ ~Looping /\ Next /\ UNCHANGED <<queue, call>>
  \/ \E timeout \in WaitTimeouts : \/ \E m \in Message : nd_queue_send(m, timeout)
                                   \/ nd_queue_recv(timeout)
  \/ \E m \in Message : HandlerSend(m)
  \/ HandlerRecv
  \/ LoopTimeout \/ LoopSend \/ LoopRecv

QueueSpec == QueueInit /\ [][QueueNext]_queueVars

-----------------------------------------------------------------------------
(* Properties *)

\* The ring implements a bounded FIFO, over the wrap of the indices and whoever sends
\* and receives: no message is lost, repeated, overwritten or out of order.
Contents == [i \in 1..used |-> buf[Slot(readp + i - 1)]]
Abstract == INSTANCE BoundedFifo WITH Capacity <- MaxMsgs, fifo <- Contents
QueueIsFifo == Abstract!FifoAbstract

\* Woken, and about to test the queue again.
Woken(q) == {t \in Thread : inside[t] = q /\ k.stat[t] \in Runnable /\ k.error[t] = "EOK"}

\* No wakeup is lost: while receivers wait, every message in the queue has a receiver
\* on its way, and while senders wait every free slot has a sender.
NoLostWakeup ==
  /\ k.wait[empty] # <<>> => Cardinality(Woken(empty)) >= used
  /\ k.wait[full] # <<>> => Cardinality(Woken(full)) >= MaxMsgs - used

\* The count and the two indices, which wrap, describe the same messages.
IndicesAgree == used \in 0..MaxMsgs /\ writep = Wraps(readp + used)

\* The kernel's tables and the ring survive waits that end by a message, by a slot or by
\* a timeout, and start over, and no message or slot is left to nobody.
QueueInv == KernelInv /\ IndicesAgree /\ NoLostWakeup

\* A thread that waits is on its wait list once.
LinkedOnce == \A q \in WaitQueue : IsInjective(k.wait[q])

=============================================================================
