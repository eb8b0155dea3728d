---------------------------- MODULE NdQueueProofs ----------------------------
(***************************************************************************)
(* The message queue over the scheduler, on the ports that switch on the   *)
(* spot: the kernel's tables and the ring agree, the ring implements a     *)
(* bounded FIFO, and no message or slot is left to nobody.                 *)
(***************************************************************************)
EXTENDS NdQueue, NdSchedProofs

-----------------------------------------------------------------------------
(* The invariant of the kernel, and what each kind of step does to it *)

Arguments == [timeout : 0..MaxDelay \cup {Forever}, msg : Message]

\* The kernel under the calls of the queue, whose threads keep their arguments.
QueuePlaces == LoopPlaces /\ call \in [Thread -> Arguments]

\* The two wait queues are objects, and no threads.
LEMMA QueueLemma ==
  /\ Object = {full, empty} /\ full # empty /\ NoThread \notin Object
  /\ Object \subseteq WaitQueue /\ Object \cap Thread = {}
  /\ NoThread \notin Thread /\ Thread \subseteq WaitQueue /\ Idle \in Thread
  BY QueueAssumption, ObjectAssumption, ThreadAssumption DEF WaitQueue

\* What a put does to the ring and to the kernel.
Sends(m) ==
  /\ used # MaxMsgs
  /\ buf' = [buf EXCEPT ![Slot(writep)] = m]
  /\ writep' = Wraps(writep + 1) /\ used' = used + 1
  /\ UNCHANGED readp
  /\ HandsOn(empty)

\* What a get does.
Receives ==
  /\ used # 0
  /\ readp' = Wraps(readp + 1) /\ used' = used - 1
  /\ UNCHANGED <<buf, writep>>
  /\ HandsOn(full)

\* A thread that finds the queue full or empty waits, for the first time or again.
Blocks(q, timeout) ==
  WaitsIn(q, timeout) /\ used = (IF q = full THEN MaxMsgs ELSE 0) /\ UNCHANGED queue

\* A thread leaves its loop because its time is over.
GivesUp == LeavesLoop /\ k.error[k.cur] = "ETIMEOUT" /\ UNCHANGED queue

\* The steps of the queue, by what they do.
LEMMA QueueCases ==
  ASSUME QueuePlaces, QueueNext
  PROVE  /\ call' \in [Thread -> Arguments]
         /\ \/ ~Looping /\ Next /\ UNCHANGED queue
            \/ \E q \in Object, timeout \in 0..MaxDelay \cup {Forever} : Blocks(q, timeout)
            \/ \E m \in Message : Sends(m) /\ ComesBack(empty)
            \/ Receives /\ ComesBack(full)
            \/ GivesUp
<1>0. /\ Object = {full, empty} /\ full # empty /\ NoThread \notin Object
      /\ WaitTimeouts \subseteq 0..MaxDelay \cup {Forever}
  BY QueueLemma, QueueAssumption
<1>1. /\ call \in [Thread -> Arguments] /\ inside[Idle] \notin Object
      /\ (Looping => InThread(k)) /\ (InThread(k) => k.cur \in Thread)
  BY InThreadLemma DEF QueuePlaces, LoopPlaces, InLoop, Looping
<1>2. Looping => k.cur # Idle /\ InThread(k) /\ call[k.cur] \in Arguments
  BY <1>1 DEF Looping
<1>3. InOwnCode => InThread(k) /\ k.cur \in Thread /\ k.cur # Idle /\ inside[k.cur] = NoThread
  BY <1>1 DEF InOwnCode
<1>4. ASSUME NEW c \in Thread, c = k.cur, NEW m \in Message
      PROVE  [call EXCEPT ![c] = NoCall] \in [Thread -> Arguments]
  <2>1. NoCall \in Arguments
    BY <1>4, DelayAssumption DEF NoCall, Arguments
  <2> QED
    BY <1>1, <2>1
<1>5. InThread(k) => \E m : m \in Message
  BY <1>1 DEF Arguments
<1>6. Leaves /\ InThread(k) =>
        call' \in [Thread -> Arguments] /\ inside' = [inside EXCEPT ![k.cur] = NoThread]
  BY <1>1, <1>4, <1>5 DEF Leaves
<1>7. ASSUME NEW timeout \in WaitTimeouts, NEW m \in Message, nd_queue_send(m, timeout)
      PROVE  \/ Sends(m) /\ ComesBack(empty) /\ call' \in [Thread -> Arguments]
             \/ Blocks(full, timeout) /\ call' \in [Thread -> Arguments]
  <2>1. CASE Put(m)
    BY <1>0, <1>3, <1>6, <1>7, <2>1 DEF nd_queue_send, Put, Sends, ComesBack, HandsOn, WakeOne
  <2>2. CASE /\ used = MaxMsgs /\ Waits(full, timeout)
             /\ call' = [call EXCEPT ![k.cur] = [timeout |-> timeout, msg |-> m]]
    <3>1. [timeout |-> timeout, msg |-> m] \in Arguments
      BY <1>0 DEF Arguments
    <3>2. call' \in [Thread -> Arguments]
      BY <1>1, <2>2, <3>1
    <3> QED
      BY <1>0, <1>3, <1>7, <2>2, <3>2 DEF nd_queue_send, Blocks, WaitsIn, Waits
  <2> QED
    BY <1>7, <2>1, <2>2 DEF nd_queue_send
<1>8. ASSUME NEW timeout \in WaitTimeouts, nd_queue_recv(timeout)
      PROVE  \/ Receives /\ ComesBack(full) /\ call' \in [Thread -> Arguments]
             \/ Blocks(empty, timeout) /\ call' \in [Thread -> Arguments]
  <2>1. CASE Get
    BY <1>0, <1>3, <1>6, <1>8, <2>1 DEF nd_queue_recv, Get, Receives, ComesBack, HandsOn, WakeOne
  <2>2. CASE /\ used = 0 /\ Waits(empty, timeout)
             /\ call' = [call EXCEPT ![k.cur].timeout = timeout]
    <3>1. call' \in [Thread -> Arguments]
      <4> DEFINE c == k.cur
      <4>1. c \in Thread /\ call[c] \in Arguments
        BY <1>1, <1>3, <1>8 DEF nd_queue_recv
      <4>2. [call[c] EXCEPT !.timeout = timeout] \in Arguments
        BY <1>0, <4>1 DEF Arguments
      <4>3. call' = [call EXCEPT ![c] = [call[c] EXCEPT !.timeout = timeout]]
        BY <2>2
      <4> HIDE DEF c
      <4> QED
        BY <1>1, <4>1, <4>2, <4>3
    <3> QED
      BY <1>0, <1>3, <1>8, <2>2, <3>1 DEF nd_queue_recv, Blocks, WaitsIn, Waits
  <2> QED
    BY <1>8, <2>1, <2>2 DEF nd_queue_recv
<1>9. ASSUME NEW m \in Message, HandlerSend(m)
      PROVE  Sends(m) /\ ComesBack(empty) /\ call' \in [Thread -> Arguments]
  BY <1>1, <1>9 DEF HandlerSend, Sends, ComesBack, HandsOn, WakeOne
<1>10. CASE HandlerRecv
  BY <1>1, <1>10 DEF HandlerRecv, Receives, ComesBack, HandsOn, WakeOne
<1>11. CASE LoopTimeout
  BY <1>2, <1>6, <1>11 DEF LoopTimeout, GivesUp, LeavesLoop, Leaves, queue
<1>12. CASE LoopSend
  <2> DEFINE c == call[k.cur]
  <2>1. /\ InThread(k) /\ k.cur # Idle /\ inside[k.cur] = full /\ c \in Arguments
        /\ Put(c.msg) \/ (used = MaxMsgs /\ Waits(full, c.timeout) /\ UNCHANGED call)
    BY <1>2, <1>12 DEF LoopSend
  <2> HIDE DEF c
  <2>2. c.msg \in Message /\ c.timeout \in 0..MaxDelay \cup {Forever}
    BY <2>1 DEF Arguments
  <2>3. CASE Put(c.msg)
    <3>1. Sends(c.msg) /\ ComesBack(empty) /\ call' \in [Thread -> Arguments]
      BY <1>0, <1>6, <2>1, <2>3 DEF Put, Sends, ComesBack, HandsOn, WakeOne
    <3> QED
      BY <2>2, <3>1
  <2>4. CASE used = MaxMsgs /\ Waits(full, c.timeout) /\ UNCHANGED call
    <3>1. Blocks(full, c.timeout)
      BY <2>1, <2>4 DEF Blocks, WaitsIn, Waits
    <3> QED
      BY <1>0, <1>1, <2>2, <2>4, <3>1
  <2> QED
    BY <2>1, <2>3, <2>4
<1>13. CASE LoopRecv
  <2> DEFINE c == call[k.cur]
  <2>1. /\ InThread(k) /\ k.cur # Idle /\ inside[k.cur] = empty /\ c \in Arguments
        /\ Get \/ (used = 0 /\ Waits(empty, c.timeout) /\ UNCHANGED call)
    BY <1>2, <1>13 DEF LoopRecv
  <2> HIDE DEF c
  <2>2. c.timeout \in 0..MaxDelay \cup {Forever}
    BY <2>1 DEF Arguments
  <2>3. CASE Get
    BY <1>0, <1>6, <2>1, <2>3 DEF Get, Receives, ComesBack, HandsOn, WakeOne
  <2>4. CASE used = 0 /\ Waits(empty, c.timeout) /\ UNCHANGED call
    <3>1. Blocks(empty, c.timeout)
      BY <1>0, <2>1, <2>4 DEF Blocks, WaitsIn, Waits
    <3> QED
      BY <1>0, <1>1, <2>2, <2>4, <3>1
  <2> QED
    BY <2>1, <2>3, <2>4
<1>14. CASE ~Looping /\ Next /\ UNCHANGED <<queue, call>>
  BY <1>1, <1>14
<1> QED
  BY <1>0, <1>7, <1>8, <1>9, <1>10, <1>11, <1>12, <1>13, <1>14 DEF QueueNext

\* Every step keeps QueuePlaces.
LEMMA QueuePlacesStep ==
  ASSUME ~Deferred, QueuePlaces, [QueueNext]_queueVars
  PROVE  QueuePlaces'
<1>0. LoopPlaces /\ call \in [Thread -> Arguments]
  BY DEF QueuePlaces
<1>1. CASE UNCHANGED queueVars
  <2>1. k' = k /\ inside' = inside /\ call' = call
    BY <1>1 DEF queueVars
  <2>2. LoopPlaces'
    BY <1>0, <2>1 DEF LoopPlaces, InLoop
  <2> QED
    BY <1>0, <2>1, <2>2 DEF QueuePlaces
<1>2. CASE QueueNext
  <2>0. /\ call' \in [Thread -> Arguments]
        /\ \/ ~Looping /\ Next /\ UNCHANGED queue
           \/ \E q \in Object, timeout \in 0..MaxDelay \cup {Forever} : Blocks(q, timeout)
           \/ \E m \in Message : Sends(m) /\ ComesBack(empty)
           \/ Receives /\ ComesBack(full)
           \/ GivesUp
    BY <1>2, QueueCases
  <2>1. CASE ~Looping /\ Next
    BY <1>0, <2>0, <2>1, LoopNext DEF QueuePlaces, Looping, InLoop
  <2>2. CASE \E q \in Object, timeout \in 0..MaxDelay \cup {Forever} : Blocks(q, timeout)
    BY <1>0, <2>0, <2>2, LoopWaits DEF QueuePlaces, Blocks
  <2>3. CASE GivesUp
    BY <1>0, <2>0, <2>3, LoopLeaves DEF QueuePlaces, GivesUp
  <2>4. CASE \E q \in Object : HandsOn(q) /\ ComesBack(q)
    BY <1>0, <2>0, <2>4, LoopHands DEF QueuePlaces
  <2>5. full \in Object /\ empty \in Object
    BY QueueLemma
  <2> QED
    BY <2>0, <2>1, <2>2, <2>3, <2>4, <2>5 DEF Sends, Receives
<1> QED
  BY <1>1, <1>2

\* After nd_scheduler_init and nd_queue_init.
LEMMA QueueInitLemma == QueueInit => QueuePlaces
<1> SUFFICES ASSUME QueueInit PROVE QueuePlaces
  OBVIOUS
<1>1. WaitInv
  BY WaitInitLemma DEF QueueInit
<1>2. /\ inside = [t \in Thread |-> NoThread] /\ k.isr = <<>> /\ k.cur = NoThread
      /\ ~k.expiring /\ k.halting = NoThread
  BY DEF QueueInit, Init
<1>3. Control(k) /\ ~InLoop /\ inside[Idle] \notin Object
  BY <1>2, QueueLemma DEF Control, InLoop, Booted
<1>4. call \in [Thread -> Arguments]
  <2>1. 0 \in 0..MaxMsgs - 1
    BY QueueAssumption
  <2>2. buf[0] \in Message
    BY <2>1 DEF QueueInit
  <2>3. NoCall \in Arguments
    BY <2>2, DelayAssumption DEF NoCall, Arguments
  <2> QED
    BY <2>3 DEF QueueInit
<1> QED
  BY <1>1, <1>3, <1>4, KernelInvForm DEF WaitInv, QueuePlaces, LoopPlaces

\* The kernel's tables agree, every thread is where its call put it and whoever runs inside
\* a loop of send or receive runs alone, whatever clients and handlers do, on the ports
\* that switch on the spot (on Cortex-M the queue_deferred run shows that they do not).
THEOREM QueueKernel ==
  ASSUME ~Deferred
  PROVE  QueueSpec => []QueuePlaces
<1>1. QueuePlaces /\ [QueueNext]_queueVars => QueuePlaces'
  BY QueuePlacesStep
<1> QED
  BY <1>1, QueueInitLemma, PTL DEF QueueSpec

-----------------------------------------------------------------------------
(* The ring *)

RingAgrees ==
  /\ buf \in [Under(MaxMsgs) -> Message] /\ used \in 0..MaxMsgs
  /\ readp \in Under(PtrRange) /\ writep = Rem(readp + used, PtrRange)

\* An index is moved on from wherever it stands.
LEMMA MovedOnLemma ==
  ASSUME NEW a \in Int
  PROVE  Rem(Rem(a, PtrRange) + 1, PtrRange) = Rem(a + 1, PtrRange)
<1>1. PtrRange \in Nat \ {0} /\ PtrRange % PtrRange = 0
  <2>1. PtrRange \in Nat \ {0} /\ PtrRange \in Int
    BY QueueAssumption
  <2> QED
    BY <2>1, ModLemma
<1>2. RingSizes(PtrRange, PtrRange)
  BY <1>1 DEF RingSizes
<1>3. \A i \in Int : Rem(Rem(a, PtrRange) + i, PtrRange) = Rem(a + i, PtrRange)
  BY <1>2, SlotLemma
<1> QED
  BY <1>3

\* A message goes behind those in the ring, or the oldest one leaves.
LEMMA RingStep ==
  ASSUME RingAgrees, (\E m \in Message : Sends(m)) \/ Receives
  PROVE  RingAgrees' /\ (Abstract!FifoSend \/ Abstract!FifoRecv)
<1> DEFINE B == MaxMsgs
           R == PtrRange
           a == readp + used
<1>1. B \in Nat \ {0} /\ R \in Nat \ {0} /\ RingSizes(B, R)
  BY QueueAssumption DEF RingSizes
<1>2. /\ buf \in [Under(B) -> Message] /\ used \in 0..B
      /\ readp \in Under(R) /\ writep = Rem(a, R)
  BY DEF RingAgrees
<1>3. readp \in Int /\ a \in Int /\ used \in Nat
  BY <1>1, <1>2 DEF Under
<1>4. Contents = Content(buf, B, readp, used) /\ Contents' = Content(buf', B, readp', used')
  BY DEF Contents, Content, Slot, Rem
<1>5. Contents \in Seq(Message) /\ Len(Contents) = used
  <2>1. IsContent(Content(buf, B, readp, used), buf, B, readp, used, Message)
    BY <1>1, <1>2, <1>3, ContentLemma
  <2> QED
    BY <1>4, <2>1 DEF IsContent
<1>6. ASSUME NEW m \in Message, Sends(m) PROVE RingAgrees' /\ Abstract!FifoSend
  <2>1. /\ used # B /\ buf' = [buf EXCEPT ![Slot(writep)] = m]
        /\ writep' = Wraps(writep + 1) /\ used' = used + 1 /\ readp' = readp
    BY <1>6 DEF Sends
  <2>2. Slot(writep) = Rem(a, B)
    <3> HIDE DEF a
    <3>1. Rem(Rem(a, R), B) = Rem(a, B)
      BY <1>1, <1>3, SlotLemma
    <3> QED
      BY <1>2, <3>1 DEF Slot, Rem
  <2>3. StoredBehind(buf', buf, B, readp, used, used', m)
    BY <2>1, <2>2 DEF StoredBehind
  <2>4. used < B
    BY <1>1, <1>2, <2>1
  <2> DEFINE new == buf'
             n == used'
  <2> HIDE DEF B, R
  <2>5. new \in [Under(B) -> Message] /\ OneMore(new, buf, B, readp, used, n, m)
    <3>1. StoredBehind(new, buf, B, readp, used, n, m)
      BY <2>3
    <3> HIDE DEF new, n
    <3> QED
      BY <1>1, <1>2, <1>3, <2>4, <3>1, StoreLemma
  <2>6. Contents' = Append(Contents, m)
    BY <1>4, <2>1, <2>5 DEF OneMore
  <2>7. Abstract!FifoSend
    BY <1>5, <2>4, <2>6 DEF Abstract!FifoSend, B
  <2>8. writep' = Rem(readp' + used', R)
    <3> HIDE DEF a
    <3>1. Rem(Rem(a, R) + 1, R) = Rem(a + 1, R)
      BY <1>3, MovedOnLemma DEF R
    <3>2. writep' = Rem(a + 1, R)
      BY <1>2, <2>1, <3>1 DEF Wraps, Rem, R
    <3>3. readp' + used' = a + 1
      BY <1>3, <2>1 DEF a
    <3> QED
      BY <3>2, <3>3
  <2>9. used' \in 0..B
    BY <1>1, <1>3, <2>1, <2>4
  <2> QED
    BY <1>2, <2>1, <2>5, <2>7, <2>8, <2>9 DEF RingAgrees, B, R
<1>7. ASSUME Receives PROVE RingAgrees' /\ Abstract!FifoRecv
  <2>1. used # 0 /\ readp' = Wraps(readp + 1) /\ used' = used - 1 /\ UNCHANGED <<buf, writep>>
    BY <1>7 DEF Receives
  <2>2. readp' = Rem(readp + 1, R)
    BY <2>1 DEF Wraps, Rem
  <2>3. used > 0 /\ used' \in 0..B
    BY <1>1, <1>2, <2>1
  <2> HIDE DEF B, R
  <2>4. Content(buf, B, Rem(readp + 1, R), used - 1) = Tail(Content(buf, B, readp, used))
    <3> DEFINE bytes == buf
               tail == readp
               n == used
    <3>1. /\ RingSizes(B, R) /\ bytes \in [Under(B) -> Message] /\ tail \in Under(R)
          /\ n \in Nat /\ n > 0
      BY <1>1, <1>2, <1>3, <2>3
    <3> HIDE DEF bytes, tail, n
    <3>2. Content(bytes, B, Rem(tail + 1, R), n - 1) = Tail(Content(bytes, B, tail, n))
      BY ONLY <3>1, DropLemma
    <3> QED
      BY <3>2 DEF bytes, tail, n
  <2>5. Contents' = Tail(Contents)
    BY <1>4, <2>1, <2>2, <2>4
  <2>6. Abstract!FifoRecv
    <3>1. Contents # <<>>
      BY <1>5, <2>3
    <3> QED
      BY <2>5, <3>1 DEF Abstract!FifoRecv
  <2>7. Rem(readp + 1, R) \in Under(R)
    BY <1>1, <1>2, NextIndex
  <2>8. writep' = Rem(readp' + used', R)
    <3> DEFINE b == readp + 1
               i == used - 1
    <3>0. b \in Int /\ i \in Int /\ b + i = a /\ used' = i
      BY <1>3, <2>1
    <3> HIDE DEF a, b
    <3>1. Rem(Rem(b, R) + i, R) = Rem(b + i, R)
      <4>1. RingSizes(R, R)
        <5>1. R \in Nat \ {0} /\ R \in Int
          BY <1>1
        <5>2. R % R = 0
          BY <5>1, ModLemma
        <5> QED
          BY <5>1, <5>2 DEF RingSizes
      <4> HIDE DEF i
      <4> QED
        BY <3>0, <4>1, SlotLemma
    <3>2. readp' = Rem(b, R) /\ writep' = Rem(a, R)
      BY <1>2, <2>1, <2>2 DEF b
    <3> QED
      BY <3>0, <3>1, <3>2
  <2> QED
    BY <1>2, <2>1, <2>2, <2>3, <2>6, <2>7, <2>8 DEF RingAgrees, B, R
<1> QED
  BY <1>6, <1>7

FifoStep == [Abstract!FifoSend \/ Abstract!FifoRecv]_Contents

\* Every step of the queue keeps the ring and is a step of the FIFO or none.
LEMMA FifoStepLemma ==
  ASSUME QueuePlaces, RingAgrees, [QueueNext]_queueVars
  PROVE  RingAgrees' /\ FifoStep
<1>1. CASE UNCHANGED queue
  <2>1. Contents' = Contents
    BY <1>1 DEF Contents, queue
  <2>2. RingAgrees'
    BY <1>1 DEF RingAgrees, queue
  <2> QED
    BY <2>1, <2>2 DEF FifoStep
<1>2. CASE (\E m \in Message : Sends(m)) \/ Receives
  BY <1>2, RingStep DEF FifoStep
<1>3. CASE UNCHANGED queueVars
  BY <1>1, <1>3 DEF queueVars, queue
<1>4. CASE QueueNext
  BY <1>1, <1>2, <1>4, QueueCases DEF Blocks, Waits, GivesUp
<1> QED
  BY <1>3, <1>4

\* The ring is empty at first.
LEMMA RingInitLemma == QueueInit => RingAgrees /\ Contents = <<>>
<1> SUFFICES ASSUME QueueInit PROVE RingAgrees /\ Contents = <<>>
  OBVIOUS
<1>1. /\ buf \in [Under(MaxMsgs) -> Message] /\ used = 0 /\ readp = 0 /\ writep = 0
  BY DEF QueueInit, Under
<1>2. MaxMsgs \in Nat \ {0} /\ PtrRange \in Nat \ {0}
  BY QueueAssumption
<1>3. Rem(0, PtrRange) = 0
  BY <1>2, ModLemma DEF Rem
<1>4. RingAgrees
  BY <1>1, <1>2, <1>3 DEF RingAgrees, Under
<1>5. Contents = <<>>
  <2>1. Contents = Content(buf, MaxMsgs, readp, used) /\ readp \in Int /\ used \in Nat
    BY <1>1 DEF Contents, Content, Slot, Rem
  <2>2. IsContent(Content(buf, MaxMsgs, readp, used), buf, MaxMsgs, readp, used, Message)
    BY <1>1, <1>2, <2>1, ContentLemma
  <2>3. Contents \in Seq(Message) /\ Len(Contents) = 0
    BY <1>1, <2>1, <2>2 DEF IsContent
  <2> QED
    BY <2>3
<1> QED
  BY <1>4, <1>5

\* Messages leave in the order in which they came, each once, however often the indices
\* wrap and whoever sends and receives, threads that wait and handlers (nd_queue_send,
\* nd_queue_recv): the queue implements the bounded FIFO.
THEOREM QueueImplements ==
  ASSUME ~Deferred
  PROVE  QueueSpec => QueueIsFifo
<1>1. QueueInit => QueuePlaces /\ RingAgrees /\ Contents = <<>>
  BY QueueInitLemma, RingInitLemma
<1>2. QueuePlaces /\ RingAgrees /\ [QueueNext]_queueVars => QueuePlaces' /\ RingAgrees'
  BY QueuePlacesStep, FifoStepLemma
<1>3. QueuePlaces /\ RingAgrees /\ [QueueNext]_queueVars =>
        [Abstract!FifoSend \/ Abstract!FifoRecv]_Contents
  BY FifoStepLemma DEF FifoStep
<1> QED
  BY <1>1, <1>2, <1>3, PTL DEF QueueSpec, QueueIsFifo, Abstract!FifoAbstract

-----------------------------------------------------------------------------
(* Nothing is left to nobody *)

\* NoLostWakeup.
Watched ==
  /\ k.wait[empty] # <<>> => Cardinality(WokenIn(empty)) >= used
  /\ k.wait[full] # <<>> => Cardinality(WokenIn(full)) >= MaxMsgs - used

\* Nobody inside a loop of the queue is suspended or dead; the woken ones are counted.
WakesAgree ==
  /\ \A q \in Object : IsFiniteSet(WokenIn(q))
  /\ CallersLive /\ Watched

\* A message that arrives, or a slot that becomes free, has its receiver or sender, and
\* a thread that returns with one takes no more than one.
LEMMA HandedOnLemma ==
  ASSUME ~Deferred, QueuePlaces, RingAgrees, WakesAgree,
         \/ \E m \in Message : Sends(m) /\ ComesBack(empty)
         \/ Receives /\ ComesBack(full)
  PROVE  WakesAgree'
<1>1. full \in Object /\ empty \in Object /\ full # empty /\ Object = {full, empty}
  BY QueueLemma
<1>0. LoopPlaces /\ CallersLive
  BY DEF QueuePlaces, WakesAgree
<1>2. used \in 0..MaxMsgs /\ MaxMsgs \in Nat
  BY QueueAssumption DEF RingAgrees
<1>3. IsFiniteSet(WokenIn(full)) /\ IsFiniteSet(WokenIn(empty)) /\ Watched
  BY <1>1 DEF WakesAgree
<1> DEFINE we == Cardinality(WokenIn(empty))
           wf == Cardinality(WokenIn(full))
<1>4. we \in Nat /\ wf \in Nat
  BY <1>3, WokenLemma
<1>5. CASE \E m \in Message : Sends(m) /\ ComesBack(empty)
  <2>1. /\ used' = used + 1 /\ HandsOn(empty) /\ ComesBack(empty)
    BY <1>5 DEF Sends
  <2>2. /\ CallersLive'
        /\ \A p \in Object : k'.wait[p] # <<>> => k.wait[p] # <<>>
        /\ k.wait[empty] # <<>> => \E h : Gains(empty, h)
        /\ k.wait[empty] = <<>> => WokenIn(empty)' = WokenIn(empty)
        /\ \E t : AtMostLoses(full, t)
    BY <1>0, <1>1, <2>1, HandsCounts
  <2>3. /\ IsFiniteSet(WokenIn(empty)')
        /\ k.wait[empty] # <<>> => Cardinality(WokenIn(empty)') = we + 1
    BY <1>3, <2>2, WokenLemma
  <2>4. /\ IsFiniteSet(WokenIn(full)') /\ Cardinality(WokenIn(full)') \in Nat
        /\ Cardinality(WokenIn(full)') >= wf - 1
    BY <1>3, <2>2, WokenLemma
  <2>5. /\ k.wait[empty] # <<>> => we >= used
        /\ k.wait[full] # <<>> => wf >= MaxMsgs - used
    BY <1>3 DEF Watched
  <2> DEFINE ve == Cardinality(WokenIn(empty)')
             vf == Cardinality(WokenIn(full)')
  <2> HIDE DEF we, wf, ve, vf
  <2>6. k'.wait[empty] # <<>> => ve >= used'
    BY <1>1, <1>2, <1>4, <2>1, <2>2, <2>3, <2>5 DEF ve
  <2>7. k'.wait[full] # <<>> => vf >= MaxMsgs - used'
    BY <1>1, <1>2, <1>4, <2>1, <2>2, <2>4, <2>5 DEF vf
  <2> QED
    BY <1>1, <2>2, <2>3, <2>4, <2>6, <2>7 DEF WakesAgree, Watched, ve, vf
<1>6. CASE Receives /\ ComesBack(full)
  <2>1. /\ used' = used - 1 /\ HandsOn(full) /\ ComesBack(full)
    BY <1>6 DEF Receives
  <2>2. /\ CallersLive'
        /\ \A p \in Object : k'.wait[p] # <<>> => k.wait[p] # <<>>
        /\ k.wait[full] # <<>> => \E h : Gains(full, h)
        /\ k.wait[full] = <<>> => WokenIn(full)' = WokenIn(full)
        /\ \E t : AtMostLoses(empty, t)
    BY <1>0, <1>1, <2>1, HandsCounts
  <2>3. /\ IsFiniteSet(WokenIn(full)')
        /\ k.wait[full] # <<>> => Cardinality(WokenIn(full)') = wf + 1
    BY <1>3, <2>2, WokenLemma
  <2>4. /\ IsFiniteSet(WokenIn(empty)') /\ Cardinality(WokenIn(empty)') \in Nat
        /\ Cardinality(WokenIn(empty)') >= we - 1
    BY <1>3, <2>2, WokenLemma
  <2>5. /\ k.wait[empty] # <<>> => we >= used
        /\ k.wait[full] # <<>> => wf >= MaxMsgs - used
    BY <1>3 DEF Watched
  <2> DEFINE ve == Cardinality(WokenIn(empty)')
             vf == Cardinality(WokenIn(full)')
  <2> HIDE DEF we, wf, ve, vf
  <2>6. k'.wait[empty] # <<>> => ve >= used'
    BY <1>1, <1>2, <1>4, <2>1, <2>2, <2>4, <2>5 DEF ve
  <2>7. k'.wait[full] # <<>> => vf >= MaxMsgs - used'
    BY <1>1, <1>2, <1>4, <2>1, <2>2, <2>3, <2>5 DEF vf
  <2> QED
    BY <1>1, <2>2, <2>3, <2>4, <2>6, <2>7 DEF WakesAgree, Watched, ve, vf
<1> QED
  BY <1>5, <1>6

\* No other step wakes anybody for the queue, or takes back a wakeup.
LEMMA WakesAlike ==
  ASSUME WakesAgree, UNCHANGED used, \A q \in Object : WokenIn(q)' = WokenIn(q),
         CallersLive',
         \A q \in Object : \/ k'.wait[q] # <<>> => k.wait[q] # <<>>
                           \/ used = IF q = full THEN MaxMsgs ELSE 0,
         used \in 0..MaxMsgs
  PROVE  WakesAgree'
<1>1. full \in Object /\ empty \in Object /\ full # empty
  BY QueueLemma
<1>2. IsFiniteSet(WokenIn(full)) /\ IsFiniteSet(WokenIn(empty)) /\ Watched
  BY <1>1 DEF WakesAgree
<1> DEFINE we == Cardinality(WokenIn(empty))
           wf == Cardinality(WokenIn(full))
<1>3. we \in Nat /\ wf \in Nat /\ used \in Nat /\ MaxMsgs \in Nat
  BY <1>2, WokenLemma, QueueAssumption
<1>4. /\ Cardinality(WokenIn(empty)') = we /\ Cardinality(WokenIn(full)') = wf
      /\ \A q \in Object : IsFiniteSet(WokenIn(q)')
  BY <1>1 DEF WakesAgree
<1>5. /\ k.wait[empty] # <<>> => we >= used
      /\ k.wait[full] # <<>> => wf >= MaxMsgs - used
  BY <1>2 DEF Watched
<1> HIDE DEF we, wf
<1>6. k'.wait[empty] # <<>> => we >= used'
  BY <1>1, <1>3, <1>5
<1>7. k'.wait[full] # <<>> => wf >= MaxMsgs - used'
  BY <1>1, <1>3, <1>5
<1>8. Watched'
  BY <1>4, <1>6, <1>7 DEF Watched
<1> QED
  BY <1>4, <1>8 DEF WakesAgree

\* Every step keeps the wakeups, where nobody is suspended or aborted inside a call.
LEMMA WakesStep ==
  ASSUME ~Deferred, {"suspend", "abort"} \cap (Calls \cup IsrCalls) = {},
         QueuePlaces, RingAgrees, WakesAgree, [QueueNext]_queueVars
  PROVE  WakesAgree'
<1>0. /\ used \in 0..MaxMsgs /\ MaxMsgs \in Nat \ {0}
      /\ Object = {full, empty} /\ full # empty /\ LoopPlaces /\ CallersLive
  BY QueueLemma, QueueAssumption DEF RingAgrees, QueuePlaces, WakesAgree
<1>1. CASE UNCHANGED queueVars
  <2>1. /\ \A q \in Object : WokenIn(q)' = WokenIn(q)
        /\ k' = k /\ inside' = inside /\ used' = used
    BY <1>1 DEF queueVars, WokenIn
  <2> QED
    BY <1>0, <2>1, WakesAlike DEF CallersLive
<1>2. CASE QueueNext
  <2>0. /\ call' \in [Thread -> Arguments]
        /\ \/ ~Looping /\ Next /\ UNCHANGED queue
           \/ \E q \in Object, timeout \in 0..MaxDelay \cup {Forever} : Blocks(q, timeout)
           \/ \E m \in Message : Sends(m) /\ ComesBack(empty)
           \/ Receives /\ ComesBack(full)
           \/ GivesUp
    BY <1>2, QueueCases
  <2>1. CASE ~Looping /\ Next /\ UNCHANGED queue
    <3>1. /\ CallersLive'
          /\ \A q \in Object : /\ WokenIn(q)' = WokenIn(q)
                               /\ k'.wait[q] # <<>> => k.wait[q] # <<>>
      <4>1. ~InLoop /\ Next
        BY <2>1 DEF Looping, InLoop
      <4> QED
        BY <1>0, <4>1, NextCounts
    <3>2. UNCHANGED used
      BY <2>1 DEF queue
    <3> QED
      BY <1>0, <3>1, <3>2, WakesAlike
  <2>2. ASSUME NEW q \in Object, NEW timeout \in 0..MaxDelay \cup {Forever}, Blocks(q, timeout)
        PROVE  WakesAgree'
    <3> DEFINE c == k.cur
    <3>1. /\ CallersLive' /\ AtMostLoses(q, c)
          /\ \A p \in Object \ {q} : /\ WokenIn(p)' = WokenIn(p)
                                     /\ k'.wait[p] # <<>> => k.wait[p] # <<>>
      BY <1>0, <2>2, WaitsCounts DEF Blocks
    <3> HIDE DEF c
    <3>2. used = (IF q = full THEN MaxMsgs ELSE 0) /\ UNCHANGED used
      BY <2>2 DEF Blocks, queue
    <3>3. IsFiniteSet(WokenIn(q)') /\ Cardinality(WokenIn(q)') \in Nat
      BY <3>1, WokenLemma DEF WakesAgree
    <3>4. \A p \in Object : IsFiniteSet(WokenIn(p)')
      BY <3>1, <3>3 DEF WakesAgree
    <3>5. Watched'
      <4>1. CASE q = full
        <5>1. used' = MaxMsgs /\ Cardinality(WokenIn(full)') \in Nat
          BY <3>2, <3>3, <4>1
        <5>2. WokenIn(empty)' = WokenIn(empty) /\ (k'.wait[empty] # <<>> => k.wait[empty] # <<>>)
          BY <1>0, <3>1, <4>1
        <5>3. Cardinality(WokenIn(full)') >= MaxMsgs - used'
          BY <1>0, <5>1
        <5> QED
          BY <3>2, <5>2, <5>3 DEF WakesAgree, Watched
      <4>2. CASE q = empty
        <5>1. used' = 0 /\ Cardinality(WokenIn(empty)') \in Nat
          BY <1>0, <3>2, <3>3, <4>2
        <5>2. WokenIn(full)' = WokenIn(full) /\ (k'.wait[full] # <<>> => k.wait[full] # <<>>)
          BY <1>0, <3>1, <4>2
        <5>3. Cardinality(WokenIn(empty)') >= used'
          BY <5>1
        <5> QED
          BY <3>2, <5>2, <5>3 DEF WakesAgree, Watched
      <4> QED
        BY <1>0, <4>1, <4>2
    <3> QED
      BY <3>1, <3>4, <3>5 DEF WakesAgree
  <2>3. CASE GivesUp
    <3>1. CallersLive' /\ \A q \in Object : WokenIn(q)' = WokenIn(q)
      BY <1>0, <2>3, LeavesCounts DEF GivesUp
    <3>2. UNCHANGED used /\ k' = k
      BY <2>3 DEF GivesUp, LeavesLoop, queue
    <3> QED
      BY <1>0, <3>1, <3>2, WakesAlike
  <2>4. CASE \/ \E m \in Message : Sends(m) /\ ComesBack(empty)
             \/ Receives /\ ComesBack(full)
    BY <2>0, <2>4, HandedOnLemma
  <2> QED
    BY <2>0, <2>1, <2>2, <2>3, <2>4
<1> QED
  BY <1>1, <1>2

\* Nobody waits at first.
LEMMA WakesInitLemma == QueueInit => WakesAgree
<1> SUFFICES ASSUME QueueInit PROVE WakesAgree
  OBVIOUS
<1>1. inside = [t \in Thread |-> NoThread] /\ k.wait = [q \in WaitQueue |-> <<>>]
  BY DEF QueueInit, Init
<1>2. full \in WaitQueue /\ empty \in WaitQueue /\ NoThread \notin Object
  BY QueueLemma
<1>3. \A q \in Object : WokenIn(q) = {}
  BY <1>1, <1>2 DEF WokenIn
<1>4. Watched
  BY <1>1, <1>2 DEF Watched
<1> QED
  BY <1>1, <1>2, <1>3, <1>4, FS_EmptySet DEF WakesAgree, CallersLive

\* While receivers wait, every message has one on its way, and while senders wait every
\* free slot has one; the ring and the kernel's tables agree (nd_queue_send, nd_queue_recv).
\* A thread suspended or aborted inside its call takes its wakeup with it.
THEOREM QueueKeeps ==
  ASSUME ~Deferred, {"suspend", "abort"} \cap (Calls \cup IsrCalls) = {}
  PROVE  QueueSpec => []QueueInv
<1>1. QueueInit => QueuePlaces /\ RingAgrees /\ WakesAgree
  BY QueueInitLemma, RingInitLemma, WakesInitLemma
<1>2. QueuePlaces /\ RingAgrees /\ WakesAgree /\ [QueueNext]_queueVars =>
        QueuePlaces' /\ RingAgrees' /\ WakesAgree'
  BY QueuePlacesStep, FifoStepLemma, WakesStep
<1>3. Watched => NoLostWakeup
  BY DEF Watched, NoLostWakeup, WokenIn, Woken
<1>4. QueuePlaces /\ RingAgrees /\ WakesAgree => QueueInv
  BY <1>3, KernelInvForm
     DEF QueuePlaces, LoopPlaces, RingAgrees, WakesAgree, QueueInv, IndicesAgree, Wraps, Rem
<1> QED
  BY <1>1, <1>2, <1>4, PTL DEF QueueSpec

=============================================================================
