# NerdRTOS in TLA+

A formal model of the NerdRTOS kernel: TLA+ modules translated from the C and
assembly sources (scheduler, threads, timers, mutex, semaphore, message queue,
event flags, block pool, heap, red-black tree, lists, context switch, receive
ring, shell, C library), TLC configurations that check them on small instances,
and TLAPS proofs for every value of the constants: of the invariants of the
scheduler, the objects over it, timer service, context switch, receive ring,
lists and heap, and that semaphore, queue and ring implement what they promise.

## The system

NerdRTOS is a preemptive kernel for one core.  It runs on Cortex-M3/M4/M7/M33,
where a context switch is left to the PendSV exception, and on Cortex-A9 and
RV32, where it is made on the spot or at the end of a handler.

| part | sources | state | operations |
|---|---|---|---|
| scheduler | `kernel/nd_scheduler.c` | ready list per priority, bitmap of the non-empty ones, current and next thread, interrupt nest count, pending request, slice accounts | `nd_scheduler`, yield, delay, slice timeout, handler entry and exit, the switch |
| thread lifecycle | `kernel/nd_thread.c` | state, priority, error, timer, join list of each thread | create, abort, return, suspend, resume, join; pend, wakeup and timeout for every blocking call |
| software timers | `kernel/nd_timer.c`, `arch/arm/a9/timer.c`, `bsp/raspi-pico2/nd_hrtimer.c` | tree of armed timers by expiry, the hardware alarm | init, start, stop, the expiry loop and its callbacks |
| mutex | `kernel/nd_mutex.c` | owner, inherited priority, wait list, per-thread list of taken mutexes | lock, unlock, priority inheritance |
| semaphore | `kernel/nd_sem.c` | value, wait list | take, release |
| message queue | `kernel/nd_queue.c` | ring of slots, two counters, two wait lists | send, receive |
| event flags | `kernel/nd_event.c` | set of flags, wait list, each waiter's mask | send, receive |
| block pool | `kernel/nd_mempool.c` | free list threaded through the blocks, wait list | alloc, free |
| heap | `kernel/nd_memheap.c`, `kernel/nd_mem.c` | physical list, free list, available size | alloc, free, realloc |
| red-black tree | `lib/rbtree.c` | links, colours, augmentation of each node | insert, erase, replace, rotate, iterate |
| list | `include/nd_list.h` | links of heads and nodes | insert, remove, walk, walk with removals |
| ports | `arch/` | PendSV pending, saved frames | switch, handler entry and exit, interrupt lock |
| receive ring | `bsp/*/shell_port.c`, `usart.c` of the NUCLEO-H755ZI-Q | 64 bytes, two 8-bit indices, a semaphore | receive in the handler, `shell_getc` |
| shell | `components/shell` | line, line end of the terminal, escape state, history ring | edit, browse, parse, execute |
| C library | `kernel/nd_klibc.c` | none | copy, format, split a line, compare |
| tests, boards | `components/ntest`, `bsp/` | none of the kernel's | - |

**Interaction.**  Every API call runs with interrupts masked
(`nd_kernel_lock`), changes the shared tables through the internal functions
(`nd_thread_ready_*`, `nd_thread_pend`, `nd_thread_wakeup`, `nd_timer_*`) and
ends in `nd_scheduler`.  Inside a handler `nd_scheduler` only leaves a request
(`nd_interrupt_try_switch`) for the end of the outermost handler.  The tick
handler expires timers, whose callbacks make threads ready.  A thread sits on at
most one list (`qnode`): the ready list of its priority or the wait list of
what it waits for.

**What is hard.**  The order of calls of threads, handlers and timer callbacks;
a wait that ends in several ways at once (wakeup, timeout, suspend, abort); the
time between the choice of the next thread and a deferred switch; nested
handlers that each leave a request; slice accounts kept both as a timer and as
a number; inherited priorities that must be taken back exactly once; loops that
re-test a condition after a switch that may not have happened yet; a receive
ring counted twice; frames of one layout entered the way of the other; line
ends of one or two bytes whose second byte may be lost.

**What makes it correct**, part by part: tables that describe the same thing
agree between two steps (scheduler, timers, wait lists); the most urgent ready
thread runs, and peers share the CPU; nobody blocks without somebody who can
wake it; a blocking call reports what happened; a mutex has one owner, and its
priority is the one its waiters need; semaphores, queues and pools neither lose
nor duplicate what they hold; allocators keep their blocks apart; a thread finds
its registers again, however it was left; bytes come out of the ring as they
went in, and the shell makes of them the line that was typed.  PROJECT.json
lists the hazards at their lines.

## How the model is built

`NdKernel` declares no variable.  The kernel is a record, `KernelState`, and
each internal function of the code is an operator from a record to a record; an
API call, one critical section in the code, is the composition of the calls its
body makes, and one action.  The two loops that run inside a critical section
(`timer_expired`, and the wakeups of `nd_thread_halt`) take one action per
iteration, during which `Masked` disables everything else.

| module | models |
|---|---|
| `NdKernel` | kernel record; ready queues, thread timers, wait lists, `nd_scheduler`, the switch; the agreement predicates |
| `NdInterrupt` | who may call when; handler entry and exit, nesting, the tick and its callbacks, PendSV |
| `NdSched` | the scheduler and lifecycle API as actions, their clients, properties, fairness |
| `NdMutex` | mutexes, taken mutexes and inherited priorities over `NdSched` |
| `CountingSem`, `NdSem` | what a semaphore promises; the semaphore over `NdSched`, which implements it |
| `BoundedFifo`, `NdQueue` | what a queue promises; the ring with its waiting loops over `NdSched`, which implements it |
| `NdEvent` | event flags over `NdSched` |
| `NdMempool` | the block pool with its threaded free list over `NdSched` |
| `NdTimer` | the timer service on its own: one-shot and periodic timers, callbacks, absolute times, ticks or a hardware alarm |
| `RbTree`, `TimerTree` | the red-black tree as operators on links and colours, with its augmentation calls; the timer tree against the sorted sequence that `NdKernel` and `NdTimer` use for it |
| `NdList` | the circular lists of pointers against the sequences the other modules use for them |
| `NdMemHeap` | the heap: its two lists through addresses, splitting, merging, the ways of realloc |
| `NdContext` | frames, registers, interrupt masks and exceptions of RV32, Cortex-A9 and Cortex-M under arbitrary choices of the next thread |
| `UartRing` | the receive ring between handler and shell thread, which implements `BoundedFifo`; its semaphore is a `CountingSem` |
| `LineEditor`, `NdShell` | what the shell promises at a terminal; the shell byte by byte, which implements it |
| `NdKlibc` | `nd_memcpy` and `nd_vsnprintf` against what they mean |
| `MC*` | threads, priorities, masks and keys of the small instances; `MCParts` runs the six parts that share no state, each by itself |
| `SeqLemmas` | lemmas about sequences and rings |
| `NdSchedProofs` | lemmas about every operator of `NdKernel`; the proofs about the scheduler |
| `NdSemProofs`, `NdQueueProofs`, `NdEventProofs`, `NdMempoolProofs`, `NdMutexProofs` | the proofs about the objects over it |
| `NdPartProofs` | the proofs about the parts on their own: context switch, receive ring, timer service, lists, heap |

State and code:

* `stat`, `prio`, `yield`, `error`, `left` are fields of `nd_thread_t`; `ran` is
  `now - slice_start`, with -1 for `slice_start = 0`; `tick0` says that the tick
  count is still 0, the one moment at which a started slice looks like one that
  was not started.
* `ready`, `bits`, `cur`, `next`, `nest`, `try` are the globals of
  `nd_scheduler.c`.  A list is a sequence, head first.  Removing a node that is
  on no list is a write through `ND_NULL` in the code; the model sets `fault`
  and stops.
* `timers` is the timer tree in order of expiry, equal times in order of
  insertion, each with the ticks it has left.  Absolute times and the tree
  itself are abstracted; a timer keeps who it belongs to and which callback it
  carries, because `thread->timer` serves both delays and wait timeouts.
* A tick interrupt is entered, counted and the lock of `nd_timer_process` taken in
  one step.  On Cortex-M another handler may come in between (systick.c:46); with
  the nest count above zero it only changes lists and asks, and no call of a handler
  reads the clock, so that it acts as if it had come before the tick, inside an
  outer handler.
* `pendsv`, `isr` stand for the hardware: the pending exception and the active
  handlers, innermost last, each before or after `nd_exit_interrupt`.
* `expiring`, `halting` are the program counters of the two loops.
* `inside[t]` is the wait queue whose blocking call thread `t` is in.

`Deferred` selects the port: TRUE for Cortex-M (`nd_hw_do_switch` pends
PendSV), FALSE for Cortex-A9 and RISC-V, which switch at once and keep
interrupts masked in handlers (so `MaxNest` is 1 there).  Board configurations
write `ND_CFG_TICKLESS ND_NO`, or `Y` with `Y` undefined, which the preprocessor
takes for 0: tick mode is what every board builds, and what `NdKernel` models.
`NdTimer` has both modes.

The IPC modules add the object's own fields to the kernel record and reuse the
actions of `NdSched` unchanged, so that delays, ticks, handlers, suspends and
resumes interleave with the object's calls:

* `NdMutex`: `owner`, `boost` (`mutex->priority`); the taken list of a thread is
  the set of the mutexes it owns.  `holds` is history, what callers were told.
* `NdSem`: `val`; `units` is history, the units released and not yet taken, and
  is what refines `CountingSem`.
* `NdQueue`: `buf`, `used`, `readp`, `writep` of `PtrRange` values.  A thread that
  waits is in a loop (`Looping`): the loop re-tests when `nd_scheduler` returns,
  before anything else can happen.  The refinement maps the slots from `readp`
  on to the abstract sequence.
* `NdEvent`: `set`, and per thread the flags it waits for and how.
* `NdMempool`: `link` is the first word of each block, which a client that holds
  the block overwrites; `free_list`, `free_count`; `given` is history.
* `NdMemHeap`: items by address, the used bit being the lowest bit of `next`,
  sizes modulo `Wrap`.  The code only subtracts addresses, so that an address is
  its distance from the start of the pool, upwards and around: a control block
  below the pool, where every board has it, comes last as one above it does.
  `unpaid` is history, the bytes a realloc took and did not charge.  The heap is
  sequential: every call is one critical section that calls no scheduler.
* `NdTimer`: `q` holds the tree (as a sequence), the expiry times, the alarm and
  its pending interrupt; `phase` is where the timer interrupt is.  In tickless
  mode the clock may advance between any two steps, and `nd_timer_start` takes
  two: the time is read in the first and tested in the second.  `since` and
  `fires` are history.
* `TimerTree`: `sorted` is the specification, `tree` the links, `sizes` the
  augmentation: the number of nodes below each node, kept by the calls a client
  makes around insertion and removal.
* `NdList`: `link` is `next` and `prev` of heads and nodes; `lists` the
  specification; `walk` the two pointers of `nd_list_for_each_entry_safe`.
* `NdContext`: a register is the mark of who wrote it last, in two groups (those
  a C function preserves, and the others); `cpu` is the processor, `stk` the
  frames of each thread, `irqs` the results of `nd_hw_irq_save` not yet given
  back, `pend` the PendSV.  `mine` is history, what a thread has to find.
* `UartRing`: `rx_buf` as in the code, `rx_sem` the units, `getc` where
  `shell_getc` is: the handler may come between any two of its steps.  `port`
  chooses between the two ways in which boards test for a full ring.
* `NdShell`: `sh` holds the statics of `nd_shell.c`; `running` what the shell does
  about a line.  `newline`, `sending` and `lost` are the terminal: its way to end
  lines, the rest of the key it sends, and the bytes the full ring has dropped.
* `NdKlibc`: `called` is the last call and its result; each call is one action.

Clients are as general as the API allows: the running thread may make any call
of `Calls` with any argument, any number of times; handlers make those of
`IsrCalls`.  They only use handles of threads that were created.

## Runs

Every run covers all behaviours of its instance, of any length: nothing is
bounded but the named constants.

*Scheduler.*  Three threads and the idle thread (two and idle in `sched_all`),
three priorities, delays and timeouts of at most `MaxDelay` = 1 tick or for
ever, slices of 1 or 2 ticks, one handler.  Three threads of two priorities are
what the interesting cases need: a running thread, a peer queued behind it and a
more urgent one that waits.  A timeout of one tick already meets wakeups,
suspends and aborts before, in and after the tick that expires it; two slices
of different length end at different ticks.

*Objects.*  The same kernel with three threads of two or three priorities and
idle.  One or two mutexes; a semaphore bounded by `MaxVal` = 2, with two nested
handlers; a queue of two messages whose indices are cut to `PtrRange` = 4 values,
so that they wrap after four messages as they do after 2^32; two flags; a pool
of three blocks, one fewer than the threads and handlers that ask for them.

*Timers and tree.*  Two timers, in both modes: enough for timers that are due
together, that overtake each other and that fire several times late.  `TimeMax`
= 15 stands for 2^64 - 1, far above the clock's bound `MaxNow` = 4, and
`Reach` = 2 for the range of the A9's counter, so that alarms ring early.  The
tree has ten nodes, two pairs of equal keys: every case of insertion and removal
and its mirror image happens, including repairs that climb two levels.

*Heap.*  The layout of the boards: the control block, a static in .bss
(nd_mem.c:4), lies below the pool, which starts at `__heap_start`.  The last
free block then reaches from the pool over the rest of the address space to the
control block (`Wrap` = 256 bytes in all), and its size wraps.  A pool of 32
bytes with headers of 4, at most four blocks of three sizes: first fit passes
over blocks, splits leave and do not leave a rest, blocks merge on either side,
blocks lie past the end of the pool, and a realloc splits its neighbour or
swallows it.  `Top` = 48 bounds how far past the end, `MaxUnpaid` = 12 what
swallowing reallocs may take, and `Room` = 4 keeps realloc out of the case in
which its test wraps (see Disagreements).

*List, context, ring, library.*  Two lists of four nodes, so that a loop removes
its first, inner and last node and moves it to a list that is empty or not.
Three threads with critical sections two deep: a thread is left and entered in
each pair of ways while a third has run in between.  A ring of `BUF_SIZE` 4 whose
indices have `IndexRange` 16 values, a multiple of the size as 256 is of 64.
Copies of 0 to 72 bytes between all offsets, which is past every threshold of
`nd_memcpy`; formats of at most two items in buffers of 0, 1, 4 and 7, numbers of
8 bits.  `separate_parts` starts in one of the six parts and stays in it: they
share no variable of the code, so that mixing them would only multiply the
states.

*Shell.*  Lines of at most three bytes, a history of two lines and commands of
one word, so that each limit is met: a full line, a history that drops its
oldest line, a word that is not taken any more.  Four kinds of terminals; where
a line ends in CR LF, one byte may be lost anywhere (`MaxLost`).  There is one
letter besides the bytes of the escape sequences, which the model also sends as
letters after a byte was lost.

| run | asks | properties |
|---|---|---|
| `sched_all` | every call from threads and handlers, recreation of dead threads, slices of 1 and 2: do the kernel's tables ever disagree, is a thread ever blocked with nobody to wake it? | `KernelInv`, `ReadyQueuesAgree`, `OnlyCurrentRuns`, `BlockedCanWake`, `TimersServeWaiters`, `SliceAccountsAgree`, `NoLostReschedule` |
| `sched_live` | Cortex-M, two sliced peers under a preempting thread, a tick that never stops: is preemption immediate, does PendSV switch to the most urgent thread of its own moment, who goes to the front of the queue, do armed waits and timed slices end, does a lone most urgent thread run? | `MostUrgentRuns`, `PreparedIsFirst`, `ReadyOrderKept`, `WaitsEnd`, `UrgentRuns`, `SliceEnds` |
| `mutex_one` | the three threads of a priority inversion, waiting for ever, suspended and resumed: does the owner inherit, is the wait list in order, does the urgent thread get the mutex although the middle one may compute for ever? | `OwnerInherits`, `WaitListsAgree`, `UrgentLocks` |
| `mutex_two` | two mutexes, nested in any order, with timeouts: is there one owner, do ready lists survive changes of priority, is a waiter left at a free mutex, is an inherited priority given back? | `MutexInv`, `HolderOwns`, `PriorityGivenBack` |
| `sem_units` | Cortex-M, releases from threads and two nested handlers: does the semaphore implement `CountingSem`, is a unit lost, or idle while somebody waits, does a request of a nested handler reach the switch? | `SemInv` (with `PreparedIsFirst`), `CountsUnits` |
| `queue_fifo` | does the ring implement `BoundedFifo` over the wrap of its indices and waits that time out and start over, is a wakeup lost? | `QueueInv`, `QueueIsFifo` |
| `queue_deferred` | (violated) is a waiting thread linked once on Cortex-M? | `LinkedOnce` |
| `event_flags` | Cortex-M, waits for all or any of two flags, with timeouts: is a satisfied waiter overlooked, does a flag disappear without a use? | `EventInv`, `SendAccounts` |
| `pool_blocks` | is a block lost, handed out twice, misplaced, or idle while somebody waits? | `PoolInv` |
| `timers` | with ticks and with the A9's alarm: does a callback come early, is a due timer forgotten, do late periodic timers drift, is every due timer served? | `TimerInv`, `NeverEarly`, `NoneOverdue`, `OverdueServed` |
| `separate_parts` | is the tree linked, balanced, in order, equal times in order of start, and counted; do the heap's lists, used bits, accounting and clients agree; are pointer lists the sequences the kernel means; do the ring's counts agree over every interleaving, and is it a FIFO; does a thread find its registers, mask and level again; are copies exact and is text cut off where it must be? | `TreeInv`, `HeapInv`, `ListsAreSequences`, `BytesCounted`, `RingIsFifo`, `ContextKept`, `CopiesExactly`, `FormatsWithin` |
| `shell_lines` | whatever a terminal sends and the ring drops: is the shell a line editor with a history, in which nothing of an older line turns up, and does each key act once? | `EditsLines`, `KeysActOnce` |

**Fairness** (`sched_live`).  `main` starts the scheduler; the tick interrupts
for ever (strong fairness, since another handler or a masked section may hold it
off for a while); handlers return after finitely many calls (strong fairness of
`Exit`, for a nested handler may disable it meanwhile); PendSV is taken when no
handler holds it off; the loops under the lock go on.  Nothing is assumed of
threads, which may compute for ever without a call: that is what preemption is
for.  `mutex_one` adds that whoever holds a mutex unlocks it in the end when it
can run: without this no waiter could be promised anything.  `timers` assumes
that callbacks and calls return and that a pending interrupt is taken although
calls mask it again and again.

## Disagreements

What the repository says and the code does not do.  `queue_deferred` keeps the
gravest of them as a run: on Cortex-M a blocking send or receive pends its
thread again and again.  For the others the table gives the property, which TLC
refutes when the named run's configuration is changed as the third column says;
the passing runs leave out exactly this.

| code | property | instance | what the repository says |
|---|---|---|---|
| `nd_thread_halt` wakes joiners without a reschedule, nd_thread.c:217 | `MostUrgentRuns` | `sched_live`, Deferred FALSE, Calls {create, return, abort, yield, join} | README.md:51 "immediate preemption of lower-priority threads by higher-priority ones" |
| the slice timer is armed only at switch-in with ready peers, nd_scheduler.c:208 | `SlicesShareCPU` | `sched_live`, Calls {create, delay} | README.md:54 "fair CPU sharing among equal-priority threads" |
| `slice_start` = 0 means not started and is also the first tick, nd_scheduler.c:191 | `RestOfSliceKept` | `sched_live`, Calls {create, delay} | doc/调度器.md:40 "被高优先级抢占时保留剩余配额" |
| a joiner that is suspended and resumed reads error `ND_EOK`, nd_thread.c:375 | `JoinTellsTruth` | `sched_live`, Calls {create, return, suspend, resume, join} | doc/线程生命周期.md:176 "`join` 也可以用于判断线程是否已经 `dead`" |
| a handler suspends the thread PendSV will switch to, nd_thread.c:137 | `SuspendedNotScheduled` | `sched_live`, IsrCalls {suspend} | doc/线程生命周期.md:23 "线程被挂起，期间不参与调度" |
| unlock lowers its caller's priority without a reschedule when nobody waits any more, nd_mutex.c:58 | `MostUrgentRuns` | `mutex_one`, LockTimeouts AnyTimeout | README.md:51, as above |
| inheritance is tested only against the owner's priority of the moment, and not passed along a chain, nd_mutex.c:89 | `OwnerInherits` | `mutex_one`, two mutexes | doc/ipc.md:58 "记录等待该互斥量的线程中的最高优先级"; doc/ipc.md:80 |
| a lock with `ND_TIMEOUT_NOWAIT` raises the owner and returns, nd_mutex.c:89 | `RaisedForWaiter` | `mutex_one`, LockTimeouts {0} | doc/ipc.md:69 "只有当高优先级线实际被阻塞的时候" |
| a suspended locker is resumed with `ND_EOK` and owns nothing, nd_thread.c:145 | `HolderOwns` | `mutex_one` | doc/ipc.md:53 "互斥量又叫相互排斥的信号量" |
| the same in `nd_sem_take` | `CountsUnits` | `sem_units`, Calls {suspend}, IsrCalls {resume} | doc/ipc.md:40 "只能通过别的线程释放资源唤醒" |
| `shell_getc` ignores the result of `nd_sem_take` and reads a byte that never came; the tail passes the head, and the 8-bit difference then says that the ring is full, vexpress-a9-qemu/shell_port.c:75 | `BytesCounted` | `separate_parts`, Forced TRUE | doc/ipc.md:40, as above |
| a send clears the flags of one waiter before it tests the next, nd_event.c:49 | `SendWakesAll` | `event_flags` | doc/ipc.md:170 "一对多，多对多的线程间同步" |
| blocks lie at multiples of the size asked for, checks use the aligned size, nd_mempool.c:23 | `PoolInv` (`BlocksAreAligned`) | `pool_blocks`, BlockSize 6 | the assertion nd_mempool.c:72 |
| a release puts the woken thread at the tail of its ready list, nd_thread.c:46 | `WokenFirst` | `sem_units` | doc/ipc.md:50 "插入就绪队列的头部（为了刚唤醒的线程尽快获得CPU）" |
| the last free block extends to the sentinel in the control block and not to the end of the pool, nd_memheap.c:172 | `InsidePool` | `separate_parts` | test_memheap.c:39 "p + 64 <= heap_buf + TEST_HEAP_SIZE" |
| a realloc that swallows its neighbour charges too little, nd_memheap.c:270 | `AllComesBack` | `separate_parts` | test_memheap.c:180 "heap.available_size, avail_before" |
| the split test of realloc wraps, nd_memheap.c:254 | `FreshBlocks` (and `HeapInv`) | `separate_parts`, Room 0 | test_memheap.c:73 "ntest_assert_not_equal(p1, p2)" |
| a target that has passed is refused by the alarm of raspi-pico2, and the test reads an older time, nd_timer.c:59 | `NoneOverdue` | `timers`, PastFails TRUE | doc/NerdRTOS定时器设计文档.md:100 "使其在精确的到期时刻产生一个中断" |
| `now + ND_TIMEOUT_FOREVER` wraps in tick mode, nd_timer.c:200 | `NeverEarly` | `timers`, `TimeMax` among the timeouts of tick mode | doc/NerdRTOS定时器设计文档.md:37 "Current Tick + Timeout" |

The row about the end of the pool concerns every board.  The control block lies in
.bss below `__heap_start`, so that `item_data_size` (nd_memheap.c:17) of the last
block is nearly 4 GB from the first allocation on.  The heap never runs out while
that block is free: a request past the end of the pool is answered with memory the
heap was not given, and `available_size` wraps.  This is why `BlocksInOrder` speaks
of distances and not of addresses, and why `AvailableAgrees` subtracts what lies
between the end of the pool and the sentinel.  `separate_parts` has such blocks.

So the passing runs leave out: in `sched_live` the `abort` of another thread,
and handlers only resume threads (the condition `PreparedStaysFirst` needs); in
`mutex_one` a second mutex and timeouts; in the other object runs suspends; in
`queue_fifo` and `pool_blocks` the port that defers its switch; in the heap a realloc
that would grow over its neighbour's header.

## Proofs

The theorems hold for every value of the constants that satisfies the named
assumptions of the modules (`ThreadAssumption` and so on: at least one thread
besides the idle one, positive slices, objects that are no threads).  Where a
theorem needs more, the table says so; TLC finds the property violated without
it, except for `QueueImplements`, where the table of waiters is damaged without
the hypothesis but no message was seen to be.

| module | theorem | says | hypotheses |
|---|---|---|---|
| `NdSchedProofs` | `KernelInvariant` | `Spec => []KernelInv`, the first inductive invariant | |
| | `TypesHold` | every field keeps its type; a slice account never passes below zero | |
| | `ReadyQueues` | ready lists, bitmap and thread states agree | |
| | `CurrentRuns` | only the current thread is RUNNING, and it is when it executes its own code | |
| | `TimersServe` | a timer that can still fire has a thread that waits for it | |
| | `SliceAccounts` | the timer of a running slice and the account agree; no account is above its slice | |
| | `ReschedulesKept` | no request is left behind by the last handler; a thread that gave way has its switch pending | |
| | `WaitInvariant` | `Spec => []WaitInv`, the second inductive invariant | |
| | `WaitLists` | wait lists hold exactly those blocked there, most urgent first | |
| | `NobodyStranded` | a blocked thread has a timer or a living thread that wakes it | |
| | `OrderKeptInQueues` | `ReadyOrderKept`: who becomes READY queues behind its peers, a preempted thread in front of them; the others keep their places | |
| | `UrgentFirst` | preemption is immediate | nobody aborts another thread |
| | `PreparedStaysFirst` | `PreparedIsFirst`: what PendSV switches to is the first of the ready queues at that moment | handlers only resume |
| `NdSemProofs` | `SemKernel` | kernel and wait list agree under every call | |
| | `SemKeepsUnits` | `SemInv`: no unit is lost, or idle while somebody waits; PendSV switches to the first thread | no suspend, no abort |
| | `SemImplements` | the semaphore implements `CountingSem` | no suspend, no abort |
| `NdQueueProofs` | `QueueKernel` | kernel and both wait lists agree; whoever is in a waiting loop runs alone | `~Deferred` |
| | `QueueImplements` | the ring implements `BoundedFifo` | `~Deferred` |
| | `QueueKeeps` | `QueueInv`: ring and counters agree, no wakeup is lost | `~Deferred`, no suspend, no abort |
| `NdEventProofs` | `NobodyMisses` | `EventInv`: nobody waits for flags that are set | |
| | `FlagsAccounted` | `SendAccounts` | |
| `NdMempoolProofs` | `BlocksAccounted` | `BlocksKept`: no block is lost or handed out twice | |
| | `PoolKernel` | kernel and wait list agree; whoever is in the waiting loop runs alone | `~Deferred` |
| | `PoolKeeps` | `PoolInv`: and no free block is left to nobody | `~Deferred`, no suspend, no abort, aligned size |
| `NdMutexProofs` | `MutexKernel` | `MutexInv`: the kernel agrees, waiters have an owner who is not one of them | |
| | `PrioritiesReturn` | `PriorityGivenBack` | |
| | `MutualExclusion` | `HolderOwns` | no suspend |
| | `Inheritance` | `OwnerInherits` | one mutex |
| `NdPartProofs` | `ContextInvariant`, `ContextIsKept` | a thread finds its registers, mask, level and stack again | |
| | `CountsAgree` | `BytesCounted` | `~Forced` |
| | `RingImplements` | the ring implements `BoundedFifo` | `~Forced` |
| | `TimersOnTree` | `TimerInv` | |
| | `CallbacksOnTime` | `NeverEarly` | `NoWrap` |
| | `NoneForgotten` | `NoneOverdue` | `NoWrap`, `~PastFails` |
| | `ListsKept` | `ListsAreSequences`: the pointers are the sequences | |
| | `HeapKept` | `HeapInv`: both lists, marks, clients and count agree, the control block above or below the pool | even sizes, `Top` at most `StartItem`, `Room` at least one header |

The hypotheses and the code:

* *No suspend, no abort* (`SemKeepsUnits`, `SemImplements`, `QueueKeeps`,
  `PoolKeeps`; of the mutex only suspend): a thread that is suspended or aborted
  between its wakeup and the end of its call takes the unit or the wakeup with
  it, and a waiter that is resumed returns `ND_EOK` although nothing was released
  (nd_thread.c:145).  The lines about resumed waiters under
  Disagreements are what is left out.  `QueueImplements` does not need it: a
  thread that vanishes moves no message.
* *`~Deferred`* for the queue and the pool: on Cortex-M their waiting loops go on
  before the switch has happened, which is what `queue_deferred` shows.
* *Aligned size*: nd_mempool.c:23 places the blocks at multiples of the size
  before it is rounded up, and nd_mempool_free tests with the one after.
* *Nobody aborts*: `nd_thread_halt` wakes joiners without a reschedule
  (nd_thread.c:217).
* *One mutex*: inheritance is tested against the owner's priority of the moment
  and not passed on (nd_mutex.c:89).  `NdMutex` itself assumes that a dead owner is
  not created again (`OwnersStay`): nd_thread_init would empty its taken list and
  leave it the owner (nd_thread.c:268), which `Taken` does not describe.
* *Handlers only resume* (`PreparedStaysFirst`): one that suspends or aborts the
  thread a pending switch was prepared for leaves `nd_next_thread` as it is until
  somebody asks for another switch (nd_thread.c:137).
* *`NoWrap`*: in tick mode clock and timeout are added without a test
  (nd_timer.c:200), so that their sum has to be a time.
* *`~PastFails`*: the alarm of raspi-pico2 refuses targets that have passed.
* *The sizes and bounds of `HeapKept`*: the heap aligns nothing, so an odd size puts
  the next item at an odd address, whose lowest bit is the mark of a used item.
  `Top <= StartItem` lets no block reach the control block, into which the list leads
  (nd_memheap.c:172); past the end of the pool is allowed, over the whole address
  space when the control block lies below the pool.  `Room >= Header` keeps realloc
  from enlarging a block by more than its neighbour's data, where the difference in
  nd_memheap.c:254 is negative and wraps; with exactly the neighbour's data, or less
  than a header short of it, the neighbour is swallowed, which is in.
  `separate_parts` satisfies all three.  Of the layout only `HeapAssumption` is used:
  pool and control block are apart, at even addresses, in either order.
* *`~Forced`*: nobody suspends the shell thread inside `nd_sem_take`, whose
  result `shell_getc` ignores.

**The scheduler.**  The properties are not inductive alone.  That a timer
callback may relink its thread needs that a timer is armed for a blocked thread
only; that unlinking it is safe needs that a `pend` timer's thread is on a wait
list and a `delay` timer's is not; that a wakeup finds a blocked thread needs
that wait lists hold nobody else; that the ready list does not receive a thread
twice needs that the states and the lists agree; and that the current thread may
be requeued needs that nobody else is RUNNING.  That the accounts of a slice agree
needs that the timers are in order of expiry, so that no slice timer is due outside
the loop of `timer_expired`, where a tick would pass without it.  `KernelInv` is the conjunction:
types; `Agree` (ready lists, wait lists, timers, slices, current thread, pending
switch); the nest count is the number of open handlers; `Settled`, a current
thread that gave way is about to be switched away; `DeadUnwaited`, nobody waits
for a dead thread; and, where handlers only resume or the switch is made on the
spot, `Steady`, the thread a pending switch was prepared for is still READY.  `WaitInv` adds where each thread is: `Placed` relates wait lists,
delay timers and `inside`, and `Sorted` gives their order.  `UrgentFirst` has an
invariant of its own, `Urgent`: whenever no handler and no loop is active and no
switch is owed, the current thread is at the front.  `PreparedStaysFirst` has
`SwitchKept`: while a switch is pending and no handler has asked for another
choice, `nd_next_thread` is the first thread of the lists.  A call that changes the
lists before PendSV is taken comes from a handler, whose `nd_scheduler` only asks;
the tail chooses again, without exception, since the current thread is no longer
RUNNING once a switch is pending (`Agree`).

`OrderKeptInQueues` is about steps.  A call is a change that puts whoever becomes
READY behind its peers (`Behind`), followed by the scheduler, which may put the
thread that ran back on its list: in front exactly when somebody more urgent can
run (`Ranked`, `Urged`), and nobody else (`GaveWay`).  `RankedThen` composes the
two; without `GaveWay` a thread woken and requeued in one step could stand
anywhere.  Whoever leaves a list (`Thinned`) disturbs nobody.  Each lemma about a
call says so in its conclusion, and `RanksStep` collects them.

The argument follows the code: `SeqLemmas` (removal, insertion and
`Append`/`Cons` on sequences and what they do to the order in it, the slots of a
ring); then, in `NdSchedProofs`,
each internal function preserves each agreement, each API call is a composition
of them, and last come one step per action and the temporal theorems.
The lemmas are stated for any client of the kernel, so that the modules of the
objects prove their own calls only.

**Semaphore and mutex.**  `SemPlaces` is `KernelInv` and `Placed` with the
semaphore's list; `SemUnits` says that each unit is in `val` or was handed
to a thread that is about to return (a finite set, which a release enlarges and
a return of `ND_EOK` diminishes, so that each is one step of `CountingSem`), and
that `val` is 0 while somebody waits; `SwitchKept` is kept by its calls as by
those of the scheduler (`SemSwitchStep`).  For the mutex `MutexPlaces` adds that who
is waited for is owned, and by none of the waiters; `Handed`, that a thread
inside a lock that neither waits nor was told of a timeout owns the mutex;
`Inherit`, that wait lists are in order and that the owner is as urgent as each
waiter.

**Calls that wait in a loop.**  `LoopPlaces`, which the queue and the pool share,
adds `Control`: at most one handler is active, a thread whose wait is over goes
on in its loop before anything else happens, and whoever becomes current is in
its own code at once.  It is what makes one iteration of the loop one step of
`BoundedFifo`.  `RingAgrees` relates
`used`, `readp`, `writep` and the slots, modulo any range of indices that the
size divides; `StoreLemma` and `DropLemma` say what a store and a drop do to the
contents.  `WakesAgree` counts: the threads that are woken inside a loop (a
finite set) are at least as many as the messages, or the free slots, that
somebody still waits for.

**Block pool.**  The free list is a recursive function of links.  `PoolChain` does
not speak of it but of a witness: some function lists `free_count` different
blocks, from `free_list` along the links to a null pointer, and they are those
no client has.  A block that is taken is the witness's first (`RestOfList`), one
that is given back comes in front of it (`LongerList`), and at the end the
witness is the chain (`ChainIsList`, by the least number at which they would
differ).  None of this depends on the kernel, hence no hypothesis.
`WakesEnough` counts the woken threads against the free blocks as `WakesAgree`
does for the queue, from the same lemmas (`NextCounts`, `WaitsCounts`,
`LeavesCounts`, `HandsCounts`).

**Event flags.**  A send is a loop, which `Turns` states as a recursive function
of the number of turns; that it exists and what it is worth at each number is
shown with the least number at which it would not be so (`Climbs`, from
`MinIsLeast`).  After so many turns (`AfterTurns`) the kernel's tables agree but
for the switch that is owed, the threads that are gone from the wait list are
woken ones among those looked at (`WokenFrom`), whoever was looked at and stayed
is not satisfied and, since flags only go, never will be (`Looked`), and every
flag that is gone has a woken thread that wanted it (`Accounted`).  At the last
turn everybody was looked at: that is `NobodyOverlooked` and `SendAccounts`.
No hypothesis is needed, because a receive takes its flags from the sender and
not by itself when it goes on: a thread that is suspended or aborted on its way
loses what it was given, and nobody else.

**Timers.**  `TimerIInv` says what lies on the tree in which phase of the
interrupt and between the two steps of `nd_timer_start`.  `Dated` gives the due
time of an armed timer: start, one period per callback, and one more.  `Served`
says that the tree is in order and that each armed timer is watched: by the tick
to come, by a pending interrupt, or by an alarm no later than its due time.

**Context switch and ring.**  `ContextKept` says nothing of a thread while it
does not run, so it is not inductive.  `CtxInv` says what lies on each stack: one
frame that holds what the thread is to find; on RV32 also the first frame of a
thread with that of an interrupt on top, which came while the first was being
loaded; on Cortex-M, in a handler, the scratch registers alone, since the handler
keeps the others.  It also says that the outermost critical section found
interrupts on and those inside it off (`Nested`), without which leaving an inner
one would not keep them off.  One lemma, `Dispatch`, is about
`restore_dispatch`, for all the ways that lead to it; the others are one per
group of actions.  `RingInv` relates the units, the two indices and what
`shell_getc` has done of its steps.

**Lists.**  `ListsAreSequences` asks what a walk from the head meets, which is a
recursive function of the links; `Rings` says the same by positions, which is
inductive: with the head put before and after the elements (`Around`), each
position's `next` is the position after it and its `prev` the one before; no node
is on two lists or twice on one, and a node on none has NULL links or its own.
An insertion of any of the three kinds is one splice between two neighbours
(`InsertRings`), a removal one cut (`RemoveRings`), whatever order the four
pointers are written in (`SetThree`, `UnlinkLemma`).  `WalkAt` says that a loop
that may remove knows the successor of the node it is at, so that moving that
node to another list leaves the loop on its own.  There are finitely many nodes;
nothing else is assumed.

**Heap.** `HeapInv` follows the links by recursion; `HeapIInv` does not. It says
that some set of blocks, the free ones, is `Sound`: the items lie in order of
address and are linked both ways (`Physical`); a numbered ring through
`start_item` meets exactly the free ones (`FreeRing`); exactly they bear no
mark; no two of them are neighbours; and `avail` is their bytes without those
between the end of the pool and the sentinel and with those in `unpaid`, modulo
the range of the counter (`Owed`; `CreditKeeps` and `OwedPlus` add to it). The used blocks are those of the clients and large enough
(`Held`). And `LastFree`, which is no part of what is asked for: the block
before the sentinel is always free. Without it the tail that a shrink cuts off
could be the last block, which ends in the control block, and a realloc could
swallow it (`SwallowLemma` needs another block behind the one that is swallowed;
`Top` leaves more than a header before the sentinel). Each list operation
says what it does to `Physical` and to the ring (`InsertedLemma`,
`RemovedLemma`, `UnchainLemma`, `ChainLemma`, `SwapLemma`), and the parts of the
calls are composed from them: `Carve`, `MergeNext` and `MergePrev` (between
which a block is neither free nor a client's, `Pending`), the tail of a shrink,
the rest of a growth. At the end the walk over the free list, a recursive
function, is shown to meet the ring (`AlongLemma`, `MeetsRingLemma`), so that
first fit finds a free block that is large enough or comes back to `start_item`
(`FitLemma`).

**Only model-checked.**  The liveness properties: fairness, leads-to and ENABLED
are out of the prover's reach.  `TreeInv`, `CopiesExactly`,
`FormatsWithin` and the refinement of `LineEditor`: `RbTree`, `NdShell` and
`NdKlibc` use RECURSIVE operators, which the prover does not take.

## Plan

Modelled so far, in this order: the kernel and its scheduler with the proofs;
mutex; semaphore and queue with their abstract specifications; events and pool;
heap; tree and timer service; lists, receive ring, context switch, shell and
library; then the proofs of the objects, the timer service, the ring, the lists,
the order of the ready queues and the heap.  What is left is what the prover does not take.

## Not modelled

* What the shell echoes and what its commands print (`cmd_ps`, `cmd_help`), and
  the output half of the ports (`shell_puts` and its mutex): wording and layout.
  A sequence longer than three bytes (`ESC [ 3 ~`) ends at its third byte for
  the shell, which then types the rest; the terminal of the model sends none.
* `nd_memset` and `nd_strlen`, single loops without a decision; a `%` at the
  very end of a format, after which the loop steps over the end of the string:
  no caller passes one.
* Registers one by one (the two groups stand for them, those of the FPU among
  the preserved ones); interrupt controllers, fault handlers and the set-up of
  timers and clocks.
* Names, stack addresses and the global thread list, which no operation of the
  kernel reads to decide; the contents of heap blocks.
* The test framework and the set-up of the boards.
