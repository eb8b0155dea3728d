------------------------------ MODULE NdMempool ------------------------------
(***************************************************************************)
(* A pool of equal blocks (nd_mempool.c) over the scheduler.  The free     *)
(* list is threaded through the blocks: the first word of a free block     *)
(* points to the next one, the first word of an allocated block belongs to *)
(* the client.  Allocation waits in a loop, as in NdQueue.                 *)
(***************************************************************************)
EXTENDS NdSched

CONSTANTS
  pool,          \* the wait list: the only object
  BlockSize,     \* block_size as the caller of nd_mempool_init gives it
  Word,          \* sizeof(void *)
  BlockCount,
  Null,          \* a null pointer
  AllocTimeouts  \* the timeouts of alloc; 0 is ND_TIMEOUT_NOWAIT

\* A block has room for its pointer.
ASSUME PoolAssumption ==
  /\ Object = {pool} /\ Word \in Nat \ {0} /\ BlockCount \in Nat \ {0}
  /\ BlockSize \in Nat /\ BlockSize >= Word
  /\ AllocTimeouts \subseteq 0..MaxDelay \cup {Forever}

VARIABLES
  link,          \* the first word of each block
  free_list,     \* address of the first free block
  free_count,
  given,         \* the blocks clients hold
  patience       \* the timeout of the alloc each thread is in

blocks == <<link, free_list, free_count, given>>
poolVars == <<k, inside, link, free_list, free_count, given, patience>>

\* nd_mempool_init places block i at i * block_size, before alignment.
Block(i) == i * BlockSize
Blocks == {Block(i) : i \in 0..BlockCount - 1}
block_size == ((BlockSize + Word - 1) \div Word) * Word

PoolInit ==
  /\ Init
  /\ link = [a \in Blocks |-> IF a = Block(BlockCount - 1) THEN Null ELSE a + Block(1)]
  /\ free_list = Block(0) /\ free_count = BlockCount
  /\ given = {}
  /\ patience = [t \in Thread |-> 0]

Looping == Booted(k) /\ inside[k.cur] \in Object

-----------------------------------------------------------------------------
(* nd_mempool_alloc *)

Waits(timeout) ==
  /\ timeout # 0
  /\ k' = nd_scheduler(nd_thread_pend(k, pool, timeout))
  /\ inside' = [inside EXCEPT ![k.cur] = pool]
  /\ patience' = [patience EXCEPT ![k.cur] = timeout]
  /\ UNCHANGED blocks

\* The client may write what it likes to its block: Null stands for that.
Unlink ==
  /\ free_count # 0
  /\ free_list' = link[free_list]
  /\ free_count' = free_count - 1
  /\ given' = given \cup {free_list}
  /\ link' = [link EXCEPT ![free_list] = Null]

Takes == Unlink /\ inside' = [inside EXCEPT ![k.cur] = NoThread] /\ UNCHANGED <<k, patience>>

nd_mempool_alloc(timeout) ==
  /\ InOwnCode
  /\ Takes \/ (free_count = 0 /\ Waits(timeout))

\* From a handler, without waiting.
HandlerAlloc == InHandler(k) /\ Unlink /\ UNCHANGED <<k, inside, patience>>

\* The loop, when nd_scheduler has returned.
LoopTimeout ==
  /\ Looping /\ k.error[k.cur] = "ETIMEOUT"
  /\ inside' = [inside EXCEPT ![k.cur] = NoThread]
  /\ UNCHANGED <<k, blocks, patience>>

\* Mutation of LoopAlloc: the woken thread takes its block without another look.
TakesUntested ==
  /\ Looping /\ k.error[k.cur] # "ETIMEOUT"
  /\ free_list' = IF free_list = Null THEN Null ELSE link[free_list]
  /\ free_count' = free_count - 1
  /\ given' = given \cup {free_list}
  /\ inside' = [inside EXCEPT ![k.cur] = NoThread]
  /\ UNCHANGED <<k, link, patience>>

LoopAlloc ==
  /\ Looping /\ k.error[k.cur] # "ETIMEOUT"
  /\ Takes \/ (free_count = 0 /\ Waits(patience[k.cur]))

-----------------------------------------------------------------------------
(* nd_mempool_free *)

\* Of a block the client holds.
nd_mempool_free(a) ==
  /\ InOwnCode \/ InHandler(k)
  /\ a \in given
  /\ link' = [link EXCEPT ![a] = free_list] /\ free_list' = a
  /\ free_count' = free_count + 1
  /\ given' = given \ {a}
  /\ k' = IF k.wait[pool] = <<>> THEN k ELSE nd_scheduler(nd_thread_wakeup(k, pool))
  /\ UNCHANGED <<inside, patience>>

PoolNext ==
  \/ ~Looping /\ Next /\ UNCHANGED <<blocks, patience>>
  \/ \E timeout \in AllocTimeouts : nd_mempool_alloc(timeout)
  \/ HandlerAlloc
  \/ LoopTimeout \/ LoopAlloc
  \/ \E a \in given : nd_mempool_free(a)

PoolSpec == PoolInit /\ [][PoolNext]_poolVars

-----------------------------------------------------------------------------
(* Properties *)

\* The chain of free blocks, n links from free_list.
Chain == LET c[n \in 0..free_count] == IF n = 0 THEN free_list ELSE link[c[n - 1]]
         IN c

\* No block is lost or handed out twice: the free list is free_count blocks long, ends
\* there, and holds exactly the blocks that no client has.
BlocksKept ==
  /\ free_count \in 0..BlockCount
  /\ Chain[free_count] = Null
  /\ {Chain[n] : n \in 0..free_count - 1} = Blocks \ given
  /\ Cardinality(given) = BlockCount - free_count

Woken == {t \in Thread : inside[t] = pool /\ k.stat[t] \in Runnable /\ k.error[t] = "EOK"}

\* No wakeup is lost: while threads wait, every free block has a thread on its way.
NoIdleBlock == k.wait[pool] # <<>> => Cardinality(Woken) >= free_count

\* What the assertions of nd_mempool_free say of every block a client may give back.
BlocksAreAligned ==
  \A a \in given : a < block_size * BlockCount /\ a % block_size = 0

\* The kernel's tables and the free list survive waits that end by a block or a timeout
\* and start over, no free block is left to nobody, and every block handed out may be
\* given back.
PoolInv == KernelInv /\ BlocksKept /\ NoIdleBlock /\ BlocksAreAligned

=============================================================================
