------------------------------ MODULE NdMemHeap ------------------------------
(***************************************************************************)
(* The first-fit heap (nd_memheap.c) and the system heap on it (nd_mem.c). *)
(* A block is an item header and its data.  Items form a physical list in  *)
(* order of address, closed by two sentinels that lie in the heap's        *)
(* control block, and the free ones a second list.  The lowest bit of next *)
(* says that an item is used.                                              *)
(*                                                                         *)
(* Every call is one critical section and calls no scheduler: the heap is  *)
(* a sequential object.                                                    *)
(*                                                                         *)
(* The code never compares two addresses, it only subtracts them, in 32    *)
(* bits.  So an address is modelled by its distance from the start of the  *)
(* pool, going up and past the top of the address space to the bottom: the *)
(* pool is 0..PoolSize-1, and a control block D bytes below the pool, as   *)
(* k_system_heap is on every board (nd_mem.c:4, in .bss below              *)
(* __heap_start), is at Wrap - D.  The last free block reaches from the    *)
(* end of the blocks in the pool to the control block: over what lies      *)
(* between them, or over nearly the whole address space.                   *)
(***************************************************************************)
EXTENDS Integers, FiniteSets, FiniteSetsExt, Functions

CONSTANTS
  PoolAt,        \* start_addr given to nd_memheap_init
  PoolSize,      \* size given to nd_memheap_init
  ControlAt,     \* address of the control block; its first members are the sentinels
  Header,        \* sizeof(nd_memheap_item_t)
  Wrap,          \* 2^32: the range of nd_uint32_t
  Sizes,         \* the sizes clients ask for
  Counts,        \* the counts clients of nd_calloc ask for
  Room,          \* bytes a block enlarged in place leaves, with its free neighbour
  Top,           \* bound: no block is handed out whose successor's header ends above it
  MaxLive,       \* bound: blocks clients hold at once
  MaxUnpaid      \* bound: bytes a heap has in available_size that are not there

\* The pool and the control block are apart, either below the other, at even addresses.
ASSUME HeapAssumption ==
  /\ Header \in Nat \ {0} /\ Header % 2 = 0
  /\ Wrap \in Nat /\ Wrap % 2 = 0
  /\ PoolAt \in Nat /\ PoolAt % 2 = 0 /\ ControlAt \in Nat /\ ControlAt % 2 = 0
  /\ PoolSize \in Nat /\ PoolSize >= Header
  /\ \/ PoolAt + PoolSize <= ControlAt /\ ControlAt + 2 * Header <= Wrap
     \/ ControlAt + 2 * Header <= PoolAt /\ PoolAt + PoolSize <= Wrap
  /\ Sizes \subseteq Nat /\ Counts \subseteq Nat /\ Room \in Nat
  /\ Top \in Nat /\ MaxLive \in Nat /\ MaxUnpaid \in Nat

U32(n) == n % Wrap

StartItem == U32(ControlAt - PoolAt)
EndItem == StartItem + Header

VARIABLES
  heap,          \* heap.item[a]: the item at address a; heap.avail: available_size
  live,          \* the size asked for of each block clients hold, by data address
  unpaid         \* history: the bytes realloc took with a whole block and did not charge

heapVars == <<heap, live, unpaid>>

\* The function f, with v at a.
With(f, a, v) == [x \in DOMAIN f \cup {a} |-> IF x = a THEN v ELSE f[x]]

-----------------------------------------------------------------------------
(* Items *)

item_next(s, a) == s.item[a].next - (s.item[a].next % 2)
ITEM_IS_FREE(s, a) == s.item[a].next % 2 = 0
ITEM_SET_FREE(s, a) == [s EXCEPT !.item[a].next = item_next(s, a)]

\* The links of a used item are written before they are read again: they are cleared here.
ITEM_SET_USED(s, a) ==
  [s EXCEPT !.item[a] =
     [next |-> item_next(s, a) + 1, prev |-> @.prev, next_free |-> a, prev_free |-> a]]
\* next | (old next & 1)
item_set_next(s, a, n) ==
  [s EXCEPT !.item[a].next = IF n % 2 = 1 THEN n ELSE n + (s.item[a].next % 2)]

item_data_size(s, a) == U32(item_next(s, a) - a - Header)
item_split_at(a, offset) == a + Header + offset
item_to_data(a) == a + Header
data_to_item(p) == p - Header

\* The new item is free: its next has no mark.
phys_list_insert_after(s, a, n) ==
  LET new == [next |-> item_next(s, a), prev |-> a, next_free |-> a, prev_free |-> a]
      s1  == [s EXCEPT !.item = With(@, n, new)]
      s2  == [s1 EXCEPT !.item[item_next(s, a)].prev = n]
  IN item_set_next(s2, a, n)

\* The item is forgotten with its header.
phys_list_remove(s, a) ==
  LET s1 == item_set_next(s, s.item[a].prev, item_next(s, a))
      s2 == [s1 EXCEPT !.item[item_next(s, a)].prev = s.item[a].prev]
  IN [s2 EXCEPT !.item = Restrict(@, DOMAIN @ \ {a})]

free_list_insert_after(s, a, n) ==
  LET first == s.item[a].next_free
      s1 == [s EXCEPT !.item[n] = [@ EXCEPT !.next_free = first, !.prev_free = a]]
      s2 == [s1 EXCEPT !.item[first].prev_free = n]
  IN [s2 EXCEPT !.item[a].next_free = n]

free_list_remove(s, a) ==
  LET s1 == [s EXCEPT !.item[s.item[a].prev_free].next_free = s.item[a].next_free]
  IN [s1 EXCEPT !.item[s.item[a].next_free].prev_free = s.item[a].prev_free]

free_list_replace(s, a, n) ==
  LET s1 == [s EXCEPT !.item[n] = [@ EXCEPT !.prev_free = s.item[a].prev_free,
                                             !.next_free = s.item[a].next_free]]
      s2 == [s1 EXCEPT !.item[s.item[a].next_free].prev_free = n]
  IN [s2 EXCEPT !.item[s.item[a].prev_free].next_free = n]

-----------------------------------------------------------------------------
(* nd_memheap_init *)

HeapInit ==
  /\ heap = [avail |-> PoolSize - Header,
             item |-> [a \in {0, StartItem, EndItem} |->
               IF a = 0
               THEN [next |-> EndItem, prev |-> StartItem,
                     next_free |-> StartItem, prev_free |-> StartItem]
               ELSE [next |-> (IF a = StartItem THEN 0 ELSE StartItem) + 1, prev |-> 0,
                     next_free |-> 0, prev_free |-> 0]]]
  /\ live = [p \in {} |-> 0] /\ unpaid = 0

-----------------------------------------------------------------------------
(* Freeing *)

Credit(s, n) == [s EXCEPT !.avail = U32(@ + n)]

\* Mutation of MergeNext: the header that disappears is not counted.
MergeNextUncounted(s, a) ==
  LET n == item_next(s, a)
  IN IF ITEM_IS_FREE(s, n) THEN phys_list_remove(free_list_remove(s, n), n) ELSE s

MergeNext(s, a) ==
  LET n == item_next(s, a)
  IN IF ITEM_IS_FREE(s, n)
     THEN Credit(phys_list_remove(free_list_remove(s, n), n), Header) ELSE s

MergePrev(s, a) ==
  LET p == s.item[a].prev
  IN IF ITEM_IS_FREE(s, p)
     THEN ITEM_SET_FREE(Credit(phys_list_remove(s, a), Header), p)
     ELSE ITEM_SET_FREE(free_list_insert_after(s, StartItem, a), a)

memheap_coalesce(s, a) == MergePrev(MergeNext(Credit(s, item_data_size(s, a)), a), a)

-----------------------------------------------------------------------------
(* Allocating *)

\* The items along the free list, from start_item.
Along(s) ==
  LET at[n \in 0..Cardinality(DOMAIN s.item)] ==
        IF n = 0 THEN StartItem ELSE s.item[at[n - 1]].next_free
  IN at

\* Where the loop ends: at an item that is large enough, or back at start_item.
FirstFit(s, at, size) ==
  at[Min({n \in DOMAIN at \ {0} : at[n] = StartItem \/ item_data_size(s, at[n]) >= size})]

Fit(s, size) == FirstFit(s, Along(s), size)

\* What _memheap_alloc does to the free item a.
Carve(s, a, size) ==
  LET block == item_data_size(s, a)
      n     == item_split_at(a, size)
      split == free_list_replace(phys_list_insert_after(s, a, n), a, n)
  IN IF block >= U32(size + Header)
     THEN ITEM_SET_USED(Credit(split, -(size + Header)), a)
     ELSE ITEM_SET_USED(Credit(free_list_remove(s, a), -block), a)

Reached(a, size) == item_split_at(a, size) + Header <= Top

_memheap_alloc(size) ==
  LET a == Fit(heap, size)
  IN /\ a # StartItem /\ Reached(a, size)
     /\ heap' = Carve(heap, a, size)
     /\ live' = With(live, item_to_data(a), size)
     /\ UNCHANGED unpaid

\* ND_NULL is returned when nothing fits, and nothing changes.  With the control block
\* below the pool something fits as long as the block at the end is free.
nd_memheap_alloc(size) == Cardinality(DOMAIN live) < MaxLive /\ _memheap_alloc(size)

\* The product is formed in 64 bits; one that does not fit is refused.
nd_calloc(count, size) ==
  /\ count # 0 /\ size # 0 /\ count * size < Wrap
  /\ nd_memheap_alloc(count * size)

nd_memheap_free(p) ==
  /\ p \in DOMAIN live
  /\ heap' = memheap_coalesce(heap, data_to_item(p))
  /\ live' = Restrict(live, DOMAIN live \ {p})
  /\ UNCHANGED unpaid

-----------------------------------------------------------------------------
(* nd_memheap_realloc of a block the client holds *)

Keeps(p, size) == live' = [live EXCEPT ![p] = size]

\* The tail of the block becomes a block of its own and is freed, if it can hold a header.
Shrink(p, size) ==
  LET a     == data_to_item(p)
      block == item_data_size(heap, a)
      n     == item_split_at(a, size)
  IN /\ size <= block
     /\ heap' = IF size < block /\ block - size >= Header
                THEN memheap_coalesce(phys_list_insert_after(heap, a, n), n) ELSE heap
     /\ Keeps(p, size) /\ UNCHANGED unpaid

CanGrow(a, size) ==
  LET n == item_next(heap, a)
  IN ITEM_IS_FREE(heap, n)
     /\ U32(item_data_size(heap, a) + Header + item_data_size(heap, n)) >= size

\* Into the free block that follows, which gives up its first bytes or disappears.  What
\* is left of it then stays with the client and is charged to nobody.
GrowInPlace(p, size) ==
  LET a     == data_to_item(p)
      block == item_data_size(heap, a)
      next  == item_next(heap, a)
      rest  == item_data_size(heap, next)
      s     == phys_list_remove(free_list_remove(heap, next), next)
      n     == item_split_at(a, size)
      split == free_list_insert_after(phys_list_insert_after(s, a, n), StartItem, n)
  IN /\ size > block /\ CanGrow(a, size) /\ Reached(a, size)
     /\ block + Header + rest >= size + Room
     /\ IF U32(block + rest - size) >= Header
        THEN heap' = Credit(split, block - size) /\ UNCHANGED unpaid
        ELSE /\ heap' = Credit(Credit(s, Header), block - size)
             /\ unpaid' = unpaid + (Header + block + rest - size) /\ unpaid' <= MaxUnpaid
     /\ Keeps(p, size)

\* Somewhere else; the contents are copied and the old block is freed.
GrowElsewhere(p, size) ==
  LET a == data_to_item(p)
      b == Fit(heap, size)
  IN /\ size > item_data_size(heap, a) /\ ~CanGrow(a, size)
     /\ b # StartItem /\ Reached(b, size)
     /\ heap' = memheap_coalesce(Carve(heap, b, size), a)
     /\ live' = With(Restrict(live, DOMAIN live \ {p}), item_to_data(b), size)
     /\ UNCHANGED unpaid

nd_memheap_realloc(p, size) ==
  /\ p \in DOMAIN live
  /\ Shrink(p, size) \/ GrowInPlace(p, size) \/ GrowElsewhere(p, size)

HeapNext ==
  \/ \E size \in Sizes : nd_memheap_alloc(size)
  \/ \E count \in Counts, size \in Sizes : nd_calloc(count, size)
  \/ \E p \in DOMAIN live : nd_memheap_free(p)
  \/ \E p \in DOMAIN live, size \in Sizes : nd_memheap_realloc(p, size)

HeapSpec == HeapInit /\ [][HeapNext]_heapVars

-----------------------------------------------------------------------------
(* Properties *)

Items == DOMAIN heap.item
FreeItems == {a \in Items : ITEM_IS_FREE(heap, a)}

\* The physical list is the items in order of distance from the start of the pool, with room
\* for a header between two of them, and prev is its inverse.
BlocksInOrder ==
  \A a \in Items \ {StartItem, EndItem} :
    LET n == item_next(heap, a)
    IN /\ n \in Items /\ n >= a + Header /\ heap.item[n].prev = a
       /\ \A b \in Items \ {StartItem} : ~(a < b /\ b < n)

\* The free list is a ring through start_item and exactly the free items, both ways.
FreeListAgrees ==
  /\ {Along(heap)[n] : n \in 0..Cardinality(FreeItems)} = FreeItems \cup {StartItem}
  /\ \A a \in FreeItems \cup {StartItem} : heap.item[heap.item[a].next_free].prev_free = a

\* No two free blocks are neighbours: freed memory can be used again as one block.
Coalesced == \A a \in FreeItems : ~ITEM_IS_FREE(heap, item_next(heap, a))

\* The two lists describe the same memory after any sequence of alloc, free and realloc.
ListsAgree == BlocksInOrder /\ FreeListAgrees /\ Coalesced

\* Every block a client holds is a used item with room for what was asked for, and
\* nothing else is used: no block is lost, shared or given back by itself.
BlocksBelong ==
  /\ {item_to_data(a) : a \in Items \ (FreeItems \cup {StartItem, EndItem})} = DOMAIN live
  /\ \A p \in DOMAIN live : item_data_size(heap, data_to_item(p)) >= live[p]

\* The addresses of the data of free blocks.
FreeBytes == UNION {item_to_data(a)..(item_next(heap, a) - 1) : a \in FreeItems}

\* In 32 bits, available_size counts the free bytes, but for those between the end of the
\* pool and the sentinel that closes the list, and for the bytes realloc did not charge.
AvailableAgrees == heap.avail = U32(Cardinality(FreeBytes) - (EndItem - PoolSize) + unpaid)

\* The lists, the marks of use, the blocks of the clients and the count of free bytes are
\* kept in step over any sequence of alloc, calloc, realloc and free.
HeapInv == ListsAgree /\ BlocksBelong /\ AvailableAgrees

-----------------------------------------------------------------------------
(* What the repository says of the code and the code does not do: see README *)

\* With every block given back, as much is available as after nd_memheap_init.
AllComesBack == DOMAIN live = {} => heap.avail = PoolSize - Header

\* A block lies inside the pool the heap was given.
InsidePool == \A p \in DOMAIN live : p + live[p] <= PoolSize

\* The block handed out next is not one a client still holds.
FreshBlocks ==
  \A size \in Sizes :
    Fit(heap, size) # StartItem => item_to_data(Fit(heap, size)) \notin DOMAIN live

=============================================================================
