-------------------------------- MODULE NdList --------------------------------
(***************************************************************************)
(* The intrusive circular list (nd_list.h) under every queue of the        *)
(* kernel, against the sequences the other modules use for it.  A list is  *)
(* a head and the nodes linked to it; a node on no list has NULL links,    *)
(* but for one that was just initialised, which is a list of its own.      *)
(***************************************************************************)
EXTENDS Naturals, Sequences, FiniteSets, SequencesExt

CONSTANTS ListHead, ListNode, Null

ASSUME ListAssumption ==
  /\ IsFiniteSet(ListNode)
  /\ ListHead \cap ListNode = {} /\ Null \notin ListHead \cup ListNode

VARIABLES
  link,                  \* next and prev of every head and node
  lists,                 \* what each list holds, in order
  walk                   \* a loop over a list that may remove: its list, pos and tmp

listVars == <<link, lists, walk>>

NoWalk == [head |-> Null, pos |-> Null, tmp |-> Null]
Alone(n) == [next |-> n, prev |-> n]

ListInit ==
  /\ link = [n \in ListHead \cup ListNode |->
               IF n \in ListHead THEN Alone(n) ELSE [next |-> Null, prev |-> Null]]
  /\ lists = [h \in ListHead |-> <<>>]
  /\ walk = NoWalk

-----------------------------------------------------------------------------
(* nd_list.h *)

nd_list_init(l, n) == [l EXCEPT ![n] = Alone(n)]

nd_list_insert_after(l, node, new) ==
  LET l1 == [l EXCEPT ![new] = [next |-> l[node].next, prev |-> node]]
      l2 == [l1 EXCEPT ![l1[node].next].prev = new]
  IN [l2 EXCEPT ![node].next = new]

nd_list_insert_before(l, node, new) ==
  LET l1 == [l EXCEPT ![new] = [next |-> node, prev |-> l[node].prev]]
      l2 == [l1 EXCEPT ![l1[node].prev].next = new]
  IN [l2 EXCEPT ![node].prev = new]

\* Mutation of nd_list_remove: the node's own links are left as they are.
RemoveDirty(l, node) ==
  LET l1 == [l EXCEPT ![l[node].prev].next = l[node].next]
  IN [l1 EXCEPT ![l1[node].next].prev = l1[node].prev]

nd_list_remove(l, node) ==
  LET l1 == [l EXCEPT ![l[node].prev].next = l[node].next]
      l2 == [l1 EXCEPT ![l1[node].next].prev = l1[node].prev]
  IN [l2 EXCEPT ![node] = [next |-> Null, prev |-> Null]]

nd_list_is_empty(l, head) == l[head].next = head
nd_list_is_linked(l, node) == l[node].next # Null

\* Where each turn from head on along a link leads, and the nodes met until head comes again.
Turned(l, head, dir) ==
  LET at[n \in 0..Cardinality(ListNode) + 1] == IF n = 0 THEN head ELSE l[at[n - 1]][dir]
  IN at

Walked(l, head, dir) ==
  LET at == Turned(l, head, dir)
      back == Min({n \in 1..Cardinality(ListNode) + 1 : at[n] = head})
  IN [n \in 1..back - 1 |-> at[n]]

nd_list_length(l, head) == Len(Walked(l, head, "next"))

-----------------------------------------------------------------------------
(* What the kernel does with lists *)

Off(n) == \A h \in ListHead : n \notin Range(lists[h])
NoLoop == walk = NoWalk

\* nd_thread_create initialises the node of a thread that is on no list.
InitNode(n) ==
  /\ NoLoop /\ Off(n) /\ link[n] # Alone(n)
  /\ link' = nd_list_init(link, n)
  /\ UNCHANGED <<lists, walk>>

InsertFirst(h, n) ==
  /\ NoLoop /\ Off(n)
  /\ link' = nd_list_insert_after(link, h, n)
  /\ lists' = [lists EXCEPT ![h] = <<n>> \o @]
  /\ UNCHANGED walk

InsertLast(h, n) ==
  /\ NoLoop /\ Off(n)
  /\ link' = nd_list_insert_before(link, h, n)
  /\ lists' = [lists EXCEPT ![h] = Append(@, n)]
  /\ UNCHANGED walk

\* nd_thread_wait_insert: before the first waiter that is less urgent.
InsertBefore(h, i, n) ==
  /\ NoLoop /\ Off(n)
  /\ link' = nd_list_insert_before(link, lists[h][i], n)
  /\ lists' = [lists EXCEPT ![h] = InsertAt(@, i, n)]
  /\ UNCHANGED walk

Remove1(h, n) ==
  /\ NoLoop /\ n \in Range(lists[h])
  /\ link' = nd_list_remove(link, n)
  /\ lists' = [lists EXCEPT ![h] = RemoveFirst(@, n)]
  /\ UNCHANGED walk

\* nd_list_for_each_entry_safe, as nd_event_send goes through its waiters: at each turn
\* the node may leave the list, and may be put at the end of another one.
WalkStart(h) ==
  /\ NoLoop /\ lists[h] # <<>>
  /\ walk' = [head |-> h, pos |-> link[h].next, tmp |-> link[link[h].next].next]
  /\ UNCHANGED <<link, lists>>

WalkOn(l) ==
  IF walk.tmp = walk.head THEN NoWalk
  ELSE [walk EXCEPT !.pos = walk.tmp, !.tmp = l[walk.tmp].next]

WalkKeeps ==
  /\ ~NoLoop
  /\ walk' = WalkOn(link)
  /\ UNCHANGED <<link, lists>>

WalkMoves(h) ==
  LET l1 == nd_list_remove(link, walk.pos)
      l2 == nd_list_insert_before(l1, h, walk.pos)
  IN /\ ~NoLoop /\ h # walk.head
     /\ link' = l2
     /\ lists' = [lists EXCEPT ![walk.head] = RemoveFirst(@, walk.pos), ![h] = Append(@, walk.pos)]
     /\ walk' = WalkOn(l2)

ListNext ==
  \/ \E n \in ListNode : InitNode(n)
  \/ \E h \in ListHead, n \in ListNode :
       \/ InsertFirst(h, n) \/ InsertLast(h, n) \/ Remove1(h, n)
       \/ \E i \in DOMAIN lists[h] : InsertBefore(h, i, n)
  \/ \E h \in ListHead : WalkStart(h) \/ WalkMoves(h)
  \/ WalkKeeps

ListSpec == ListInit /\ [][ListNext]_listVars

-----------------------------------------------------------------------------
(* Properties *)

\* Forwards and backwards every list is the sequence the kernel means it to be, whatever
\* was inserted, removed and moved before and in the middle of a loop; a node is linked
\* exactly while it is on a list or freshly initialised, which nd_thread_suspend and
\* nd_thread_halt rely on when they decide whether to unlink a thread.
ListsAreSequences ==
  /\ \A h \in ListHead :
       /\ Walked(link, h, "next") = lists[h]
       /\ Walked(link, h, "prev") = Reverse(lists[h])
       /\ nd_list_is_empty(link, h) <=> lists[h] = <<>>
       /\ nd_list_length(link, h) = Len(lists[h])
  /\ \A n \in ListNode :
       nd_list_is_linked(link, n) <=> (~Off(n) \/ link[n] = Alone(n))
  /\ ~NoLoop => walk.pos \in Range(lists[walk.head])

=============================================================================
