------------------------------ MODULE TimerTree ------------------------------
(***************************************************************************)
(* The tree of armed timers (timer_node_insert, timer_remove and           *)
(* get_leftmost_timer of nd_timer.c over lib/rbtree.c), against the sorted *)
(* sequence that the other modules use for it.                             *)
(***************************************************************************)
EXTENDS RbTree, SequencesExt

CONSTANT Key             \* expire_time of each timer

ASSUME KeyAssumption == Nil \notin Node /\ Key \in [Node -> Nat]

VARIABLES
  tree,
  sorted,                \* the timers by expiry, equal ones in order of insertion
  sizes                  \* what a client of the augmentation keeps for each node

treeVars == <<tree, sorted, sizes>>

\* Not a count: of a node that is on no tree.
Stale == 1000

TreeInit == tree = RB_ROOT /\ sorted = <<>> /\ sizes = [n \in Node |-> Stale]

GoesLeft(n, p) == Key[p] > Key[n]

\* The node below which n is linked.
RECURSIVE Place(_, _, _)
Place(t, n, p) ==
  LET below == t.kid[p][IF GoesLeft(n, p) THEN "left" ELSE "right"]
  IN IF below = Nil THEN p ELSE Place(t, n, below)

timer_node_insert(t, n) ==
  LET p == IF t.root = Nil THEN Nil ELSE Place(t, n, t.root)
      d == IF p # Nil /\ GoesLeft(n, p) THEN "left" ELSE "right"
  IN rb_insert_color(rb_link_node(t, n, p, d), n)

\* Of a timer that is not on the tree: nd_timer_start takes it off first.
Insert(n) ==
  /\ RB_EMPTY_NODE(tree, n)
  /\ tree' = timer_node_insert(tree, n)
  /\ \E i \in 0..Len(sorted) :
       /\ \A j \in 1..Len(sorted) : j <= i <=> Key[sorted[j]] <= Key[n]
       /\ sorted' = InsertAt(sorted, i + 1, n)

timer_remove(n) ==
  /\ ~RB_EMPTY_NODE(tree, n)
  /\ tree' = RB_CLEAR_NODE(rb_erase(tree, n), n)
  /\ sorted' = Remove(sorted, n)

\* A library call no timer uses: new is as old as victim.
Replace(victim, new) ==
  /\ ~RB_EMPTY_NODE(tree, victim) /\ RB_EMPTY_NODE(tree, new) /\ Key[victim] = Key[new]
  /\ tree' = rb_replace_node(tree, victim, new)
  /\ sorted' = [i \in DOMAIN sorted |-> IF sorted[i] = victim THEN new ELSE sorted[i]]

\* The calls by which such a client follows an insertion, a removal, a replacement.
CountInsert(n) == sizes' = rb_augment_insert(tree', sizes, n)
CountRemove(n) ==
  sizes' = [rb_augment_erase_end(rb_erase(tree, n), sizes, rb_augment_erase_begin(tree, n))
              EXCEPT ![n] = Stale]
CountReplace(victim, new) == sizes' = [sizes EXCEPT ![new] = sizes[victim], ![victim] = Stale]

TreeNext ==
  \/ \E n \in Node : \/ Insert(n) /\ CountInsert(n)
                     \/ timer_remove(n) /\ CountRemove(n)
  \/ \E victim, new \in Node : Replace(victim, new) /\ CountReplace(victim, new)

TreeSpec == TreeInit /\ [][TreeNext]_treeVars

-----------------------------------------------------------------------------
(* Properties *)

On == Range(sorted)

\* Parents and children are each other's inverse, and the timers that say they are on
\* the tree are those that were inserted and not removed.
LinksAgree ==
  /\ {n \in Node : ~RB_EMPTY_NODE(tree, n)} = On
  /\ tree.root \in On \cup {Nil} /\ (tree.root # Nil => tree.parent[tree.root] = Nil)
  /\ \A n \in On : \A d \in Side :
       tree.kid[n][d] # Nil => tree.kid[n][d] \in On /\ tree.parent[tree.kid[n][d]] = n
  /\ \A n \in On : n # tree.root =>
       tree.parent[n] \in On /\ \E d \in Side : tree.kid[tree.parent[n]][d] = n

RECURSIVE BlackHeights(_)
BlackHeights(n) ==
  IF n = Nil THEN {0}
  ELSE {h + (IF IsRed(tree, n) THEN 0 ELSE 1) :
          h \in UNION {BlackHeights(tree.kid[n][d]) : d \in Side}}

\* The tree is balanced, so that start and stop take logarithmic time: the root is
\* black, no red node has a red child, every path has as many black nodes.
Balanced ==
  /\ ~IsRed(tree, tree.root)
  /\ \A n \in On : \A d \in Side : ~(IsRed(tree, n) /\ IsRed(tree, tree.kid[n][d]))
  /\ \A n \in On : \A i, j \in BlackHeights(n) : i = j

RECURSIVE InOrder(_)
InOrder(n) ==
  IF n = Nil THEN <<>>
  ELSE InOrder(tree.kid[n]["left"]) \o <<n>> \o InOrder(tree.kid[n]["right"])

\* rb_first, rb_last, rb_next and rb_prev lead through the timers in that order; the
\* leftmost timer is the one that expires first.
WalksAgree ==
  /\ rb_first(tree) = IF sorted = <<>> THEN Nil ELSE sorted[1]
  /\ rb_last(tree) = IF sorted = <<>> THEN Nil ELSE sorted[Len(sorted)]
  /\ \A i \in 1..Len(sorted) :
       /\ rb_next(tree, sorted[i]) = IF i = Len(sorted) THEN Nil ELSE sorted[i + 1]
       /\ rb_prev(tree, sorted[i]) = IF i = 1 THEN Nil ELSE sorted[i - 1]

\* The tree holds the timers in order of expiry, and timers of the same time in the
\* order in which they were started, and is walked in that order.
KeepsOrder == InOrder(tree.root) = sorted /\ WalksAgree

RECURSIVE Subtree(_)
Subtree(n) ==
  IF n = Nil THEN {} ELSE {n} \cup UNION {Subtree(tree.kid[n][d]) : d \in Side}

\* What is kept about subtrees is right for every node, the ones that a rotation moved
\* included, although the calls go only up one path.
CountsAgree == \A n \in On : sizes[n] = Cardinality(Subtree(n))

\* After every insertion and removal the tree is a balanced red-black tree of exactly the
\* armed timers, searched and walked in the order in which they are to be served, and
\* what is kept about its subtrees is up to date.
TreeInv == LinksAgree /\ Balanced /\ KeepsOrder /\ CountsAgree

=============================================================================
