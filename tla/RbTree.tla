-------------------------------- MODULE RbTree --------------------------------
(***************************************************************************)
(* The red-black tree the timers are kept in (lib/rbtree.c), as operators  *)
(* on a tree: a root and, for every node, its parent, its colour and its   *)
(* two children.  The halves of the code that mirror each other are one    *)
(* operator with the side as its argument.                                 *)
(***************************************************************************)
EXTENDS Naturals, Sequences

CONSTANTS Node, Nil

Side == {"left", "right"}
Opposite(d) == IF d = "left" THEN "right" ELSE "left"

\* RB_ROOT, and nodes after RB_CLEAR_NODE: a node on no tree is its own parent.
RB_ROOT ==
  [root   |-> Nil,
   parent |-> [n \in Node |-> n],
   color  |-> [n \in Node |-> "red"],
   kid    |-> [n \in Node |-> [d \in Side |-> Nil]]]

RB_EMPTY_NODE(t, n) == t.parent[n] = n

\* The children and the colour of a node on no tree are never read again: cleared here.
RB_CLEAR_NODE(t, n) ==
  [t EXCEPT !.parent[n] = n, !.color[n] = "red", !.kid[n] = [d \in Side |-> Nil]]

IsRed(t, n) == n # Nil /\ t.color[n] = "red"
Paint(t, n, c) == IF n = Nil THEN t ELSE [t EXCEPT !.color[n] = c]
SetParent(t, n, p) == IF n = Nil THEN t ELSE [t EXCEPT !.parent[n] = p]
SideOf(t, p, n) == IF t.kid[p]["left"] = n THEN "left" ELSE "right"

\* What pointed down to old points to new.
Relink(t, p, old, new) ==
  IF p = Nil THEN [t EXCEPT !.root = new] ELSE [t EXCEPT !.kid[p][SideOf(t, p, old)] = new]

-----------------------------------------------------------------------------
(* __rb_rotate_left, __rb_rotate_right *)

\* The child of n on the side opposite to d takes the place of n, n becomes its child.
Rotate(t, n, d) ==
  LET up    == t.kid[n][Opposite(d)]
      inner == t.kid[up][d]
      t1    == [t EXCEPT !.kid[n][Opposite(d)] = inner, !.kid[up][d] = n]
      t2    == Relink(SetParent(t1, inner, n), t.parent[n], n, up)
  IN [t2 EXCEPT !.parent[up] = t.parent[n], !.parent[n] = up]

-----------------------------------------------------------------------------
(* Insertion *)

\* The red parent p of n, and its parent g, when the uncle of n is not red.
Straighten(t, n, p, g) ==
  LET d    == SideOf(t, g, p)
      bent == t.kid[p][Opposite(d)] = n
      t1   == IF bent THEN Rotate(t, p, d) ELSE t
      top  == IF bent THEN n ELSE p
  IN Rotate(Paint(Paint(t1, top, "black"), g, "red"), g, Opposite(d))

RECURSIVE rb_insert_color(_, _)
rb_insert_color(t, n) ==
  LET p == t.parent[n]
      g == t.parent[p]
      u == t.kid[g][Opposite(SideOf(t, g, p))]
  IN IF ~IsRed(t, p) THEN Paint(t, t.root, "black")
     ELSE IF IsRed(t, u)
     THEN rb_insert_color(Paint(Paint(Paint(t, u, "black"), p, "black"), g, "red"), g)
     ELSE LET t1 == Straighten(t, n, p, g) IN Paint(t1, t1.root, "black")

rb_link_node(t, n, p, d) ==
  LET t1 == [t EXCEPT !.parent[n] = p, !.color[n] = "red", !.kid[n] = [e \in Side |-> Nil]]
  IN IF p = Nil THEN [t1 EXCEPT !.root = n] ELSE [t1 EXCEPT !.kid[p][d] = n]

-----------------------------------------------------------------------------
(* Removal *)

\* The sibling o of a subtree that lacks a black node, below p on side d, has a red child.
Borrow(t, p, o, d) ==
  LET far == Opposite(d)
      t1  == IF IsRed(t, t.kid[o][far]) THEN t
             ELSE Rotate(Paint(Paint(t, t.kid[o][d], "black"), o, "red"), o, far)
      o1  == t1.kid[p][far]
      t2  == Paint(Paint(t1, o1, t1.color[p]), p, "black")
      t3  == Rotate(Paint(t2, t2.kid[o1][far], "black"), p, d)
  IN Paint(t3, t3.root, "black")

RECURSIVE __rb_erase_color(_, _, _)
__rb_erase_color(t, n, p) ==
  IF IsRed(t, n) \/ n = t.root THEN Paint(t, n, "black")
  ELSE LET d  == SideOf(t, p, n)
           o0 == t.kid[p][Opposite(d)]
           t1 == IF IsRed(t, o0) THEN Rotate(Paint(Paint(t, o0, "black"), p, "red"), p, d)
                                 ELSE t
           o  == t1.kid[p][Opposite(d)]
       IN IF \A e \in Side : ~IsRed(t1, t1.kid[o][e])
          THEN __rb_erase_color(Paint(t1, o, "red"), p, t1.parent[p])
          ELSE Borrow(t1, p, o, d)

RECURSIVE Outermost(_, _, _)
Outermost(t, n, d) == IF t.kid[n][d] = Nil THEN n ELSE Outermost(t, t.kid[n][d], d)

\* A node with at most one child: the child takes its place.
EraseOuter(t, n) ==
  LET child == IF t.kid[n]["left"] = Nil THEN t.kid[n]["right"] ELSE t.kid[n]["left"]
      p     == t.parent[n]
      t1    == Relink(SetParent(t, child, p), p, n, child)
  IN IF t.color[n] = "black" THEN __rb_erase_color(t1, child, p) ELSE t1

\* A node with two children: the next node in order takes its place and its colour.
EraseInner(t, n) ==
  LET s     == Outermost(t, t.kid[n]["right"], "left")
      child == t.kid[s]["right"]
      above == t.parent[s]
      t1    == Relink(t, t.parent[n], n, s)
      t2    == IF above = n THEN t1
               ELSE [SetParent(t1, child, above) EXCEPT
                       !.kid[above]["left"] = child,
                       !.kid[s]["right"] = t.kid[n]["right"],
                       !.parent[t.kid[n]["right"]] = s]
      t3    == [t2 EXCEPT !.parent[s] = t.parent[n], !.color[s] = t.color[n],
                          !.kid[s]["left"] = t.kid[n]["left"],
                          !.parent[t.kid[n]["left"]] = s]
  IN IF t.color[s] = "black"
     THEN __rb_erase_color(t3, child, IF above = n THEN s ELSE above) ELSE t3

\* Mutation of rb_erase: the colours are not repaired.
EraseUnbalanced(t, n) ==
  IF \E d \in Side : t.kid[n][d] = Nil
  THEN LET child == IF t.kid[n]["left"] = Nil THEN t.kid[n]["right"] ELSE t.kid[n]["left"]
       IN Relink(SetParent(t, child, t.parent[n]), t.parent[n], n, child)
  ELSE EraseInner(t, n)

rb_erase(t, n) ==
  IF \E d \in Side : t.kid[n][d] = Nil THEN EraseOuter(t, n) ELSE EraseInner(t, n)

\* victim is not on the tree afterwards.
rb_replace_node(t, victim, new) ==
  LET t1 == Relink(t, t.parent[victim], victim, new)
      t2 == SetParent(SetParent(t1, t.kid[victim]["left"], new), t.kid[victim]["right"], new)
  IN RB_CLEAR_NODE([t2 EXCEPT !.parent[new] = t.parent[victim],
                              !.color[new] = t.color[victim],
                              !.kid[new] = t.kid[victim]], victim)

-----------------------------------------------------------------------------
(* Walking *)

rb_first(t) == IF t.root = Nil THEN Nil ELSE Outermost(t, t.root, "left")
rb_last(t) == IF t.root = Nil THEN Nil ELSE Outermost(t, t.root, "right")

\* The first ancestor that n is not on side d of.
RECURSIVE Above(_, _, _)
Above(t, n, d) ==
  LET p == t.parent[n]
  IN IF p = Nil \/ t.kid[p][d] # n THEN p ELSE Above(t, p, d)

\* rb_next goes to the right, rb_prev to the left.
Neighbour(t, n, d) ==
  IF RB_EMPTY_NODE(t, n) THEN Nil
  ELSE IF t.kid[n][d] = Nil THEN Above(t, n, d)
  ELSE Outermost(t, t.kid[n][d], Opposite(d))

rb_next(t, n) == Neighbour(t, n, "right")
rb_prev(t, n) == Neighbour(t, n, "left")

-----------------------------------------------------------------------------
(* Augmentation: c[n] is what a client keeps about the subtree of n, here  *)
(* its number of nodes, and counts again from the children when called.    *)

Recount(t, c, n) ==
  [c EXCEPT ![n] = 1 + (IF t.kid[n]["left"] = Nil THEN 0 ELSE c[t.kid[n]["left"]])
                     + (IF t.kid[n]["right"] = Nil THEN 0 ELSE c[t.kid[n]["right"]])]

\* The function is called for n, for its sibling, and so on up to the root.
RECURSIVE rb_augment_path(_, _, _)
rb_augment_path(t, c, n) ==
  LET p    == t.parent[n]
      c1   == Recount(t, c, n)
      side == IF n = t.kid[p]["left"] /\ t.kid[p]["right"] # Nil THEN "right" ELSE "left"
      also == t.kid[p][side]
  IN IF p = Nil THEN c1
     ELSE rb_augment_path(t, IF also = Nil THEN c1 ELSE Recount(t, c1, also), p)

\* After rb_insert_color.
rb_augment_insert(t, c, n) ==
  rb_augment_path(t, c, IF t.kid[n]["left"] # Nil THEN t.kid[n]["left"]
                        ELSE IF t.kid[n]["right"] # Nil THEN t.kid[n]["right"] ELSE n)

\* Before rb_erase: the deepest node on the path to repair that stays on the tree.
rb_augment_erase_begin(t, n) ==
  LET l == t.kid[n]["left"]
      r == t.kid[n]["right"]
      s == rb_next(t, n)
  IN IF r = Nil THEN IF l = Nil THEN t.parent[n] ELSE l
     ELSE IF l = Nil THEN r
     ELSE IF t.kid[s]["right"] # Nil THEN t.kid[s]["right"]
     ELSE IF t.parent[s] # n THEN t.parent[s] ELSE s

\* After rb_erase.
rb_augment_erase_end(t, c, deepest) ==
  IF deepest = Nil THEN c ELSE rb_augment_path(t, c, deepest)

=============================================================================
