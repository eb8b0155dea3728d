------------------------------- MODULE MCParts -------------------------------
(***************************************************************************)
(* The parts of the system that are checked on their own, in small         *)
(* instances for TLC.  They share no state, so each behaviour is one of a  *)
(* single part: an interleaving of two of them would show nothing more.    *)
(***************************************************************************)
EXTENDS TimerTree, NdMemHeap, NdList, UartRing, NdContext, NdKlibc

VARIABLE part

partVars == <<part, treeVars, heapVars, listVars, ringVars, ctxVars, called>>

Init ==
  /\ part \in {"tree", "heap", "list", "ring", "context", "klibc"}
  /\ TreeInit /\ HeapInit /\ ListInit /\ LibInit
  /\ IF part = "ring" THEN RingInit
     ELSE RingInit /\ port = CHOOSE p \in Ports : TRUE
  /\ IF part = "context" THEN CtxInit
     ELSE CtxInit /\ arch = CHOOSE a \in Archs : TRUE

Next ==
  \/ /\ part = "tree" /\ TreeNext
     /\ UNCHANGED <<part, heapVars, listVars, ringVars, ctxVars, called>>
  \/ /\ part = "heap" /\ HeapNext
     /\ UNCHANGED <<part, treeVars, listVars, ringVars, ctxVars, called>>
  \/ /\ part = "list" /\ ListNext
     /\ UNCHANGED <<part, treeVars, heapVars, ringVars, ctxVars, called>>
  \/ /\ part = "ring" /\ RingNext
     /\ UNCHANGED <<part, treeVars, heapVars, listVars, ctxVars, called>>
  \/ /\ part = "context" /\ CtxNext
     /\ UNCHANGED <<part, treeVars, heapVars, listVars, ringVars, called>>
  \/ /\ part = "klibc" /\ LibNext
     /\ UNCHANGED <<part, treeVars, heapVars, listVars, ringVars, ctxVars>>

Spec == Init /\ [][Next]_partVars

-----------------------------------------------------------------------------
(* Constants *)

\* Timers 2i and 2i + 1 expire together.
InPairs == [n \in Node |-> n \div 2]

CopyMax == 0..72

Item(left, width, conv, num, str) ==
  [left |-> left, width |-> width, conv |-> conv, num |-> num, str |-> str]

SomeItems ==
  {Item(FALSE, 0, "literal", 0, <<"k">>)} \cup
  {Item(l, w, "d", n, <<>>) : l \in BOOLEAN, w \in {0, 5}, n \in {0, 120, -5, -128}} \cup
  {Item(l, 3, c, n, <<>>) : l \in BOOLEAN, c \in {"u", "x"}, n \in {0, 250}} \cup
  {Item(l, 2, "s", 0, s) : l \in BOOLEAN, s \in {<<>>, <<"a">>, <<"a", "b", "c">>, NullStr}} \cup
  {Item(FALSE, 0, "c", 0, <<"z">>), Item(TRUE, 2, "%", 0, <<>>), Item(FALSE, 0, "q", 0, <<>>)}

=============================================================================
