------------------------------ MODULE MCMempool ------------------------------
(* Small instances of NdMempool for TLC. *)
EXTENDS NdMempool

CONSTANTS tA, tB, tC, tIdle

Threads == {tA, tB, tC, tIdle}
Objects == {pool}

\* tB and tC are peers, tA is more urgent; idle is last.
PrioOf == (tA :> {0}) @@ (tB :> {1}) @@ (tC :> {1}) @@ (tIdle :> {2})
NoSlices == [t \in Threads |-> 0]

AnyTimeout == {0, 1, Forever}

=============================================================================
