------------------------------- MODULE MCSched -------------------------------
(* Small instances of NdSched for TLC. *)
EXTENDS NdSched

CONSTANTS tA, tB, tC, tIdle

ThreadsAB  == {tA, tB, tIdle}
ThreadsABC == {tA, tB, tC, tIdle}

\* tA may be made tB's superior or its peer.
PrioAB == (tA :> {0, 1}) @@ (tB :> {1}) @@ (tIdle :> {2})
SliceAB == (tA :> 1) @@ (tB :> 2) @@ (tIdle :> 0)

NoSlice == [t \in ThreadsABC |-> 0]
SliceABC == (tA :> 0) @@ (tB :> 1) @@ (tC :> 2) @@ (tIdle :> 0)

\* tB and tC are peers, tA is more urgent; idle is last.
PrioABC == (tA :> {0}) @@ (tB :> {1}) @@ (tC :> {1}) @@ (tIdle :> {2})

=============================================================================
