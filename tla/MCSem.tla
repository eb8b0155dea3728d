-------------------------------- MODULE MCSem --------------------------------
(* Small instances of NdSem for TLC. *)
EXTENDS NdSem

CONSTANTS tA, tB, tC, tIdle

Threads == {tA, tB, tC, tIdle}
Objects == {sem}

\* tB and tC are peers, tA is more urgent; idle is last.
PrioOf == (tA :> {0}) @@ (tB :> {1}) @@ (tC :> {1}) @@ (tIdle :> {2})
NoSlices == [t \in Threads |-> 0]

\* Timeouts of take: for a tick, or for ever.
TickOrForever == {1, Forever}
AnyTimeout == {0, 1, Forever}
WaitForever == {Forever}

=============================================================================
