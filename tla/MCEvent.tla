------------------------------- MODULE MCEvent -------------------------------
(* Small instances of NdEvent for TLC. *)
EXTENDS NdEvent

CONSTANTS tA, tB, tC, tIdle

Threads == {tA, tB, tC, tIdle}
Objects == {event}

\* tB and tC are peers, tA is more urgent; idle is last.
PrioOf == (tA :> {0}) @@ (tB :> {1}) @@ (tC :> {1}) @@ (tIdle :> {2})
NoSlices == [t \in Threads |-> 0]

Pairs == {{"f"}, {"g"}, {"f", "g"}}
Nested == {{"f"}, {"f", "g"}}
WaitForever == {Forever}
TickOrForever == {1, Forever}

=============================================================================
