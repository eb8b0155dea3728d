------------------------------- MODULE MCMutex -------------------------------
(* Small instances of NdMutex for TLC. *)
EXTENDS NdMutex

CONSTANTS tH, tM, tL, tIdle

Threads == {tH, tM, tL, tIdle}

\* The three threads of a priority inversion, and idle.
PrioHML == (tH :> {0}) @@ (tM :> {1}) @@ (tL :> {2}) @@ (tIdle :> {3})
\* Timeouts of lock: only for ever; or all kinds.
WaitForever == {Forever}
AnyTimeout == {0, 1, Forever}

NoSlices == [t \in Threads |-> 0]

=============================================================================
