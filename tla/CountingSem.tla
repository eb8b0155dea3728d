----------------------------- MODULE CountingSem -----------------------------
(* What a counting semaphore promises: a take uses up one unit that was    *)
(* there from the start or that a release has brought.                     *)
EXTENDS Naturals

CONSTANT Start           \* the units there are at first
VARIABLE units           \* released and not yet taken

SemTake == units > 0 /\ units' = units - 1
SemRelease == units' = units + 1

SemAbstract == units = Start /\ [][SemTake \/ SemRelease]_units

=============================================================================
