------------------------------- MODULE MCTimer -------------------------------
(* Small instances of NdTimer for TLC. *)
EXTENDS NdTimer

BothModes == {FALSE, TRUE}

\* Only without ticks does the code allow for a sum that wraps.
ShortLongForever == [mode \in BothModes |-> IF mode THEN {1, 2, TimeMax} ELSE {1, 2, 3}]

=============================================================================
