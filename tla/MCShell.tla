------------------------------- MODULE MCShell -------------------------------
(* Small instances of NdShell for TLC. *)
EXTENDS NdShell

Letters == {"A"}
LineEnds == {<<"CR">>, <<"LF">>, <<"CR", "LF">>, <<"LF", "CR">>}

\* One byte, of a terminal that sends two for a line end.
Losses == [n \in LineEnds |-> IF n = <<"CR", "LF">> THEN 1 ELSE 0]
Commands == {<<"A">>}

=============================================================================
