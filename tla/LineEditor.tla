------------------------------ MODULE LineEditor ------------------------------
(* What the shell promises to somebody at a terminal: a line to edit, the   *)
(* last Depth lines to go back to, and each line run once, as its words.    *)
EXTENDS Integers, Sequences, SequencesExt

CONSTANTS
  Printable, Space,
  MaxLine,               \* the longest line
  MaxWords,              \* the words a command is given at most
  Depth,                 \* the lines remembered
  Command                \* the names there are commands for

VARIABLES line, past, at, running
edVars == <<line, past, at, running>>

None == [found |-> FALSE, argv |-> <<>>]

Starts(s) == {i \in 1..Len(s) : s[i] # Space /\ (i = 1 \/ s[i - 1] = Space)}
WordAt(s, i) ==
  SubSeq(s, i, CHOOSE j \in i..Len(s) :
                 /\ \A m \in i..j : s[m] # Space
                 /\ j = Len(s) \/ s[j + 1] = Space)
Words(s) == [n \in 1..Cardinality(Starts(s)) |-> WordAt(s, SetToSortSeq(Starts(s), <)[n])]

Latest(s, n) == SubSeq(s, IF Len(s) > n THEN Len(s) - n + 1 ELSE 1, Len(s))

\* The n-th line back, none for 0.
Back(n) == IF n = 0 THEN <<>> ELSE past[Len(past) - n + 1]

EdType(c) ==
  /\ IF Len(line) < MaxLine THEN line' = Append(line, c) /\ at' = 0
     ELSE UNCHANGED <<line, at>>
  /\ UNCHANGED <<past, running>>

EdErase ==
  /\ IF line # <<>> THEN line' = Front(line) /\ at' = 0 ELSE UNCHANGED <<line, at>>
  /\ UNCHANGED <<past, running>>

EdUp ==
  /\ IF at < Len(past) THEN at' = at + 1 /\ line' = Back(at + 1) ELSE UNCHANGED <<line, at>>
  /\ UNCHANGED <<past, running>>

EdDown ==
  /\ IF at > 0 THEN at' = at - 1 /\ line' = Back(at - 1) ELSE UNCHANGED <<line, at>>
  /\ UNCHANGED <<past, running>>

EdEnter ==
  /\ line' = <<>> /\ at' = 0
  /\ past' = IF line = <<>> \/ (past # <<>> /\ Last(past) = line) THEN past
             ELSE Latest(Append(past, line), Depth)
  /\ running' = IF Words(line) = <<>> THEN None
                ELSE [found |-> Words(line)[1] \in Command,
                      argv |-> SubSeq(Words(line), 1, Min({MaxWords, Len(Words(line))}))]

EdIdle == UNCHANGED edVars

\* A key, while no command runs.
EdPress(key) ==
  running = None /\
  CASE key \in Printable -> EdType(key)
    [] key = "erase" -> EdErase
    [] key = "up" -> EdUp
    [] key = "down" -> EdDown
    [] key = "enter" -> EdEnter
    [] OTHER -> EdIdle

EdInit == line = <<>> /\ past = <<>> /\ at = 0 /\ running = None
EdNext ==
  \/ running # None /\ running' = None /\ UNCHANGED <<line, past, at>>
  \/ \E key \in Printable \cup {"erase", "up", "down", "enter"} : EdPress(key)
EdSpec == EdInit /\ [][EdNext]_edVars

=============================================================================
