------------------------------- MODULE NdShell -------------------------------
(***************************************************************************)
(* The shell thread (nd_shell.c): line ends, editing, escape sequences,    *)
(* the ring of remembered lines, parsing with nd_strtok_r and the search   *)
(* for the command.                                                        *)
(*                                                                         *)
(* A terminal sends each key as one to three bytes and ends lines in a way *)
(* of its own.  Between it and the shell is the receive ring: the shell    *)
(* gets the bytes in order (UartRing, RingIsFifo), but those that find the *)
(* ring full are lost, also in the middle of a key.  What the shell does   *)
(* with a byte depends on nothing else, so a byte that is not lost is      *)
(* handled at once.  What the shell echoes is left out.                    *)
(***************************************************************************)
EXTENDS Integers, Sequences, FiniteSetsExt

CONSTANTS
  Letter,                \* printable bytes a key sends
  SHELL_BUFFER_SIZE, SHELL_HISTORY_DEPTH, ARGC_MAX,
  Command,               \* the names in the command table
  Newlines,              \* the ways in which terminals end a line
  MaxLost                \* bound: bytes lost, by the way of ending lines

ASSUME ShellAssumption ==
  /\ SHELL_BUFFER_SIZE \in Nat \ {0, 1} /\ SHELL_HISTORY_DEPTH \in Nat \ {0}
  /\ ARGC_MAX \in Nat \ {0} /\ MaxLost \in [Newlines -> Nat]
  /\ Newlines \subseteq {<<"CR">>, <<"LF">>, <<"CR", "LF">>, <<"LF", "CR">>}

Space == " "
Printable == Letter \cup {Space, "[", "A", "B", "C"}
NUL == "NUL"
NotRunning == [found |-> FALSE, argv |-> <<>>]

VARIABLES
  sh,                    \* shell_buf, shell_len, shell_last_line_end and shell_history
  running,               \* what the shell is doing about a line: running a command with its
                         \* argv, saying that there is none, or NotRunning
  newline,               \* how the terminal ends a line
  sending,               \* bytes of the key being sent, each with the key it completes
  lost                   \* bytes lost

shellVars == <<sh, running, newline, sending, lost>>

Index == 0..SHELL_BUFFER_SIZE - 1
History == 0..SHELL_HISTORY_DEPTH - 1

\* What shell_history_init and the C initialisers leave; lines are C strings, kept here
\* without their end.
ShellInit ==
  /\ sh = [buf |-> [i \in Index |-> NUL], len |-> 0, last |-> NUL,
           history |-> [i \in History |-> <<>>], count |-> 0, write_pos |-> 0,
           browse_pos |-> -1, state |-> "NORMAL"]
  /\ running = NotRunning
  /\ newline \in Newlines
  /\ sending = <<>> /\ lost = 0

-----------------------------------------------------------------------------
(* C strings: nd_strtok_r, nd_strcmp and nd_strncpy of nd_klibc.c *)

\* The first place from i on that holds one of cs.
Find(buf, i, cs) == Min({j \in Index : j >= i /\ buf[j] \in cs} \cup {SHELL_BUFFER_SIZE})

CString(buf, i) == [n \in 1..Find(buf, i, {NUL}) - i |-> buf[i + n - 1]]

\* Where the next word starts, and the buffer and save pointer the call leaves behind.
nd_strtok_r(buf, str) ==
  LET start == Find(buf, str, (Printable \cup {NUL}) \ {Space})
      end   == Find(buf, start, {Space, NUL})
  IN IF buf[start] = NUL THEN [token |-> -1, buf |-> buf, save |-> start]
     ELSE IF buf[end] = NUL THEN [token |-> start, buf |-> buf, save |-> end]
     ELSE [token |-> start, buf |-> [buf EXCEPT ![end] = NUL], save |-> end + 1]

-----------------------------------------------------------------------------
(* Line ends *)

\* Mutation of after_line_end: the second byte of a pair is remembered as well.
RemembersSecond(s, c) == [s EXCEPT !.last = IF c \in {"CR", "LF"} THEN c ELSE NUL]

shell_is_line_end(s, c) == c \in {"CR", "LF"} /\ s.last \in {NUL, c}

\* What the call leaves in shell_last_line_end.
after_line_end(s, c) ==
  [s EXCEPT !.last = IF c \notin {"CR", "LF"} THEN NUL
                     ELSE IF shell_is_line_end(s, c) THEN c ELSE @]

-----------------------------------------------------------------------------
(* History *)

shell_replace_input(s, line) ==
  LET n == Min({Len(line), SHELL_BUFFER_SIZE - 1})
  IN [s EXCEPT !.len = n,
               !.buf = [i \in Index |-> IF i < n THEN line[i + 1]
                                        ELSE IF i = n THEN NUL ELSE @[i]]]

shell_history_browse_index(s) ==
  (s.write_pos + SHELL_HISTORY_DEPTH - 1 - s.browse_pos) % SHELL_HISTORY_DEPTH

shell_history_prev(s) ==
  LET s1 == [s EXCEPT !.browse_pos = @ + 1]
  IN IF s.count = 0 \/ s.browse_pos >= s.count - 1 THEN s
     ELSE shell_replace_input(s1, s.history[shell_history_browse_index(s1)])

shell_history_next(s) ==
  LET s1 == [s EXCEPT !.browse_pos = @ - 1]
  IN IF s.browse_pos < 0 THEN s
     ELSE IF s1.browse_pos < 0 THEN shell_replace_input(s1, <<>>)
     ELSE shell_replace_input(s1, s.history[shell_history_browse_index(s1)])

shell_history_is_last_duplicate(s, line) ==
  /\ s.count > 0
  /\ s.history[(s.write_pos + SHELL_HISTORY_DEPTH - 1) % SHELL_HISTORY_DEPTH] = line

shell_history_save(s) ==
  LET line == CString(s.buf, 0)
  IN IF shell_history_is_last_duplicate(s, line) THEN s
     ELSE [s EXCEPT !.history[s.write_pos] = line,
                    !.count = IF @ < SHELL_HISTORY_DEPTH THEN @ + 1 ELSE @,
                    !.write_pos = (@ + 1) % SHELL_HISTORY_DEPTH]

-----------------------------------------------------------------------------
(* Bytes *)

\* shell_handle_ansi: whether it takes the byte, and what it does with it.
TakesByte(s, c) == s.state # "NORMAL" \/ c = "ESC"

shell_handle_ansi(s, c) ==
  CASE s.state = "NORMAL" -> [s EXCEPT !.state = "ESC"]
    [] s.state = "ESC" -> [s EXCEPT !.state = IF c = "[" THEN "CSI" ELSE "NORMAL"]
    [] s.state = "CSI" ->
         [(CASE c = "A" -> shell_history_prev(s)
             [] c = "B" -> shell_history_next(s)
             [] OTHER -> s) EXCEPT !.state = "NORMAL"]

\* Mutation of EndLine: the line is not closed.
EndLineOpen(s) == [s EXCEPT !.browse_pos = -1]

\* shell_input with a byte that ends the line, one that erases, one that is printed.
EndLine(s) == [s EXCEPT !.buf[s.len] = NUL, !.browse_pos = -1]

Erase(s) == IF s.len > 0 THEN [s EXCEPT !.len = @ - 1, !.browse_pos = -1] ELSE s

Insert(s, c) ==
  IF s.len < SHELL_BUFFER_SIZE - 1
  THEN [s EXCEPT !.buf[s.len] = c, !.len = @ + 1, !.browse_pos = -1] ELSE s

Enters(s, c) == ~TakesByte(s, c) /\ shell_is_line_end(s, c)

shell_input(s, c) ==
  LET s1 == after_line_end(s, c)
  IN IF TakesByte(s, c) THEN shell_handle_ansi(s, c)
     ELSE IF shell_is_line_end(s, c) THEN EndLine(s1)
     ELSE IF c = "DEL" THEN Erase(s1)
     ELSE IF c \in Printable THEN Insert(s1, c)
     ELSE s1

-----------------------------------------------------------------------------
(* Commands *)

\* One turn of the loop of shell_parse for each word, with the call that follows it.
RECURSIVE ParseLoop(_, _)
ParseLoop(tok, argv) ==
  IF tok.token = -1 \/ Len(argv) = ARGC_MAX THEN [argv |-> argv, buf |-> tok.buf]
  ELSE ParseLoop(nd_strtok_r(tok.buf, tok.save), Append(argv, tok.token))

shell_parse(buf) == ParseLoop(nd_strtok_r(buf, 0), <<>>)

shell_find(name) == name \in Command

\* What nd_shell_task_entry does with a line: the new shell, and the command to run.
Execute(s) ==
  LET s1 == shell_history_save(s)
      p  == shell_parse(s1.buf)
      argv == [i \in 1..Len(p.argv) |-> CString(p.buf, p.argv[i])]
  IN IF s.len = 0 THEN [s |-> s, running |-> NotRunning]
     ELSE [s |-> [s1 EXCEPT !.buf = p.buf, !.len = 0],
           running |-> IF argv = <<>> THEN NotRunning
                       ELSE [found |-> shell_find(argv[1]), argv |-> argv]]

\* One turn of the loop of nd_shell_task_entry with the byte shell_getc returned.
ShellTurn ==
  LET c == sending[1][1]
      s == shell_input(sh, c)
  IN /\ sending # <<>> /\ running = NotRunning
     /\ IF Enters(sh, c) THEN sh' = Execute(s).s /\ running' = Execute(s).running
        ELSE sh' = s /\ UNCHANGED running
     /\ sending' = Tail(sending)
     /\ UNCHANGED <<newline, lost>>

\* cmd->func returns, or the message has been printed.
CommandReturns ==
  /\ running # NotRunning
  /\ running' = NotRunning
  /\ UNCHANGED <<sh, newline, sending, lost>>

-----------------------------------------------------------------------------
(* The terminal *)

Sends(key) ==
  CASE key = "up" -> <<"ESC", "[", "A">>
    [] key = "down" -> <<"ESC", "[", "B">>
    [] key = "right" -> <<"ESC", "[", "C">>
    [] key = "erase" -> <<"DEL">>
    [] key = "tab" -> <<"TAB">>
    [] key = "enter" -> newline
    [] OTHER -> <<key>>

\* The byte of a key at which the shell is to act: the first of a line end, else the last.
Completes(key) ==
  [i \in DOMAIN Sends(key) |->
     IF i = (IF key = "enter" THEN 1 ELSE Len(Sends(key))) THEN key ELSE "none"]

Press(key) ==
  /\ sending = <<>>
  /\ sending' = [i \in DOMAIN Sends(key) |-> <<Sends(key)[i], Completes(key)[i]>>]
  /\ UNCHANGED <<sh, running, newline, lost>>

\* The byte finds the receive ring full.
Loses ==
  /\ sending # <<>> /\ lost < MaxLost[newline]
  /\ lost' = lost + 1
  /\ sending' = Tail(sending)
  /\ UNCHANGED <<sh, running, newline>>

ShellNext ==
  \/ \E key \in Letter \cup {Space, "up", "down", "right", "erase", "tab", "enter"} : Press(key)
  \/ ShellTurn
  \/ CommandReturns
  \/ Loses

ShellSpec == ShellInit /\ [][ShellNext]_shellVars

-----------------------------------------------------------------------------
(* Properties *)

Line == [i \in 1..sh.len |-> sh.buf[i - 1]]

\* The remembered lines, the oldest first.
Past ==
  [i \in 1..sh.count |->
     sh.history[(sh.write_pos + SHELL_HISTORY_DEPTH - sh.count + i - 1) % SHELL_HISTORY_DEPTH]]

Editor ==
  INSTANCE LineEditor WITH
    MaxLine <- SHELL_BUFFER_SIZE - 1, MaxWords <- ARGC_MAX, Depth <- SHELL_HISTORY_DEPTH,
    line <- Line, past <- Past, at <- sh.browse_pos + 1

\* Whatever bytes come and whatever is dropped, the shell is a line editor: nothing
\* left in shell_buf by an earlier line or by the parser gets into a line, a command
\* or the history, which is the last lines, with no line twice in a row.
EditsLines == Editor!EdSpec

\* As long as no byte is dropped every key acts once and at its own byte, for each of
\* the ways to end a line, also when arrows or tabs come between the line ends; the
\* other bytes of a key change nothing.
KeysActOnce == [][ShellTurn /\ lost = 0 => Editor!EdPress(sending[1][2])]_shellVars

=============================================================================
