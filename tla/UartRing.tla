------------------------------- MODULE UartRing -------------------------------
(***************************************************************************)
(* The receive ring between the UART interrupt and the shell thread        *)
(* (the shell_port.c of the boards, usart.c of the NUCLEO-H755ZI-Q).  Bytes    *)
(* are counted twice: by two 8-bit indices that run freely and wrap, and   *)
(* by a semaphore.  The handler runs to its end before the thread goes on; *)
(* the thread holds no lock between the take and the move of tail.         *)
(*                                                                         *)
(* The semaphore is what NdSem is shown to implement: CountingSem.         *)
(***************************************************************************)
EXTENDS Integers, Sequences

CONSTANTS
  Byte,
  BUF_SIZE,
  IndexRange,    \* 2^8: the range of nd_uint8_t
  Ports,         \* the boards, by the way they test for a full ring
  Forced         \* whether the waiting thread may be suspended and resumed

ASSUME RingAssumption ==
  /\ BUF_SIZE \in Nat \ {0} /\ IndexRange \in Nat
  /\ IndexRange % BUF_SIZE = 0 /\ IndexRange > BUF_SIZE + 1
  /\ Ports \subseteq {"counts", "looks_ahead"} /\ Forced \in BOOLEAN

VARIABLES
  port,          \* the board
  rx_buf,        \* buf, head and tail
  rx_sem,        \* units of the semaphore
  getc           \* where shell_getc is, and the byte it has read

ringVars == <<port, rx_buf, rx_sem, getc>>

NUL == "NUL"

RingInit ==
  /\ port \in Ports
  /\ rx_buf = [buf |-> [i \in 0..BUF_SIZE - 1 |-> NUL], head |-> 0, tail |-> 0]
  /\ rx_sem = 0
  /\ getc = [at |-> "take", c |-> NUL]

Slot(i) == i % BUF_SIZE
Wrapped(i) == i % IndexRange

\* Mutation of Full: one byte too many.
FullLate(r) == Wrapped(r.head - r.tail) > BUF_SIZE

\* Two ways to ask: head - tail >= BUF_SIZE, and not head + 1 - tail <= BUF_SIZE.
Full(r) ==
  IF port = "counts" THEN Wrapped(r.head - r.tail) >= BUF_SIZE
  ELSE ~(Wrapped(r.head + 1 - r.tail) <= BUF_SIZE)

\* Mutation of Receive: the byte is stored, the semaphore is not released.
ReceiveQuietly(c) ==
  /\ rx_buf' = [rx_buf EXCEPT !.buf[Slot(rx_buf.head)] = c, !.head = Wrapped(@ + 1)]
  /\ UNCHANGED rx_sem

\* The handler with a byte for which there is room; without room the byte is dropped.
Receive(c) ==
  /\ rx_buf' = [rx_buf EXCEPT !.buf[Slot(rx_buf.head)] = c, !.head = Wrapped(@ + 1)]
  /\ rx_sem' = rx_sem + 1

uart_rx_isr(c) ==
  /\ IF Full(rx_buf) THEN UNCHANGED <<rx_buf, rx_sem>> ELSE Receive(c)
  /\ UNCHANGED <<port, getc>>

\* shell_getc.  The result of the take is not looked at: a thread that was suspended
\* while it waited returns from it without a unit.
GetcTakes ==
  /\ getc.at = "take" /\ (rx_sem > 0 \/ Forced)
  /\ rx_sem' = IF rx_sem > 0 THEN rx_sem - 1 ELSE 0
  /\ getc' = [getc EXCEPT !.at = "read"]
  /\ UNCHANGED <<port, rx_buf>>

GetcReads ==
  /\ getc.at = "read"
  /\ getc' = [at |-> "advance", c |-> rx_buf.buf[Slot(rx_buf.tail)]]
  /\ UNCHANGED <<port, rx_buf, rx_sem>>

GetcAdvances ==
  /\ getc.at = "advance"
  /\ rx_buf' = [rx_buf EXCEPT !.tail = Wrapped(@ + 1)]
  /\ getc' = [getc EXCEPT !.at = "return"]
  /\ UNCHANGED <<port, rx_sem>>

\* The shell has handled the byte and asks for the next.
GetcCalled ==
  /\ getc.at = "return"
  /\ getc' = [at |-> "take", c |-> NUL]
  /\ UNCHANGED <<port, rx_buf, rx_sem>>

RingNext ==
  \/ \E c \in Byte : uart_rx_isr(c)
  \/ GetcTakes \/ GetcReads \/ GetcAdvances \/ GetcCalled

RingSpec == RingInit /\ [][RingNext]_ringVars

-----------------------------------------------------------------------------
(* Properties *)

Inside == Wrapped(rx_buf.head - rx_buf.tail)
Bytes == [i \in 1..Inside |-> rx_buf.buf[Slot(rx_buf.tail + i - 1)]]

\* The two counts agree at every point of shell_getc: there is a unit for every byte in
\* the ring but the one the thread has claimed, so that no byte is left behind and none
\* is read that never came.  The claimed byte is the oldest, and still is when it has
\* been read and the handler has run in between.
BytesCounted ==
  /\ Inside <= BUF_SIZE
  /\ Inside = rx_sem + (IF getc.at \in {"read", "advance"} THEN 1 ELSE 0)
  /\ getc.at = "advance" => getc.c = Bytes[1]

Fifo == INSTANCE BoundedFifo WITH Message <- Byte, Capacity <- BUF_SIZE, fifo <- Bytes

\* What the handler accepts comes out in the same order, each byte once, over every wrap
\* of the indices.
RingIsFifo == Fifo!FifoAbstract

=============================================================================
