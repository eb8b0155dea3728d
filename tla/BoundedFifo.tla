----------------------------- MODULE BoundedFifo -----------------------------
(* What a message queue promises: messages leave in the order in which     *)
(* they came, each once, and at most Capacity of them are inside.          *)
EXTENDS Naturals, Sequences

CONSTANTS Message, Capacity
VARIABLE fifo

FifoSend == Len(fifo) < Capacity /\ \E m \in Message : fifo' = Append(fifo, m)
FifoRecv == fifo # <<>> /\ fifo' = Tail(fifo)

FifoAbstract == fifo = <<>> /\ [][FifoSend \/ FifoRecv]_fifo

=============================================================================
