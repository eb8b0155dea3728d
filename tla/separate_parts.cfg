SPECIFICATION Spec
CONSTANTS
  Node = {0, 2, 3, 4, 6, 8, 9, 10, 12, 14}
  Nil = Nil
  Key <- InPairs
  PoolAt = 32
  PoolSize = 32
  ControlAt = 16
  Header = 4
  Wrap = 256
  Sizes = {4, 6, 12}
  Counts = {2}
  Room = 4
  Top = 48
  MaxLive = 4
  MaxUnpaid = 12
  ListHead = {q1, q2}
  ListNode = {n1, n2, n3, n4}
  Null = Null
  Byte = {b1, b2}
  BUF_SIZE = 4
  IndexRange = 16
  Ports = {"counts", "looks_ahead"}
  Forced = FALSE
  Task = {t1, t2, t3}
  Nobody = Nobody
  Archs = {"rv32", "a9", "m"}
  MaxDepth = 2
  CopySizes <- CopyMax
  Aligned = {0, 1, 2, 3}
  FormatItems <- SomeItems
  MaxItems = 2
  BufSizes = {0, 1, 4, 7}
  IntRange = 256
INVARIANTS
  TreeInv
  HeapInv
  ListsAreSequences
  BytesCounted
  ContextKept
  CopiesExactly
  FormatsWithin
PROPERTIES
  RingIsFifo
