\* Two packets close to each other.
CONSTANTS
  IO_QUEUE_SIZE = 2
  IRQ_QUEUE_SIZE = 2
  FIFO_SIZE = 2
  MAX_RETRIES = 1
  Callers = {"game", "server"}
  Messages = 1
  Packets = 2
SPECIFICATION Spec
CHECK_DEADLOCK FALSE
INVARIANTS
  NothingStranded
