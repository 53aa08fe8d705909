\* One packet more than the receive queue holds, while the game task does not read.
CONSTANTS
  IO_QUEUE_SIZE = 1
  IRQ_QUEUE_SIZE = 2
  FIFO_SIZE = 2
  MAX_RETRIES = 1
  Callers = {"game", "server"}
  Messages = 3
  Packets = 2
SPECIFICATION Spec
CHECK_DEADLOCK FALSE
PROPERTIES
  EnqueueReturns
