\* Queues that fill up, packets and failed transmissions at any time.
CONSTANTS
  IO_QUEUE_SIZE = 1
  IRQ_QUEUE_SIZE = 2
  FIFO_SIZE = 2
  MAX_RETRIES = 1
  Callers = {"game", "server"}
  Messages = 4
  Packets = 3
SPECIFICATION Spec
CHECK_DEADLOCK FALSE
INVARIANTS
  TypeOK
  BusExclusive
  SentInOrder
  ReceivedInOrder
PROPERTIES
  IdleListens
  EnqueueReturnsIfRoom
