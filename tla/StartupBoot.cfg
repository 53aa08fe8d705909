\* Three pipes, two of them of slaves that are not monitored.
CONSTANTS
  LAST_PIPE = 3
  MAX_SLAVES = 1
  FIFO_SIZE = 2
  IRQ_QUEUE_SIZE = 2
  TIMER_QUEUE_SIZE = 3
SPECIFICATION Spec
INVARIANTS
  TypeOK
  InterruptHasQueue
  PipesComplete
  OnlineHeard
  Attributed
  OnlineWatched
