SPECIFICATION Spec
CONSTANTS
  PCBs = {p1, p2}
  PROCESS_QUEUE_SIZE = 4
INVARIANT TypeOK
INVARIANT FullAtCapacity
PROPERTY ImplementsFifo
