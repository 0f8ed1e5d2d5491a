SPECIFICATION Spec
CONSTANT MaxSends = 6
CHECK_DEADLOCK FALSE
INVARIANTS
  NoUnderflow
  FramingIsKept
PROPERTY ImplementsFifo
