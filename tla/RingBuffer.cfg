SPECIFICATION Spec
CONSTANTS
  Buffers = {b1, b2}
  T = {x, y}
  Raw = Raw
  Capacity = 3
  Word = 6
INVARIANTS LiveExact
PROPERTIES ImplementsFifo
