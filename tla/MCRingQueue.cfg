\* MAX_CAPACITY scaled down to 3; two distinguishable elements and the
\* zero-initialised one.
CONSTANTS
  a = a
  b = b
  zero = zero
  Capacity = 3
  Value <- MCValue
  Zero = zero
  NULL = NULL
SPECIFICATION Spec
INVARIANT TypeOK
INVARIANT FieldsAgree
PROPERTY DequeuedSlotStable
PROPERTY ImplementsFifo
