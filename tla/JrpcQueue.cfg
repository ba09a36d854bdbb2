SPECIFICATION Spec
CONSTANTS
  Connection = {c1, c2}
  Message = {m1, m2, m3}
  Data = {d1, d2}
  NULL = NULL
INVARIANTS TypeOK
  ListShape
  Ownership
  NoDanglingPointers
PROPERTIES FifoSpec
  CleanupEnds
