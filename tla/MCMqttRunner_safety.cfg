SPECIFICATION Spec
CONSTANTS
  m1 = m1
  m2 = m2
  g1 = g1
  g2 = g2
  Inbound = {m1, m2}
  MaxOutbound = 2
  BufferSize = 1
  Generations = {g1, g2}
  MaxLosses = 1
  Owner = Owner
  Nobody = Nobody
SYMMETRY Symmetry
INVARIANTS
  TypeOK
  InOnePlace
  PublishedInOrder
